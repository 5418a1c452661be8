--------------------------- MODULE StartupProofs ----------------------------
(***************************************************************************)
(* Proofs about Startup: the application runs only with its own sandbox    *)
(* lifted, and draws only into a buffer that nobody sees.  They hold for   *)
(* any number of processes, attempts, frames and queued flips, and for a   *)
(* log of any size.                                                        *)
(***************************************************************************)
EXTENDS Startup, SequenceTheorems, FiniteSetTheorems, TLAPS

USE StartupAssumption, SceneAssumption, LoggerAssumption

(***************************************************************************)
(* The request to lift the sandbox.                                        *)
(***************************************************************************)
\* Once the request is written it names this process, or the daemon has taken
\* it and lifted the sandbox of this process.
RequestInv ==
    /\ pid \in Nat
    /\ pc = "wait" => trigger = pid \/ (trigger = NoFile /\ pid \in granted)
    /\ pc = "init" \/ Running => pid \in granted

\* The first process has not got past the request.
LEMMA RequestInit == Init => RequestInv
BY DEF Init, RequestInv, Running

\* The four steps of RequestKylinJailbreak().
LEMMA HandshakeKeepsRequest == RequestInv /\ Handshake => RequestInv'
<1>. SUFFICES ASSUME RequestInv, Handshake PROVE RequestInv'
  OBVIOUS
<1>1. CASE UnlinkTrigger
  BY <1>1 DEF UnlinkTrigger, RequestInv, Running
<1>2. CASE OpenTrigger
  BY <1>2 DEF OpenTrigger, RequestInv, Running
<1>3. CASE WriteTrigger
  BY <1>3 DEF WriteTrigger, RequestInv, Running
<1>4. CASE WaitForDaemon
  BY <1>4 DEF WaitForDaemon, GivenUp, RequestInv, Running
<1>. QED BY <1>1, <1>2, <1>3, <1>4 DEF Handshake

\* The daemon takes the file only after it has lifted the sandbox it names.
LEMMA DaemonKeepsRequest == RequestInv /\ Daemon => RequestInv'
BY DEF Daemon, RequestInv, Running

\* The frames never go back before AppInit.
LEMMA FrameKeepsRequest == RequestInv /\ Frame => RequestInv'
BY DEF Frame, AppInit, Draw, Flip, FrameStatus, FrameEvent, Swap, Goes, AfterEvent,
       RequestInv, Running

\* Every step of the process, of the daemon and of the world around it.
LEMMA NextKeepsRequest == RequestInv /\ [Next]_vars => RequestInv'
<1>. SUFFICES ASSUME RequestInv, [Next]_vars PROVE RequestInv'
  OBVIOUS
<1>1. CASE Main
  BY <1>1, HandshakeKeepsRequest, FrameKeepsRequest DEF Main
<1>2. CASE Daemon
  BY <1>2, DaemonKeepsRequest
<1>3. CASE Restart
  BY <1>3 DEF Restart, RequestInv, Running
<1>4. CASE UNCHANGED bootVars
  BY <1>4 DEF bootVars, RequestInv, Running
<1>5. Logs \/ (\E t \in Threads : InLogMessage(t)) \/ Display \/ UNCHANGED vars
        => UNCHANGED bootVars
  BY DEF Logs, InLogMessage, Display, vars
<1>. QED BY <1>1, <1>2, <1>3, <1>4, <1>5 DEF Next

\* App::Init() and the frames run only in a process whose sandbox was lifted on
\* its own request (RequestKylinJailbreak in main.cpp).
THEOREM Unrestricted == Spec => []RunsUnrestricted
<1>1. RequestInv => RunsUnrestricted
  BY DEF RequestInv, RunsUnrestricted
<1>. QED BY <1>1, RequestInit, NextKeepsRequest, PTL DEF Spec

(***************************************************************************)
(* The two frame buffers.                                                  *)
(***************************************************************************)
Other(b) == 1 - b
FlipOf(b, id) == [buffer |-> b, arg |-> id]

\* The output has seen no flip: its status may hold the number of frame 0.
Fresh ==
    /\ frame = 0 /\ flips = <<>> /\ shown = Wild
    /\ flipArg \in {0, FrameIds - 1}

\* The previous frame is on the screen.
Steady == flips = <<>> /\ shown = Other(active) /\ frame = NextFrame(flipArg)

\* The previous frame was frame 0, and its wait came back before its flip.
Early ==
    /\ flips = <<FlipOf(Other(active), flipArg)>> /\ shown = Wild
    /\ frame = NextFrame(flipArg)

\* This frame is on the screen.
Done == flips = <<>> /\ shown = active /\ flipArg = frame

\* This frame is the only one queued.
Queued ==
    /\ flips = <<FlipOf(active, frame)>>
    /\ frame = NextFrame(flipArg) \/ (flipArg = frame /\ shown = Wild)

\* Both frames are queued.
QueuedBoth ==
    /\ flips = <<FlipOf(Other(active), flipArg), FlipOf(active, frame)>>
    /\ frame = NextFrame(flipArg)

\* The output has refused the flip of this frame, and never reports it.
Lost ==
    /\ frame = NextFrame(flipArg)
    /\ flips = <<>> \/ flips = <<FlipOf(Other(active), flipArg)>>

\* Which of these holds at which place of the loop.
SceneInv ==
    /\ active \in Buffers \cup {Wild}
    /\ frame \in 0 .. FrameIds - 1 /\ flipArg \in 0 .. FrameIds - 1
    /\ pc \in {"flip", "status", "equeue", "swap"} => active \in Buffers
    /\ pc \in {"unlink", "open", "write", "wait", "init", "idle", "ended"} => Fresh
    /\ pc \in {"draw", "flip"} => Fresh \/ (active \in Buffers /\ (Steady \/ Early))
    /\ pc \in {"status", "equeue", "swap"} => Done \/ Queued \/ QueuedBoth \/ Lost
    /\ pc = "swap" => flipArg = frame
    /\ pc \in {"unlink", "open", "write", "wait", "init", "draw", "flip", "status",
               "equeue", "swap", "idle", "ended"}

USE DEF Buffers

\* Numbers of successive frames differ, and stay in their range.
LEMMA FrameNumbers ==
    ASSUME NEW id \in 0 .. FrameIds - 1
    PROVE  NextFrame(id) \in 0 .. FrameIds - 1 /\ NextFrame(id) # id
BY DEF NextFrame

\* A new process finds the output unused.
LEMMA SceneStarts == Init => SceneInv
BY DEF Init, SceneInit, SceneInv, Fresh

\* The same after a restart.
LEMMA RestartKeepsScene == SceneInv /\ Restart => SceneInv'
BY DEF Restart, SceneReset, SceneInv, Fresh

\* Nothing is drawn before App::Init() has succeeded.
LEMMA HandshakeKeepsScene == SceneInv /\ Handshake => SceneInv'
BY DEF Handshake, UnlinkTrigger, OpenTrigger, WriteTrigger, WaitForDaemon, GivenUp,
       SceneInv, sceneVars, Fresh

\* App::Init(), and Draw() into the buffer of the frame.
LEMMA DrawKeepsScene == SceneInv /\ (AppInit \/ Draw) => SceneInv'
BY DEF AppInit, Draw, Goes, SceneInv, sceneVars, Fresh, Steady, Early

\* A flip queued behind one.
LEMMA AppendToOne == ASSUME NEW x, NEW y PROVE Append(<<x>>, y) = <<x, y>>
<1>. DEFINE s == Append(<<x>>, y)
            t == <<x, y>>
<1>1. <<x>> \in Seq({x, y}) /\ y \in {x, y}
  OBVIOUS
<1>2. s \in Seq({x, y}) /\ Len(s) = 2 /\ s[1] = x /\ s[2] = y
  BY <1>1, AppendProperties
<1>3. t \in Seq({x, y}) /\ Len(t) = 2 /\ t[1] = x /\ t[2] = y
  OBVIOUS
<1>. HIDE DEF s, t
<1>4. \A i \in 1 .. Len(s) : s[i] = t[i]
  BY <1>2, <1>3
<1>5. s = t
  BY <1>2, <1>3, <1>4, SeqEqual
<1>. QED BY <1>5 DEF s, t

\* SubmitFlip() queues the frame behind the previous one, or is refused.
LEMMA FlipKeepsScene == SceneInv /\ Flip => SceneInv'
<1>. SUFFICES ASSUME SceneInv, Flip PROVE SceneInv'
  OBVIOUS
<1>. DEFINE new == FlipOf(active, frame)
<1>1. /\ flips' = IF Len(flips) < FlipQueue THEN Append(flips, new) ELSE flips
      /\ UNCHANGED <<active, frame, shown, flipArg>>
      /\ pc = "flip" /\ pc' = "status"
  BY DEF Flip, Goes, SubmitFlip, FlipId, FlipOf
<1>2. CASE Fresh
  <2>1. flips' = <<new>>
    BY <1>1, <1>2 DEF Fresh
  <2>2. Queued'
    BY <1>1, <1>2, <2>1 DEF Fresh, Queued, NextFrame, FlipOf
  <2>. QED BY <1>1, <2>2 DEF SceneInv
<1>3. CASE Steady
  <2>1. flips' = <<new>>
    BY <1>1, <1>3 DEF Steady
  <2>2. Queued'
    BY <1>1, <1>3, <2>1 DEF Steady, Queued, NextFrame, FlipOf
  <2>. QED BY <1>1, <2>2 DEF SceneInv
<1>4. CASE Early
  <2>. DEFINE old == FlipOf(Other(active), flipArg)
  <2>1. flips' = <<old, new>> \/ flips' = <<old>>
    <3>1. flips = <<old>>
      BY <1>4 DEF Early
    <3>. HIDE DEF old, new
    <3>2. Append(<<old>>, new) = <<old, new>>
      BY AppendToOne
    <3>. QED BY <1>1, <3>1, <3>2
  <2>2. QueuedBoth' \/ Lost'
    BY <1>1, <1>4, <2>1 DEF Early, QueuedBoth, Lost, NextFrame, FlipOf, Other
  <2>. QED BY <1>1, <2>2 DEF SceneInv
<1>. QED BY <1>1, <1>2, <1>3, <1>4 DEF SceneInv

\* FrameWait() goes on only when the output reports the number of this frame.
LEMMA WaitKeepsScene == SceneInv /\ (FrameStatus \/ FrameEvent) => SceneInv'
<1>. SUFFICES ASSUME SceneInv, FrameStatus \/ FrameEvent PROVE SceneInv'
  OBVIOUS
<1>1. UNCHANGED <<active, frame, flips, shown, flipArg>>
  BY DEF FrameStatus, FrameEvent, WaitEqueue, sceneVars
<1>2. /\ pc \in {"status", "equeue"} /\ pc' \in {"status", "equeue", "swap"}
      /\ pc' = "swap" => flipArg = frame
  BY DEF FrameStatus, FrameEvent, Goes, AfterEvent, Flipped
<1>3. (Done \/ Queued \/ QueuedBoth \/ Lost)'
  BY <1>1, <1>2 DEF SceneInv, Done, Queued, QueuedBoth, Lost, NextFrame, FlipOf, Other
<1>. QED BY <1>1, <1>2, <1>3 DEF SceneInv

\* FrameBufferSwap(): the frame that is drawn next has the other buffer.
LEMMA SwapKeepsScene == SceneInv /\ Swap => SceneInv'
<1>. SUFFICES ASSUME SceneInv, Swap PROVE SceneInv'
  OBVIOUS
<1>1. /\ pc = "swap" /\ pc' = "draw"
      /\ active' = (active + 1) % 2 /\ frame' = NextFrame(frame)
      /\ UNCHANGED <<flips, shown, flipArg>>
  BY DEF Swap, Goes, FrameBufferSwap
<1>2. active \in Buffers /\ flipArg = frame /\ (Done \/ Queued)
  BY <1>1, FrameNumbers DEF SceneInv, QueuedBoth, Lost
<1>3. active' \in Buffers /\ Other(active') = active
  BY <1>1, <1>2 DEF Other
<1>4. frame' \in 0 .. FrameIds - 1 /\ frame' = NextFrame(flipArg')
  <2>. SUFFICES NextFrame(frame) \in 0 .. FrameIds - 1 /\ NextFrame(frame) = NextFrame(flipArg)
    BY <1>1 DEF NextFrame
  <2>. QED BY <1>2, FrameNumbers DEF SceneInv
<1>5. Steady' \/ Early'
  <2>1. CASE Done
    BY <1>1, <1>2, <1>3, <1>4, <2>1 DEF Done, Steady
  <2>2. CASE Queued
    BY <1>1, <1>2, <1>3, <1>4, <2>2, FrameNumbers DEF SceneInv, Queued, Early, FlipOf
  <2>. QED BY <1>2, <2>1, <2>2
<1>. QED BY <1>1, <1>3, <1>4, <1>5 DEF SceneInv

\* A vertical blank shows the first of the queue, of whichever frame it is.
LEMMA VblankKeepsScene == SceneInv /\ Display => SceneInv'
<1>. SUFFICES ASSUME SceneInv, Display PROVE SceneInv'
  OBVIOUS
<1>1. /\ flips # <<>>
      /\ shown' = Head(flips).buffer /\ flipArg' = Head(flips).arg /\ flips' = Tail(flips)
      /\ UNCHANGED <<active, frame, pc>>
  BY DEF Display, Vblank, bootVars
<1>2. Early => Steady' /\ flipArg' = flipArg
  BY <1>1 DEF Early, Steady, FlipOf, NextFrame, Other
<1>3. Queued => Done'
  BY <1>1 DEF Queued, Done, FlipOf
<1>4. QueuedBoth => Queued' /\ flipArg' = flipArg
  BY <1>1 DEF QueuedBoth, Queued, FlipOf, NextFrame, Other
<1>5. Lost => Lost' /\ flipArg' = flipArg
  <2>. SUFFICES ASSUME Lost PROVE Lost' /\ flipArg' = flipArg
    OBVIOUS
  <2>1. flips = <<FlipOf(Other(active), flipArg)>> /\ frame = NextFrame(flipArg)
    BY <1>1 DEF Lost
  <2>2. flips' = <<>> /\ flipArg' = flipArg
    BY <1>1, <2>1 DEF FlipOf
  <2>. QED BY <1>1, <2>1, <2>2 DEF Lost, NextFrame
<1>6. ~Fresh /\ ~Steady /\ ~Done
  BY <1>1 DEF Fresh, Steady, Done
<1>7. flipArg' \in 0 .. FrameIds - 1
  BY <1>1, <1>2, <1>3, <1>4, <1>5, <1>6 DEF SceneInv, Done
<1>. QED BY <1>1, <1>2, <1>3, <1>4, <1>5, <1>6, <1>7 DEF SceneInv, Done

\* Every step of the process, of the display and of the world around it.
LEMMA NextKeepsScene == SceneInv /\ [Next]_vars => SceneInv'
<1>. SUFFICES ASSUME SceneInv, [Next]_vars PROVE SceneInv'
  OBVIOUS
<1>1. CASE Main
  BY <1>1, HandshakeKeepsScene, DrawKeepsScene, FlipKeepsScene, WaitKeepsScene,
     SwapKeepsScene DEF Main, Frame
<1>2. CASE Display
  BY <1>2, VblankKeepsScene
<1>3. CASE Restart
  BY <1>3, RestartKeepsScene
<1>4. CASE UNCHANGED <<pc, sceneVars>>
  BY <1>4 DEF SceneInv, sceneVars, Fresh, Steady, Early, Done, Queued, QueuedBoth, Lost,
              NextFrame, FlipOf, Other
<1>5. Daemon \/ Logs \/ (\E t \in Threads : InLogMessage(t)) \/ UNCHANGED vars
        => UNCHANGED <<pc, sceneVars>>
  BY DEF Daemon, Logs, InLogMessage, bootVars, vars
<1>. QED BY <1>1, <1>2, <1>3, <1>4, <1>5 DEF Next

\* The UI thread never draws into the buffer on the screen, nor into one that
\* is queued to be shown, for a queue of any length (Scene2D::SubmitFlip,
\* FrameWait, FrameBufferSwap), although the first FrameWait() may come back
\* before the frame is shown.
THEOREM Unseen == Spec => []DrawsUnseen
<1>1. SceneInv => DrawsUnseen
  <2>. SUFFICES ASSUME SceneInv, pc = "draw", active \in Buffers
                PROVE  /\ shown # active
                       /\ \A i \in 1 .. Len(flips) : flips[i].buffer # active
    BY DEF DrawsUnseen
  <2>1. CASE Fresh
    BY <2>1 DEF Fresh
  <2>2. CASE Steady
    BY <2>2 DEF Steady, Other
  <2>3. CASE Early
    BY <2>3 DEF Early, Other, FlipOf
  <2>. QED BY <2>1, <2>2, <2>3 DEF SceneInv
<1>. QED BY <1>1, SceneStarts, NextKeepsScene, PTL DEF Spec

(***************************************************************************)
(* The log.                                                                *)
(***************************************************************************)
Places == {"out", "lock", "remove", "rename", "append"}
Inside == {"remove", "rename", "append"}

\* The mutex lets one thread rotate and append at a time; the loop of
\* RotateLocked() runs over the numbers of the files.
LockInv ==
    /\ at \in [Threads -> Places] /\ index \in [Threads -> 0 .. RotateCount]
    /\ \A t \in Threads : at[t] \in Inside <=> owner = t
    /\ \A t \in Threads : at[t] = "rename" => index[t] > 0
    /\ \A t \in Threads : at[t] = "remove" => Full

\* What the files hold, whatever call failed: lines that were appended, in their order.
Appended(f, n) == \A i \in 0 .. RotateCount : \A k \in 1 .. Len(f[i]) : f[i][k] \in 1 .. n
Ascending(f) == \A i \in 0 .. RotateCount : \A k, l \in 1 .. Len(f[i]) :
                   k < l => f[i][k] < f[i][l]
OldestLast(f) == \A i, j \in 0 .. RotateCount : i < j =>
                    \A k \in 1 .. Len(f[j]), l \in 1 .. Len(f[i]) : f[j][k] < f[i][l]

RowsInv ==
    /\ logs \in [0 .. RotateCount -> Seq(Nat)] /\ appended \in Nat
    /\ failed \in Nat /\ cut \in Nat
    /\ Appended(logs, appended) /\ Ascending(logs) /\ OldestLast(logs)

Holds(f, n, i) == \E k \in 1 .. Len(f[i]) : f[i][k] = n
IsKept(f, n) == \E i \in 0 .. RotateCount : Holds(f, n, i)

\* The missing files: of a hole some older line was, or is, in a file beyond it.
Holes == {i \in 0 .. RotateCount : /\ logs[i] = <<>>
                                   /\ appended > 0
                                   /\ \A j \in 0 .. RotateCount : j < i => ~Holds(logs, 1, j)}

\* Without a failed call the lines are kept without a gap, a rotated file is full
\* or missing, the file that is renamed over is missing, and beside it there are
\* as many holes as rotations were cut off.
WholeInv ==
    /\ \A n \in 1 .. appended : IsKept(logs, n) => \A m \in n .. appended : IsKept(logs, m)
    /\ appended > 0 => IsKept(logs, appended)
    /\ \A i \in 1 .. RotateCount : logs[i] = <<>> \/ Len(logs[i]) = Fill
    /\ Len(logs[0]) <= Fill
    /\ \A t \in Threads : at[t] = "rename" => logs[index[t]] = <<>>
                                              /\ Len(logs[0]) = Fill
    /\ \A t \in Threads : at[t] = "append" => Len(logs[0]) < Fill
    /\ (\A t \in Threads : at[t] # "rename") => Cardinality(Holes \ {0}) <= cut
    /\ \A t \in Threads : at[t] = "rename" => Cardinality(Holes \ {index[t]}) <= cut

LogInv == LockInv /\ RowsInv /\ (failed = 0 => WholeInv)

\* A new log is empty.
LEMMA LogStarts == Init => LogInv
<1>. SUFFICES ASSUME Init PROVE LogInv
  OBVIOUS
<1>1. /\ logs = [i \in 0 .. RotateCount |-> <<>>] /\ appended = 0 /\ failed = 0 /\ cut = 0
      /\ owner = Nobody /\ at = [t \in Threads |-> "out"] /\ index = [t \in Threads |-> 0]
  BY DEF Init, LogInit
<1>2. LockInv
  BY <1>1 DEF LockInv, Places, Inside
<1>3. RowsInv
  BY <1>1 DEF RowsInv, Appended, Ascending, OldestLast
<1>4. Holes = {}
  BY <1>1 DEF Holes
<1>5. Cardinality(Holes \ {0}) = 0
  BY <1>4, FS_EmptySet
<1>6. WholeInv
  BY <1>1, <1>5 DEF WholeInv, IsKept, Holds, Fill
<1>. QED BY <1>2, <1>3, <1>6 DEF LogInv

\* The steps of LogMessage() respect the mutex, which its caller held already.
LEMMA LockSteps ==
    ASSUME LockInv,
           \/ \E t \in Threads : LogMessage(t) \/ InLog(t)
           \/ LogKilled
           \/ UNCHANGED logVars
    PROVE  LockInv'
<1>1. ASSUME NEW t \in Threads, LogMessage(t) PROVE LockInv'
  BY <1>1 DEF LogMessage, Goto, LockInv, Places, Inside, Full
<1>2. ASSUME NEW t \in Threads, Enter(t) PROVE LockInv'
  BY <1>2 DEF Enter, MayEnter, Goto, LockInv, Places, Inside, Full
<1>3. ASSUME NEW t \in Threads, RemoveOldest(t) PROVE LockInv'
  BY <1>3 DEF RemoveOldest, FirstIndex, Goto, LockInv, Places, Inside
<1>4. ASSUME NEW t \in Threads, Rename(t) PROVE LockInv'
  BY <1>4 DEF Rename, NextIndex, Goto, LockInv, Places, Inside
<1>5. ASSUME NEW t \in Threads, AppendLine(t) PROVE LockInv'
  BY <1>5 DEF AppendLine, Goto, LockInv, Places, Inside
<1>6. CASE LogKilled
  BY <1>6 DEF LogKilled, LockInv, Places, Inside
<1>7. CASE UNCHANGED logVars
  BY <1>7 DEF logVars, LockInv, Full
<1>. QED BY <1>1, <1>2, <1>3, <1>4, <1>5, <1>6, <1>7 DEF InLog

\* Lines are appended behind all others, and moved only to a file beyond which
\* there is none: those of the new file are older than what is left before it.
LEMMA RowsSteps ==
    ASSUME LockInv, RowsInv, cut' \in Nat,
           \/ \E t \in Threads : LogMessage(t) \/ InLog(t)
           \/ LogKilled
           \/ UNCHANGED logVars
    PROVE  RowsInv'
<1>1. CASE UNCHANGED <<logs, appended>> /\ failed' \in Nat
  BY <1>1 DEF RowsInv
<1>2. ASSUME NEW t \in Threads, RemoveOldest(t) PROVE RowsInv'
  <2>1. UNCHANGED appended /\ failed' \in Nat
    BY <1>2 DEF RemoveOldest, Call, RowsInv
  <2>2. CASE logs' = [logs EXCEPT ![RotateCount] = <<>>]
    <3>1. logs' \in [0 .. RotateCount -> Seq(Nat)]
      BY <2>2 DEF RowsInv
    <3>2. \A j \in 0 .. RotateCount : logs'[j] = logs[j] \/ logs'[j] = <<>>
      BY <2>2 DEF RowsInv
    <3>3. \A j \in 0 .. RotateCount : \A k \in 1 .. Len(logs'[j]) :
             k \in 1 .. Len(logs[j]) /\ logs'[j][k] = logs[j][k]
      BY <3>2
    <3>4. Appended(logs', appended)
      BY <3>3 DEF RowsInv, Appended
    <3>5. Ascending(logs')
      BY <3>3 DEF RowsInv, Ascending
    <3>6. OldestLast(logs')
      <4>. SUFFICES ASSUME NEW h \in 0 .. RotateCount, NEW j \in 0 .. RotateCount, h < j,
                           NEW k \in 1 .. Len(logs'[j]), NEW l \in 1 .. Len(logs'[h])
                    PROVE  logs'[j][k] < logs'[h][l]
        BY DEF OldestLast
      <4>1. /\ k \in 1 .. Len(logs[j]) /\ logs'[j][k] = logs[j][k]
            /\ l \in 1 .. Len(logs[h]) /\ logs'[h][l] = logs[h][l]
        BY <3>3
      <4>2. logs[j][k] < logs[h][l]
        BY <4>1 DEF RowsInv, OldestLast
      <4>. QED BY <4>1, <4>2
    <3>. QED BY <2>1, <3>1, <3>4, <3>5, <3>6 DEF RowsInv
  <2>. QED BY <1>1, <1>2, <2>1, <2>2 DEF RemoveOldest, Call
<1>3. ASSUME NEW t \in Threads, Rename(t) PROVE RowsInv'
  <2>. DEFINE i == index[t]
  <2>1. i \in 1 .. RotateCount /\ i - 1 \in 0 .. RotateCount
    BY <1>3 DEF Rename, LockInv
  <2>3. UNCHANGED appended /\ failed' \in Nat
    BY <1>3 DEF Rename, Call, RowsInv
  <2>2. CASE logs' = [logs EXCEPT ![i] = logs[i - 1], ![i - 1] = <<>>]
    <3>. HIDE DEF i
    <3>1. logs \in [0 .. RotateCount -> Seq(Nat)]
      BY DEF RowsInv
    <3>2. logs[i - 1] \in Seq(Nat) /\ <<>> \in Seq(Nat)
      BY <2>1, <3>1
    <3>3. logs' \in [0 .. RotateCount -> Seq(Nat)]
      BY <2>2, <3>1, <3>2
    <3>4. \A j \in 0 .. RotateCount : logs'[j] = IF j = i - 1 THEN <<>>
                                               ELSE IF j = i THEN logs[i - 1] ELSE logs[j]
      BY <2>1, <2>2, <3>1
    <3>5. \A j \in 0 .. RotateCount : \A k \in 1 .. Len(logs'[j]) :
             \/ j = i /\ k \in 1 .. Len(logs[i - 1]) /\ logs'[j][k] = logs[i - 1][k]
             \/ j # i /\ j # i - 1 /\ k \in 1 .. Len(logs[j]) /\ logs'[j][k] = logs[j][k]
      BY <3>4
    <3>6. Appended(logs', appended)
      BY <2>1, <3>5 DEF RowsInv, Appended
    <3>7. Ascending(logs')
      BY <2>1, <3>5 DEF RowsInv, Ascending
    <3>8. OldestLast(logs')
      <4>. SUFFICES ASSUME NEW j \in 0 .. RotateCount, NEW h \in 0 .. RotateCount, h < j,
                           NEW k \in 1 .. Len(logs'[j]), NEW l \in 1 .. Len(logs'[h])
                    PROVE  logs'[j][k] < logs'[h][l]
        BY DEF OldestLast
      <4>1. OldestLast(logs)
        BY DEF RowsInv
      <4>2. CASE j = i
        <5>1. h # i /\ h # i - 1 /\ h < i - 1
          BY <2>1, <3>5, <4>2
        <5>. QED BY <2>1, <3>5, <4>1, <4>2, <5>1 DEF OldestLast
      <4>3. CASE h = i
        <5>1. /\ j # i /\ i - 1 < j
              /\ k \in 1 .. Len(logs[j]) /\ logs'[j][k] = logs[j][k]
              /\ l \in 1 .. Len(logs[i - 1]) /\ logs'[h][l] = logs[i - 1][l]
          BY <2>1, <3>5, <4>3
        <5>2. logs[j][k] < logs[i - 1][l]
          BY <2>1, <4>1, <5>1 DEF OldestLast
        <5>. QED BY <5>1, <5>2
      <4>4. CASE h # i /\ j # i
        <5>1. /\ k \in 1 .. Len(logs[j]) /\ logs'[j][k] = logs[j][k]
              /\ l \in 1 .. Len(logs[h]) /\ logs'[h][l] = logs[h][l]
          BY <3>5, <4>4
        <5>2. logs[j][k] < logs[h][l]
          BY <4>1, <5>1 DEF OldestLast
        <5>. QED BY <5>1, <5>2
      <4>. QED BY <4>2, <4>3, <4>4
    <3>. QED BY <2>1, <2>3, <3>3, <3>6, <3>7, <3>8 DEF RowsInv
  <2>4. UNCHANGED logs \/ logs' = [logs EXCEPT ![i] = logs[i - 1], ![i - 1] = <<>>]
    BY <1>3 DEF Rename, Call, Moved
  <2>. QED BY <1>1, <2>2, <2>3, <2>4
<1>4. ASSUME NEW t \in Threads, AppendLine(t) PROVE RowsInv'
  <2>1. CASE logs' = [logs EXCEPT ![0] = Append(@, appended + 1)] /\ appended' = appended + 1
    <3>1. logs[0] \in Seq(Nat) /\ appended \in Nat
      BY DEF RowsInv
    <3>2. logs' \in [0 .. RotateCount -> Seq(Nat)]
      BY <2>1, <3>1 DEF RowsInv
    <3>3. \A j \in 0 .. RotateCount : j # 0 => logs'[j] = logs[j]
      BY <2>1 DEF RowsInv
    <3>4. /\ Len(logs'[0]) = Len(logs[0]) + 1
          /\ logs'[0][Len(logs[0]) + 1] = appended + 1
          /\ \A k \in 1 .. Len(logs[0]) : logs'[0][k] = logs[0][k]
      BY <2>1, <3>1 DEF RowsInv
    <3>5. failed' \in Nat
      BY <1>4 DEF AppendLine, RowsInv
    <3>6. \A j \in 0 .. RotateCount : \A k \in 1 .. Len(logs'[j]) :
             \/ k \in 1 .. Len(logs[j]) /\ logs'[j][k] = logs[j][k]
             \/ j = 0 /\ k = Len(logs[0]) + 1 /\ logs'[j][k] = appended + 1
      <4>1. Len(logs[0]) \in Nat
        BY <3>1
      <4>. QED BY <3>3, <3>4, <4>1
    <3>7. \A j \in 0 .. RotateCount : Len(logs[j]) \in Nat
      BY DEF RowsInv
    <3>8. Appended(logs', appended')
      BY <2>1, <3>1, <3>6 DEF RowsInv, Appended
    <3>. DEFINE new(j, k) == j = 0 /\ k = Len(logs[0]) + 1 /\ logs'[j][k] = appended + 1
    <3>9. Ascending(logs')
      <4>. SUFFICES ASSUME NEW j \in 0 .. RotateCount,
                           NEW k \in 1 .. Len(logs'[j]), NEW l \in 1 .. Len(logs'[j]), k < l
                    PROVE  logs'[j][k] < logs'[j][l]
        BY DEF Ascending
      <4>1. k \in 1 .. Len(logs[j]) /\ logs'[j][k] = logs[j][k]
        BY <3>6, <3>7, <2>1, <3>1, <3>4
      <4>2. CASE l \in 1 .. Len(logs[j]) /\ logs'[j][l] = logs[j][l]
        BY <4>1, <4>2 DEF RowsInv, Ascending
      <4>3. CASE new(j, l)
        <5>1. logs[j][k] <= appended
          BY <4>1 DEF RowsInv, Appended
        <5>. QED BY <3>1, <4>1, <4>3, <5>1 DEF RowsInv
      <4>. QED BY <3>6, <4>2, <4>3
    <3>10. OldestLast(logs')
      <4>. SUFFICES ASSUME NEW i \in 0 .. RotateCount, NEW j \in 0 .. RotateCount, i < j,
                           NEW k \in 1 .. Len(logs'[j]), NEW l \in 1 .. Len(logs'[i])
                    PROVE  logs'[j][k] < logs'[i][l]
        BY DEF OldestLast
      <4>1. k \in 1 .. Len(logs[j]) /\ logs'[j][k] = logs[j][k]
        BY <3>6
      <4>2. logs[j][k] \in 1 .. appended
        BY <4>1 DEF RowsInv, Appended
      <4>3. CASE l \in 1 .. Len(logs[i]) /\ logs'[i][l] = logs[i][l]
        BY <4>1, <4>3 DEF RowsInv, OldestLast
      <4>4. CASE new(i, l)
        BY <3>1, <4>1, <4>2, <4>4
      <4>. QED BY <3>6, <4>3, <4>4
    <3>. QED BY <2>1, <3>1, <3>2, <3>5, <3>8, <3>9, <3>10 DEF RowsInv
  <2>. QED BY <1>1, <1>4, <2>1 DEF AppendLine, RowsInv
<1>5. CASE LogKilled
  BY <1>1, <1>5 DEF LogKilled, RowsInv
<1>6. CASE UNCHANGED logVars
  BY <1>1, <1>6 DEF logVars, RowsInv
<1>7. ASSUME NEW t \in Threads, LogMessage(t) \/ Enter(t) PROVE RowsInv'
  BY <1>1, <1>7 DEF LogMessage, Enter, RowsInv
<1>. QED BY <1>2, <1>3, <1>4, <1>5, <1>6, <1>7 DEF InLog

\* Holes can be counted, and fewer holes are counted as fewer.
LEMMA HolesCounted ==
    ASSUME NEW T, T \subseteq 0 .. RotateCount
    PROVE  /\ IsFiniteSet(T) /\ Cardinality(T) \in Nat
           /\ \A S, n : S \subseteq T /\ n \in Nat /\ Cardinality(T) <= n => Cardinality(S) <= n
<1>1. IsFiniteSet(0 .. RotateCount)
  BY FS_Interval
<1>2. IsFiniteSet(T)
  BY <1>1, FS_Subset
<1>3. Cardinality(T) \in Nat
  BY <1>2, FS_CardinalityType
<1>4. ASSUME NEW S, S \subseteq T, NEW n \in Nat, Cardinality(T) <= n
      PROVE  Cardinality(S) <= n
  <2>1. IsFiniteSet(S) /\ Cardinality(S) <= Cardinality(T)
    BY <1>2, <1>4, FS_Subset
  <2>2. Cardinality(S) \in Nat
    BY <2>1, FS_CardinalityType
  <2>. QED BY <1>3, <1>4, <2>1, <2>2
<1>. QED BY <1>2, <1>3, <1>4

\* A step that leaves the files and the places of a rotation alone.
LEMMA WholeStays ==
    ASSUME WholeInv, UNCHANGED <<logs, appended, index>>, cut' = cut,
           \A t \in Threads : /\ at'[t] = "rename" <=> at[t] = "rename"
                              /\ at'[t] = "append" => Len(logs[0]) < Fill
    PROVE  WholeInv'
<1>1. Holes' = Holes
  BY DEF Holes, Holds
<1>2. \A n : IsKept(logs', n) <=> IsKept(logs, n)
  BY DEF IsKept, Holds
<1>. QED BY <1>1, <1>2 DEF WholeInv

\* remove() of the oldest file makes the hole that the first rename() fills.
LEMMA RemoveKeepsWhole ==
    ASSUME NEW t \in Threads, RemoveOldest(t), LockInv, RowsInv, WholeInv,
           logs' = [logs EXCEPT ![RotateCount] = <<>>], cut' = cut
    PROVE  WholeInv'
<1>. DEFINE r == RotateCount
<1>1. /\ at[t] = "remove" /\ at' = [at EXCEPT ![t] = "rename"]
      /\ index' = [index EXCEPT ![t] = r] /\ appended' = appended
  BY DEF RemoveOldest, FirstIndex, Goto
<1>2. /\ \A u \in Threads : u # t => at'[u] \notin Inside
      /\ \A u \in Threads : at[u] # "rename"
      /\ at'[t] = "rename" /\ index'[t] = r
      /\ logs[0] # <<>> /\ Len(logs[0]) = Fill
  <2>1. owner = t /\ at \in [Threads -> Places] /\ index \in [Threads -> 0 .. r]
        /\ \A u \in Threads : at[u] \in Inside <=> owner = u
    BY <1>1 DEF LockInv, Inside
  <2>2. logs[0] # <<>> /\ Len(logs[0]) + 1 >= MaxLogBytes /\ Len(logs[0]) \in Nat
    BY <1>1 DEF LockInv, Full, RowsInv
  <2>3. Len(logs[0]) <= Fill
    BY DEF WholeInv
  <2>. QED BY <1>1, <2>1, <2>2, <2>3 DEF Inside, Fill
<1>3. \A i \in 0 .. r : logs'[i] = IF i = r THEN <<>> ELSE logs[i]
  BY DEF RowsInv
<1>4. \A n : \A i \in 0 .. r : Holds(logs', n, i) <=> i # r /\ Holds(logs, n, i)
  BY <1>3 DEF Holds
<1>5. \A n : \A i, j \in 0 .. r : \A m : i < j /\ Holds(logs, n, i) /\ Holds(logs, m, j) => m < n
  BY DEF RowsInv, OldestLast, Holds
<1>6. \A n \in 1 .. appended : IsKept(logs', n) => \A m \in n .. appended : IsKept(logs', m)
  <2>. SUFFICES ASSUME NEW n \in 1 .. appended, NEW i \in 0 .. r, i # r, Holds(logs, n, i),
                       NEW m \in n .. appended
                PROVE  IsKept(logs', m)
    BY <1>4 DEF IsKept
  <2>1. PICK j \in 0 .. r : Holds(logs, m, j)
    BY DEF WholeInv, IsKept, RowsInv
  <2>2. j # r
    <3>1. r \in 0 .. r /\ n \in Int /\ m \in Int /\ i < r
      BY DEF RowsInv
    <3>. QED BY <1>5, <2>1, <3>1
  <2>. QED BY <1>4, <2>1, <2>2 DEF IsKept
<1>7. appended > 0 => IsKept(logs', appended')
  <2>1. PICK x : Holds(logs, x, 0) /\ x \in 1 .. appended
    <3>1. 1 \in 1 .. Len(logs[0]) /\ logs[0][1] \in 1 .. appended
      BY <1>2 DEF RowsInv, Appended
    <3>. QED BY <3>1 DEF Holds
  <2>2. PICK j \in 0 .. r : Holds(logs, appended, j)
    BY <2>1 DEF WholeInv, IsKept, RowsInv
  <2>3. j # r
    BY <1>5, <2>1, <2>2 DEF RowsInv
  <2>. QED BY <1>1, <1>4, <2>2, <2>3 DEF IsKept
<1>8. /\ \A i \in 1 .. r : logs'[i] = <<>> \/ Len(logs'[i]) = Fill
      /\ Len(logs'[0]) = Fill /\ logs'[r] = <<>>
  BY <1>2, <1>3 DEF WholeInv
<1>9. Cardinality(Holes' \ {r}) <= cut
  <2>1. ASSUME NEW i \in Holes', i # r PROVE i \in Holes \ {0}
    <3>1. i \in 0 .. r /\ logs'[i] = <<>> /\ appended > 0
          /\ \A j \in 0 .. r : j < i => ~Holds(logs', 1, j)
      BY <1>1, <2>1 DEF Holes
    <3>2. logs[i] = <<>> /\ i # 0
      BY <1>2, <1>3, <2>1, <3>1
    <3>3. \A j \in 0 .. r : j < i => ~Holds(logs, 1, j)
      <4>. SUFFICES ASSUME NEW j \in 0 .. r, j < i PROVE ~Holds(logs, 1, j)
        OBVIOUS
      <4>1. j # r
        BY <3>1
      <4>. QED BY <1>4, <3>1, <4>1
    <3>. QED BY <3>1, <3>2, <3>3 DEF Holes
  <2>2. Holes \ {0} \subseteq 0 .. RotateCount
    BY DEF Holes
  <2>3. Cardinality(Holes \ {0}) <= cut
    BY <1>2 DEF WholeInv
  <2>4. Holes' \ {r} \subseteq Holes \ {0}
    BY <2>1
  <2>. QED BY <2>2, <2>3, <2>4, HolesCounted DEF RowsInv
<1>. HIDE DEF r
<1>10. \A u \in Threads : at'[u] = "rename" => u = t /\ index'[u] = r
  BY <1>2 DEF Inside
<1>11. \A u \in Threads : at'[u] # "append"
  BY <1>2 DEF Inside
<1>12. cut' = cut /\ Fill \in Nat
  BY DEF Fill
<1>14. \A n \in 1 .. appended' : IsKept(logs', n) => \A m \in n .. appended' : IsKept(logs', m)
  BY ONLY <1>1, <1>6
<1>15. \A u \in Threads : at'[u] = "rename" => logs'[index'[u]] = <<>>
                                              /\ Len(logs'[0]) = Fill
  BY ONLY <1>2, <1>8, <1>10
<1>16. (\A u \in Threads : at'[u] # "rename") => Cardinality(Holes' \ {0}) <= cut'
  BY ONLY <1>2
<1>17. \A u \in Threads : at'[u] = "rename" => Cardinality(Holes' \ {index'[u]}) <= cut'
  BY ONLY <1>9, <1>10, <1>12
<1>. QED BY ONLY <1>1, <1>2, <1>7, <1>8, <1>11, <1>12, <1>14, <1>15, <1>16, <1>17 DEF r, WholeInv

\* rename() moves the hole one file towards the log, or skips a missing file,
\* which was a hole itself if the file it would replace is one.
LEMMA RenameKeepsWhole ==
    ASSUME NEW t \in Threads, Rename(t), LockInv, RowsInv, WholeInv,
           logs' = Moved(index[t]), cut' = cut
    PROVE  WholeInv'
<1>. DEFINE r == RotateCount
            i == index[t]
<1>1. /\ at[t] = "rename" /\ at' = [at EXCEPT ![t] = IF i - 1 = 0 THEN "append" ELSE "rename"]
      /\ index' = [index EXCEPT ![t] = i - 1] /\ appended' = appended
  BY DEF Rename, NextIndex, Goto
<1>2. /\ i \in 1 .. r /\ i - 1 \in 0 .. r
      /\ \A u \in Threads : u # t => at[u] \notin Inside /\ at'[u] = at[u]
      /\ at'[t] = IF i - 1 = 0 THEN "append" ELSE "rename"
      /\ index'[t] = i - 1
  <2>1. owner = t /\ at \in [Threads -> Places] /\ index \in [Threads -> 0 .. r]
        /\ (\A u \in Threads : at[u] \in Inside <=> owner = u) /\ i > 0
    BY <1>1 DEF LockInv, Inside
  <2>. QED BY <1>1, <2>1
<1>3. logs[i] = <<>> /\ Len(logs[0]) = Fill /\ Cardinality(Holes \ {i}) <= cut
  BY <1>1 DEF WholeInv
<1>. HIDE DEF i
<1>4. \A j \in 0 .. r : logs'[j] = IF j = i THEN logs[i - 1]
                                   ELSE IF j = i - 1 THEN <<>> ELSE logs[j]
  <2>1. logs \in [0 .. r -> Seq(Nat)]
    BY DEF RowsInv
  <2>2. logs' = IF logs[i - 1] = <<>> THEN logs
                ELSE [logs EXCEPT ![i] = logs[i - 1], ![i - 1] = <<>>]
    BY DEF Moved, i
  <2>. QED BY <1>2, <1>3, <2>1, <2>2
<1>5. \A n : \A j \in 0 .. r : /\ Holds(logs', n, j) <=> IF j = i THEN Holds(logs, n, i - 1)
                                                   ELSE j # i - 1 /\ Holds(logs, n, j)
                               /\ ~Holds(logs, n, i)
  BY <1>2, <1>3, <1>4 DEF Holds
<1>6. \A n : IsKept(logs', n) <=> IsKept(logs, n)
  <2>. SUFFICES ASSUME NEW n PROVE IsKept(logs', n) <=> IsKept(logs, n)
    OBVIOUS
  <2>1. IsKept(logs', n) => IsKept(logs, n)
    BY <1>2, <1>5 DEF IsKept
  <2>2. ASSUME NEW j \in 0 .. r, Holds(logs, n, j) PROVE IsKept(logs', n)
    <3>1. j # i
      BY <1>5, <2>2
    <3>2. CASE j = i - 1
      BY <1>2, <1>5, <2>2, <3>2 DEF IsKept
    <3>3. CASE j # i - 1
      BY <1>5, <2>2, <3>1, <3>3 DEF IsKept
    <3>. QED BY <3>2, <3>3
  <2>. QED BY <2>1, <2>2 DEF IsKept
<1>7. /\ \A j \in 1 .. r : logs'[j] = <<>> \/ Len(logs'[j]) = Fill
      /\ Len(logs'[0]) = IF i = 1 THEN 0 ELSE Fill
      /\ logs'[i - 1] = <<>>
  <2>1. \A j \in 0 .. r : logs[j] = <<>> \/ Len(logs[j]) = Fill
    BY <1>3 DEF WholeInv
  <2>. QED BY <1>2, <1>3, <1>4, <2>1
<1>8. Cardinality(Holes' \ {i - 1}) <= cut
  <2>0. Holes \subseteq 0 .. RotateCount /\ cut \in Nat
    BY DEF Holes, RowsInv
  <2>1. ASSUME logs[i - 1] # <<>> PROVE Holes' \ {i - 1} \subseteq Holes \ {i}
    <3>. SUFFICES ASSUME NEW j \in Holes', j # i - 1 PROVE j \in Holes /\ j # i
      OBVIOUS
    <3>1. j \in 0 .. r /\ logs'[j] = <<>> /\ appended > 0
          /\ \A h \in 0 .. r : h < j => ~Holds(logs', 1, h)
      BY <1>1 DEF Holes
    <3>2. j # i /\ logs[j] = <<>>
      BY <1>2, <1>4, <2>1, <3>1
    <3>3. ASSUME NEW h \in 0 .. r, h < j PROVE ~Holds(logs, 1, h)
      <4>1. CASE h = i - 1
        <5>1. i < j
          BY <1>2, <3>1, <3>2, <3>3, <4>1
        <5>. QED BY <1>2, <1>5, <3>1, <4>1, <5>1
      <4>2. CASE h # i - 1
        BY <1>5, <3>1, <3>3, <4>2
      <4>. QED BY <4>1, <4>2
    <3>. QED BY <3>1, <3>2, <3>3 DEF Holes
  <2>2. CASE logs[i - 1] # <<>>
    BY <1>3, <2>0, <2>1, <2>2, HolesCounted
  <2>3. CASE logs[i - 1] = <<>> /\ i \in Holes
    <3>1. Holes' = Holes
      BY <1>1, <2>3 DEF Holes, Holds, Moved, i
    <3>2. i - 1 \in Holes
      BY <1>2, <2>3 DEF Holes
    <3>3. IsFiniteSet(Holes)
      BY <2>0, HolesCounted
    <3>4. Cardinality(Holes \ {i - 1}) = Cardinality(Holes \ {i})
      <4>1. /\ Cardinality(Holes \ {i - 1}) = Cardinality(Holes) - 1
            /\ Cardinality(Holes \ {i}) = Cardinality(Holes) - 1
        <5>1. \A x \in Holes : Cardinality(Holes \ {x}) = Cardinality(Holes) - 1
          BY <3>3, FS_RemoveElement
        <5>. QED BY <2>3, <3>2, <5>1
      <4>. QED BY <4>1
    <3>. QED BY <1>3, <3>1, <3>4
  <2>4. CASE logs[i - 1] = <<>> /\ i \notin Holes
    <3>1. Holes' = Holes
      BY <1>1, <2>4 DEF Holes, Holds, Moved, i
    <3>2. Holes' \ {i - 1} \subseteq Holes \ {i}
      BY <2>4, <3>1
    <3>. QED BY <1>3, <2>0, <3>2, HolesCounted
  <2>. QED BY <2>2, <2>3, <2>4
<1>9. \A n \in 1 .. appended : IsKept(logs', n) => \A m \in n .. appended : IsKept(logs', m)
  BY <1>6 DEF WholeInv
<1>10. appended > 0 => IsKept(logs, appended)
  BY DEF WholeInv
<1>11. \A u \in Threads : u # t => at'[u] # "rename" /\ at'[u] # "append"
  BY <1>2 DEF Inside
<1>12. cut' = cut /\ Fill \in Nat \ {0}
  BY DEF Fill
<1>13. IsKept(logs', appended') <=> IsKept(logs, appended)
  BY <1>1, <1>6
<1>14. i - 1 = 0 <=> i = 1
  BY <1>2
<1>15. \A n \in 1 .. appended' : IsKept(logs', n) => \A m \in n .. appended' : IsKept(logs', m)
  BY ONLY <1>1, <1>9
<1>16. \A u \in Threads : /\ at'[u] = "rename" => i # 1 /\ index'[u] = i - 1
                          /\ at'[u] = "append" => i = 1
  BY ONLY <1>2, <1>11, <1>14
<1>17. \A u \in Threads : at'[u] = "rename" => logs'[index'[u]] = <<>>
                                              /\ Len(logs'[0]) = Fill
  BY ONLY <1>7, <1>16
<1>18. \A u \in Threads : at'[u] = "append" => Len(logs'[0]) < Fill
  BY ONLY <1>7, <1>12, <1>16
<1>19. (\A u \in Threads : at'[u] # "rename") => Cardinality(Holes' \ {0}) <= cut'
  BY ONLY <1>2, <1>8, <1>12, <1>14
<1>20. \A u \in Threads : at'[u] = "rename" => Cardinality(Holes' \ {index'[u]}) <= cut'
  BY ONLY <1>8, <1>12, <1>16
<1>21. Len(logs'[0]) <= Fill
  BY ONLY <1>7, <1>12
<1>. QED BY ONLY <1>1, <1>7, <1>10, <1>13, <1>15, <1>17, <1>18, <1>19, <1>20, <1>21 DEF r, WholeInv

\* A line goes into a log that has room for it.
LEMMA AppendKeepsWhole ==
    ASSUME NEW t \in Threads, AppendLine(t), LockInv, RowsInv, WholeInv, cut' = cut
    PROVE  WholeInv'
<1>1. /\ at[t] = "append" /\ at' = [at EXCEPT ![t] = "out"] /\ UNCHANGED index
      /\ owner = t /\ at \in [Threads -> Places]
      /\ \A u \in Threads : at[u] \in Inside <=> owner = u
  BY DEF AppendLine, Goto, LockInv, Inside
<1>2. \A u \in Threads : at[u] # "rename" /\ at'[u] \notin Inside
  BY <1>1 DEF Inside
<1>3. CASE UNCHANGED <<logs, appended>>
  <2>1. \A u \in Threads : (at'[u] = "rename" <=> at[u] = "rename") /\ at'[u] # "append"
    BY <1>2 DEF Inside
  <2>. QED BY <1>1, <1>3, <2>1, WholeStays
<1>4. CASE logs' = [logs EXCEPT ![0] = Append(@, appended + 1)] /\ appended' = appended + 1
  <2>1. logs \in [0 .. RotateCount -> Seq(Nat)] /\ appended \in Nat /\ logs[0] \in Seq(Nat)
    BY DEF RowsInv
  <2>2. Len(logs[0]) < Fill /\ Fill \in Nat
    BY <1>1 DEF WholeInv, Fill
  <2>3. /\ \A j \in 1 .. RotateCount : logs'[j] = logs[j]
        /\ Len(logs'[0]) = Len(logs[0]) + 1
        /\ logs'[0][Len(logs[0]) + 1] = appended + 1
        /\ \A k \in 1 .. Len(logs[0]) : logs'[0][k] = logs[0][k]
    BY <1>4, <2>1
  <2>4. Holds(logs', appended + 1, 0)
    BY <2>1, <2>3 DEF Holds
  <2>5. \A n : \A j \in 1 .. RotateCount : Holds(logs', n, j) <=> Holds(logs, n, j)
    BY <2>3 DEF Holds
  <2>6. \A n : Holds(logs', n, 0) <=> Holds(logs, n, 0) \/ n = appended + 1
    <3>1. Len(logs[0]) \in Nat
      BY <2>1
    <3>2. \A k : k \in 1 .. Len(logs'[0]) <=> k \in 1 .. Len(logs[0]) \/ k = Len(logs[0]) + 1
      BY <2>3, <3>1
    <3>. QED BY <2>3, <3>2 DEF Holds
  <2>7. \A n : IsKept(logs', n) <=> IsKept(logs, n) \/ n = appended + 1
    <3>1. \A j : j \in 0 .. RotateCount <=> j = 0 \/ j \in 1 .. RotateCount
      OBVIOUS
    <3>. QED BY <2>5, <2>6, <3>1 DEF IsKept
  <2>8. \A n \in 1 .. appended' : IsKept(logs', n) => \A m \in n .. appended' : IsKept(logs', m)
    <3>. SUFFICES ASSUME NEW n \in 1 .. appended', IsKept(logs', n), NEW m \in n .. appended'
                  PROVE  IsKept(logs', m)
      OBVIOUS
    <3>1. CASE m = appended + 1
      BY <2>7, <3>1
    <3>2. CASE m # appended + 1
      <4>1. n \in 1 .. appended /\ m \in n .. appended /\ n # appended + 1
        BY <1>4, <2>1, <3>2
      <4>. QED BY <2>7, <4>1 DEF WholeInv
    <3>. QED BY <3>1, <3>2
  <2>9. Cardinality(Holes' \ {0}) <= cut
    <3>1. Holes' \ {0} \subseteq Holes \ {0}
      <4>. SUFFICES ASSUME NEW j \in Holes', j # 0 PROVE j \in Holes
        OBVIOUS
      <4>1. j \in 1 .. RotateCount /\ logs[j] = <<>>
            /\ \A h \in 0 .. RotateCount : h < j => ~Holds(logs', 1, h)
        BY <2>3 DEF Holes
      <4>2. appended > 0
        <5>1. ~Holds(logs', 1, 0)
          BY <4>1
        <5>. QED BY <2>1, <2>4, <5>1
      <4>3. \A h \in 0 .. RotateCount : Holds(logs, 1, h) => Holds(logs', 1, h)
        BY <2>5, <2>6
      <4>. QED BY <4>1, <4>2, <4>3 DEF Holes
    <3>2. Cardinality(Holes \ {0}) <= cut /\ Holes \ {0} \subseteq 0 .. RotateCount
      BY <1>2 DEF WholeInv, Holes
    <3>. QED BY <3>1, <3>2, HolesCounted DEF RowsInv
  <2>10. \A j \in 1 .. RotateCount : logs'[j] = <<>> \/ Len(logs'[j]) = Fill
    BY <2>3 DEF WholeInv
  <2>11. \A u \in Threads : at'[u] # "rename" /\ at'[u] # "append"
    BY <1>2 DEF Inside
  <2>12. IsKept(logs', appended')
    BY <1>4, <2>7
  <2>13. cut' = cut /\ Len(logs'[0]) <= Fill
    <3>1. Len(logs[0]) \in Nat
      BY <2>1
    <3>. QED BY <2>2, <2>3, <3>1
  <2>. QED BY ONLY <2>8, <2>9, <2>10, <2>11, <2>12, <2>13 DEF WholeInv
<1>. QED BY <1>3, <1>4 DEF AppendLine

\* A rotation that is cut off leaves its hole to those that may be there.
LEMMA RestartKeepsWhole ==
    ASSUME Restart, LockInv, RowsInv, WholeInv
    PROVE  WholeInv'
<1>1. /\ UNCHANGED <<logs, appended>> /\ \A t \in Threads : at'[t] = "out"
      /\ cut' = IF Rotating THEN cut + 1 ELSE cut
  BY DEF Restart, LogKilled
<1>2. Holes' = Holes /\ Holes \subseteq 0 .. RotateCount /\ cut \in Nat
  BY <1>1 DEF Holes, Holds, RowsInv
<1>3. \A n : IsKept(logs', n) <=> IsKept(logs, n)
  BY <1>1 DEF IsKept, Holds
<1>4. Cardinality(Holes \ {0}) <= cut'
  <2>1. CASE \A t \in Threads : at[t] # "rename"
    <3>2. Cardinality(Holes \ {0}) \in Nat
      BY <1>2, HolesCounted
    <3>3. Cardinality(Holes \ {0}) <= cut
      BY <2>1 DEF WholeInv
    <3>. QED BY <1>1, <1>2, <3>2, <3>3
  <2>2. ASSUME NEW t \in Threads, at[t] = "rename" PROVE Cardinality(Holes \ {0}) <= cut'
    <3>1. Cardinality(Holes \ {index[t]}) <= cut /\ cut' = cut + 1
      BY <1>1, <2>2 DEF WholeInv, Rotating
    <3>2. IsFiniteSet(Holes) /\ Cardinality(Holes) \in Nat
      BY <1>2, HolesCounted
    <3>3. Cardinality(Holes \ {index[t]})
             = IF index[t] \in Holes THEN Cardinality(Holes) - 1 ELSE Cardinality(Holes)
      BY <3>2, FS_RemoveElement
    <3>4. Cardinality(Holes) <= cut'
      BY <1>2, <3>1, <3>2, <3>3
    <3>5. cut' \in Nat /\ Holes \ {0} \subseteq Holes
      BY <1>2, <3>1
    <3>. QED BY <1>2, <3>4, <3>5, HolesCounted
  <2>. QED BY <2>1, <2>2
<1>5. Holes' = Holes /\ appended' = appended /\ logs' = logs
  BY <1>1, <1>2
<1>6. IsKept(logs', appended') <=> IsKept(logs, appended)
  BY <1>1, <1>3
<1>7. /\ \A n \in 1 .. appended : IsKept(logs, n) => \A m \in n .. appended : IsKept(logs, m)
      /\ appended > 0 => IsKept(logs, appended)
      /\ \A i \in 1 .. RotateCount : logs[i] = <<>> \/ Len(logs[i]) = Fill
      /\ Len(logs[0]) <= Fill
  BY DEF WholeInv
<1>. QED BY ONLY <1>1, <1>3, <1>4, <1>5, <1>6, <1>7 DEF WholeInv

\* Every step of LogMessage(), and the end of the process.
LEMMA LogSteps == LogInv /\ [Next]_vars => LogInv'
<1>. SUFFICES ASSUME LogInv, [Next]_vars PROVE LogInv'
  OBVIOUS
<1>1. \/ \E t \in Threads : (LogMessage(t) \/ InLog(t)) /\ cut' = cut
      \/ Restart
      \/ UNCHANGED <<logVars, cut>>
  BY DEF Next, Main, Handshake, UnlinkTrigger, OpenTrigger, WriteTrigger, WaitForDaemon, Daemon,
         Frame, AppInit, Draw, Flip, FrameStatus, FrameEvent, Swap, Goes, Logs, InLogMessage,
         Display, bootVars, vars
<1>2. cut' \in Nat
  BY <1>1 DEF Restart, LogInv, RowsInv
<1>3. LockInv'
  BY <1>1, LockSteps DEF LogInv, Restart
<1>4. RowsInv'
  BY <1>1, <1>2, RowsSteps DEF LogInv, Restart
<1>5. ASSUME failed' = 0 PROVE WholeInv'
  <2>1. LockInv /\ RowsInv
    BY DEF LogInv
  <2>2. ASSUME UNCHANGED <<logs, appended, index, failed>>, cut' = cut,
               \A t \in Threads : /\ at'[t] = "rename" <=> at[t] = "rename"
                                  /\ at'[t] = "append" => at[t] = "append" \/ ~Full
        PROVE  WholeInv'
    <3>1. WholeInv
      BY <1>5, <2>2 DEF LogInv
    <3>2. \A t \in Threads : at'[t] = "append" => Len(logs[0]) < Fill
      <4>1. Len(logs[0]) \in Nat /\ (logs[0] = <<>> => Len(logs[0]) = 0)
        BY <2>1 DEF RowsInv
      <4>2. ~Full => Len(logs[0]) < Fill
        BY <4>1 DEF Full, Fill
      <4>. QED BY <2>2, <3>1, <4>2 DEF WholeInv
    <3>. QED BY <2>2, <3>1, <3>2, WholeStays
  <2>3. ASSUME NEW t \in Threads, LogMessage(t), cut' = cut PROVE WholeInv'
    BY <2>1, <2>2, <2>3 DEF LogMessage, Goto, LockInv
  <2>4. ASSUME NEW t \in Threads, Enter(t), cut' = cut PROVE WholeInv'
    <3>1. failed \in Nat
      BY <2>1 DEF RowsInv
    <3>2. Goto(t, IF Full THEN "remove" ELSE "append") /\ UNCHANGED failed
      <4>1. failed' # failed + 1
        BY <1>5, <3>1
      <4>. QED BY <2>4, <4>1 DEF Enter
    <3>3. at[t] = "lock" /\ UNCHANGED <<logs, appended, index>>
      BY <2>4 DEF Enter
    <3>. QED BY <2>1, <2>2, <2>4, <3>2, <3>3 DEF Goto, LockInv
  <2>5. ASSUME NEW t \in Threads, RemoveOldest(t), cut' = cut PROVE WholeInv'
    <3>1. failed = 0 /\ logs' = [logs EXCEPT ![RotateCount] = <<>>]
      BY <1>5, <2>1, <2>5 DEF RemoveOldest, Call, RowsInv
    <3>. QED BY <2>1, <2>5, <3>1, RemoveKeepsWhole DEF LogInv
  <2>6. ASSUME NEW t \in Threads, Rename(t), cut' = cut PROVE WholeInv'
    <3>1. failed = 0 /\ logs' = Moved(index[t])
      BY <1>5, <2>1, <2>6 DEF Rename, Call, RowsInv
    <3>. QED BY <2>1, <2>6, <3>1, RenameKeepsWhole DEF LogInv
  <2>7. ASSUME NEW t \in Threads, AppendLine(t), cut' = cut PROVE WholeInv'
    <3>1. failed = 0
      BY <1>5, <2>7 DEF AppendLine
    <3>. QED BY <2>1, <2>7, <3>1, AppendKeepsWhole DEF LogInv
  <2>8. CASE Restart
    <3>1. failed = 0
      BY <1>5, <2>8 DEF Restart, LogKilled
    <3>. QED BY <2>1, <2>8, <3>1, RestartKeepsWhole DEF LogInv
  <2>9. CASE UNCHANGED <<logVars, cut>>
    BY <2>2, <2>9 DEF logVars
  <2>. QED BY <1>1, <2>3, <2>4, <2>5, <2>6, <2>7, <2>8, <2>9 DEF InLog
<1>. QED BY <1>3, <1>4, <1>5 DEF LogInv

\* Files that are full hold as many lines as there are files, times their size.
LEMMA FullFiles ==
    ASSUME RowsInv, NEW F, F \subseteq 0 .. RotateCount,
           \A i \in F : Len(logs[i]) = Fill,
           NEW a \in Nat, \A n : IsKept(logs, n) => n \in a .. appended
    PROVE  Cardinality(F) * Fill <= Cardinality(a .. appended)
<1>. DEFINE P == F \X (1 .. Fill)
            f == [p \in P |-> logs[p[1]][p[2]]]
<1>1. IsFiniteSet(F) /\ Cardinality(F) \in Nat
  BY HolesCounted
<1>2. Fill \in Nat /\ IsFiniteSet(1 .. Fill) /\ Cardinality(1 .. Fill) = Fill
  <2>1. Fill \in Nat \ {0}
    BY DEF Fill
  <2>. QED BY <2>1, FS_Interval
<1>3. IsFiniteSet(P) /\ Cardinality(P) = Cardinality(F) * Fill
  BY <1>1, <1>2, FS_Product
<1>4. ASSUME NEW p \in P
      PROVE  /\ p[1] \in F /\ p[1] \in 0 .. RotateCount
             /\ p[2] \in 1 .. Len(logs[p[1]])
             /\ f[p] \in a .. appended
  <2>1. p[1] \in F /\ p[2] \in 1 .. Fill
    OBVIOUS
  <2>2. p[1] \in 0 .. RotateCount /\ p[2] \in 1 .. Len(logs[p[1]])
    <3>1. p[1] \in 0 .. RotateCount /\ Len(logs[p[1]]) = Fill
      BY <2>1
    <3>. QED BY <2>1, <3>1
  <2>3. IsKept(logs, f[p])
    BY <2>2 DEF IsKept, Holds
  <2>. QED BY <2>1, <2>2, <2>3
<1>5. ASSUME NEW p \in P, NEW q \in P, f[p] = f[q] PROVE p = q
  <2>1. /\ p[1] \in 0 .. RotateCount /\ q[1] \in 0 .. RotateCount
        /\ p[2] \in 1 .. Len(logs[p[1]]) /\ q[2] \in 1 .. Len(logs[q[1]])
        /\ logs[p[1]][p[2]] = logs[q[1]][q[2]]
    BY <1>4, <1>5
  <2>2. logs[p[1]][p[2]] \in 1 .. appended /\ appended \in Nat
    BY <2>1 DEF RowsInv, Appended
  <2>3. ~(p[1] < q[1]) /\ ~(q[1] < p[1])
    <3>1. OldestLast(logs)
      BY DEF RowsInv
    <3>2. ASSUME p[1] < q[1] PROVE logs[q[1]][q[2]] < logs[p[1]][p[2]]
      BY <2>1, <3>1, <3>2 DEF OldestLast
    <3>3. ASSUME q[1] < p[1] PROVE logs[p[1]][p[2]] < logs[q[1]][q[2]]
      BY <2>1, <3>1, <3>3 DEF OldestLast
    <3>. QED BY <2>1, <2>2, <3>2, <3>3
  <2>4. p[1] = q[1]
    BY <2>1, <2>3
  <2>5. ~(p[2] < q[2]) /\ ~(q[2] < p[2])
    <3>1. Ascending(logs)
      BY DEF RowsInv
    <3>2. ASSUME p[2] < q[2] PROVE logs[p[1]][p[2]] < logs[p[1]][q[2]]
      BY <2>1, <2>4, <3>1, <3>2 DEF Ascending
    <3>3. ASSUME q[2] < p[2] PROVE logs[p[1]][q[2]] < logs[p[1]][p[2]]
      BY <2>1, <2>4, <3>1, <3>3 DEF Ascending
    <3>. QED BY <2>1, <2>2, <2>4, <3>2, <3>3
  <2>6. p[2] = q[2]
    <3>1. Len(logs[p[1]]) \in Nat
      BY <2>1 DEF RowsInv
    <3>. QED BY <2>1, <2>4, <2>5, <3>1
  <2>. QED BY <2>4, <2>6
<1>6. f \in Injection(P, a .. appended)
  BY <1>4, <1>5 DEF Injection, IsInjective
<1>7. IsFiniteSet(a .. appended)
  BY FS_Interval DEF RowsInv
<1>8. Cardinality(P) <= Cardinality(a .. appended)
  BY <1>6, <1>7, FS_Injection
<1>. QED BY <1>3, <1>8

\* Were a line missing that is recent enough, then so would all before it, every
\* missing file would be a hole, and the files that are full hold too many lines
\* for those after it.
LEMMA EnoughIsKept ==
    ASSUME RowsInv, WholeInv, LockInv, RotateCount >= cut,
           NEW m \in appended + 1 - Lesser(appended, (RotateCount - cut) * Fill) .. appended
    PROVE  IsKept(logs, m)
<1>. DEFINE most == (RotateCount - cut) * Fill
<1>1. appended \in Nat /\ cut \in Nat /\ Fill \in Nat \ {0} /\ RotateCount - cut \in Nat
  BY DEF RowsInv, Fill
<1>2. most \in Nat
  BY <1>1
<1>. HIDE DEF most
<1>3. m \in 1 .. appended /\ appended - m < most
  BY <1>1, <1>2 DEF Lesser, most
<1>. SUFFICES ASSUME ~IsKept(logs, m) PROVE FALSE
  OBVIOUS
<1>4. \A n : IsKept(logs, n) => n \in m + 1 .. appended
  <2>. SUFFICES ASSUME NEW n, IsKept(logs, n) PROVE n \in m + 1 .. appended
    OBVIOUS
  <2>1. n \in 1 .. appended
    BY DEF IsKept, Holds, RowsInv, Appended
  <2>2. n <= m => IsKept(logs, m)
    BY <1>1, <1>3, <2>1 DEF WholeInv
  <2>. QED BY <1>1, <1>3, <2>1, <2>2
<1>5. \A i \in 0 .. RotateCount : logs[i] = <<>> => i \in Holes
  <2>1. ~IsKept(logs, 1)
    BY <1>1, <1>3, <1>4
  <2>. QED BY <1>1, <1>3, <2>1 DEF Holes, IsKept
<1>6. PICK x \in 0 .. RotateCount :
         /\ Cardinality(Holes \ {x}) <= cut
         /\ \A i \in 0 .. RotateCount : i # x /\ logs[i] # <<>> => Len(logs[i]) = Fill
  <2>1. \A i \in 0 .. RotateCount : i # 0 /\ logs[i] # <<>> => Len(logs[i]) = Fill
    <3>1. \A i \in 0 .. RotateCount : i # 0 => i \in 1 .. RotateCount
      OBVIOUS
    <3>. QED BY <3>1 DEF WholeInv
  <2>2. CASE \A t \in Threads : at[t] # "rename"
    <3>1. Cardinality(Holes \ {0}) <= cut /\ 0 \in 0 .. RotateCount
      BY <2>2 DEF WholeInv
    <3>. QED BY <2>1, <3>1
  <2>3. ASSUME NEW t \in Threads, at[t] = "rename"
        PROVE  \E x \in 0 .. RotateCount :
                  /\ Cardinality(Holes \ {x}) <= cut
                  /\ \A i \in 0 .. RotateCount : i # x /\ logs[i] # <<>> => Len(logs[i]) = Fill
    <3>1. Cardinality(Holes \ {index[t]}) <= cut /\ Len(logs[0]) = Fill
      BY <2>3 DEF WholeInv
    <3>2. index[t] \in 0 .. RotateCount
      BY DEF LockInv
    <3>. QED BY <2>1, <3>1, <3>2
  <2>. QED BY <2>2, <2>3
<1>. DEFINE All == 0 .. RotateCount
            F == All \ ((Holes \ {x}) \cup {x})
<1>7. \A i \in F : Len(logs[i]) = Fill
  BY <1>5, <1>6
<1>8. Cardinality(F) \in Nat /\ Cardinality(F) >= RotateCount - cut
  <2>1. IsFiniteSet(All) /\ Cardinality(All) = RotateCount + 1
    BY FS_Interval
  <2>2. Holes \ {x} \subseteq All /\ Holes \ {x} \subseteq 0 .. RotateCount
    BY DEF Holes
  <2>3. IsFiniteSet(Holes \ {x}) /\ Cardinality(Holes \ {x}) \in Nat
    BY <2>2, HolesCounted
  <2>. DEFINE G == (Holes \ {x}) \cup {x}
  <2>4. IsFiniteSet(G) /\ Cardinality(G) = Cardinality(Holes \ {x}) + 1
    <3>1. x \notin Holes \ {x}
      OBVIOUS
    <3>. QED BY <2>3, <3>1, FS_AddElement
  <2>5. G \subseteq All /\ All \cap G = G
    BY <2>2, <1>6
  <2>. HIDE DEF G
  <2>6. Cardinality(All \ G) = Cardinality(All) - Cardinality(G)
    <3>1. Cardinality(All \ G) = Cardinality(All) - Cardinality(All \cap G)
      BY <2>1, FS_Difference
    <3>. QED BY <2>5, <3>1
  <2>7. Cardinality(F) = Cardinality(All) - Cardinality(G)
    BY <2>6 DEF G
  <2>. HIDE DEF F, All
  <2>. QED BY <1>1, <1>6, <2>1, <2>3, <2>4, <2>7
<1>9. Cardinality(F) * Fill <= Cardinality(m + 1 .. appended)
  <2>1. F \subseteq 0 .. RotateCount
    OBVIOUS
  <2>2. m + 1 \in Nat
    BY <1>1, <1>3
  <2>. HIDE DEF F
  <2>. QED BY <1>4, <1>7, <2>1, <2>2, FullFiles
<1>10. Cardinality(m + 1 .. appended) = appended - m
  <2>1. m + 1 \in Int /\ appended \in Int
    BY <1>1, <1>3
  <2>2. Cardinality(m + 1 .. appended) = IF m + 1 > appended THEN 0 ELSE appended - (m + 1) + 1
    BY <2>1, FS_Interval
  <2>. QED BY <1>1, <1>3, <2>2
<1>. HIDE DEF F
<1>11. (RotateCount - cut) * Fill <= Cardinality(F) * Fill
  BY <1>1, <1>8
<1>12. Cardinality(F) * Fill \in Nat
  BY <1>1, <1>8
<1>. QED BY <1>1, <1>2, <1>3, <1>9, <1>10, <1>11, <1>12 DEF most

\* The log keeps its latest lines, in their order, whatever the two threads do
\* and wherever the process is killed (LogMessage, RotateLocked): for any number
\* and size of files, and any number of restarts.
THEOREM Recent == Spec => []LogIsRecent
<1>1. LogInv => LogIsRecent
  <2>. SUFFICES ASSUME LogInv PROVE LogIsRecent
    OBVIOUS
  <2>1. RowsInv /\ LockInv
    BY DEF LogInv
  <2>2. \A i \in 0 .. RotateCount : \A n : n \in ToSet(logs[i]) <=> Holds(logs, n, i)
    BY <2>1 DEF RowsInv, ToSet, Holds
  <2>3. \A n : n \in Kept <=> IsKept(logs, n)
    BY <2>2 DEF Kept, IsKept
  <2>4. \A i \in 0 .. RotateCount : \A k, l \in 1 .. Len(logs[i]) : k < l => logs[i][k] < logs[i][l]
    BY <2>1 DEF RowsInv, Ascending
  <2>5. \A i, j \in 0 .. RotateCount : i < j =>
           \A m \in ToSet(logs[j]), n \in ToSet(logs[i]) : m < n
    <3>. SUFFICES ASSUME NEW i \in 0 .. RotateCount, NEW j \in 0 .. RotateCount, i < j,
                         NEW m \in ToSet(logs[j]), NEW n \in ToSet(logs[i])
                  PROVE  m < n
      OBVIOUS
    <3>1. PICK k \in 1 .. Len(logs[j]) : logs[j][k] = m
      BY <2>2 DEF Holds
    <3>2. PICK l \in 1 .. Len(logs[i]) : logs[i][l] = n
      BY <2>2 DEF Holds
    <3>. QED BY <2>1, <3>1, <3>2 DEF RowsInv, OldestLast
  <2>6. ASSUME failed = 0
        PROVE  /\ \A n \in Kept : n .. appended \subseteq Kept
               /\ \A i \in 0 .. RotateCount : Len(logs[i]) < MaxLogBytes
               /\ RotateCount >= cut =>
                     appended + 1 - Lesser(appended, (RotateCount - cut) * Fill) .. appended
                         \subseteq Kept
    <3>1. WholeInv
      BY <2>6 DEF LogInv
    <3>2. \A n \in Kept : n .. appended \subseteq Kept
      <4>1. \A n : IsKept(logs, n) => n \in 1 .. appended
        BY <2>1 DEF RowsInv, Appended, IsKept, Holds
      <4>. QED BY <2>3, <3>1, <4>1 DEF WholeInv
    <3>3. \A i \in 0 .. RotateCount : Len(logs[i]) < MaxLogBytes
      <4>1. \A i \in 0 .. RotateCount : Len(logs[i]) \in Nat /\ (logs[i] = <<>> => Len(logs[i]) = 0)
        BY <2>1 DEF RowsInv
      <4>2. \A i \in 0 .. RotateCount : i # 0 => i \in 1 .. RotateCount
        OBVIOUS
      <4>. QED BY <3>1, <4>1, <4>2 DEF WholeInv, Fill
    <3>. QED BY <2>1, <2>3, <3>1, <3>2, <3>3, EnoughIsKept
  <2>. QED BY <2>4, <2>5, <2>6 DEF LogIsRecent
<1>. QED BY <1>1, LogStarts, LogSteps, PTL DEF Spec
=============================================================================
