------------------------------ MODULE Startup -------------------------------
(***************************************************************************)
(* The life of the process in main.cpp: the request to lift the sandbox,   *)
(* the construction and initialisation of the application, and its endless *)
(* loop of frames (app.cpp), with the log that the UI thread and a worker  *)
(* thread write and the screen the UI thread draws.  The process may be    *)
(* killed at any moment and started again.                                 *)
(*                                                                         *)
(* The daemon that lifts the sandbox is external and is modelled from what *)
(* main.cpp expects of it: it acts on a complete request only, lifts the   *)
(* sandbox of the process the request names, and removes the file.         *)
(***************************************************************************)
EXTENDS Logger, Scene2D

CONSTANTS Ui, Worker,      \* the two threads
          NoFile, Partial, \* a trigger file that is not there, or not yet whole
          Attempts,        \* kJailbreakWaitAttempts
          MaxRuns          \* bound: how often the process is started

ASSUME StartupAssumption ==
    /\ Threads = {Ui, Worker}
    /\ Attempts \in Nat \ {0} /\ MaxRuns \in Nat \ {0}
    /\ NoFile \notin Nat /\ Partial \notin Nat /\ NoFile # Partial

VARIABLES pc,        \* where the main thread is
          pid,       \* the process, by the number of its start
          trigger,   \* the trigger file: NoFile, Partial, or the process it names
          granted,   \* the processes whose sandbox is lifted
          attempt,   \* the loop variable of RequestKylinJailbreak()
          cut        \* how many times the process was killed in a rotation of the log

bootVars == <<pc, pid, trigger, granted, attempt, cut>>
vars == <<bootVars, logVars, sceneVars>>

Init ==
    /\ LogInit
    /\ SceneInit
    /\ pc = "unlink" /\ pid = 1 /\ trigger = NoFile /\ granted = {} /\ attempt = 1 /\ cut = 0

-----------------------------------------------------------------------------
(* RequestKylinJailbreak().                                                *)

UnlinkTrigger ==
    /\ pc = "unlink"
    /\ trigger' = NoFile
    /\ pc' = "open"
    /\ UNCHANGED <<pid, granted, attempt, cut>>

\* open() with O_CREAT and O_TRUNC, or IdleForever().
OpenTrigger ==
    /\ pc = "open"
    /\ \/ trigger' = Partial /\ pc' = "write"
       \/ UNCHANGED trigger /\ pc' = "idle"
    /\ UNCHANGED <<pid, granted, attempt, cut>>

\* WriteAll() writes the line whole, or fails after a part of it.
WriteTrigger ==
    /\ pc = "write"
    /\ \/ trigger' = pid /\ pc' = "wait"
       \/ UNCHANGED trigger /\ pc' = "idle"
    /\ UNCHANGED <<pid, granted, attempt, cut>>

MutGivenUp == "init"
GivenUp == "idle"

\* One round of the wait: the file is gone, or the next attempt, or no more of them.
WaitForDaemon ==
    /\ pc = "wait"
    /\ \/ trigger = NoFile /\ pc' = "init" /\ UNCHANGED attempt
       \/ trigger # NoFile /\ attempt < Attempts /\ attempt' = attempt + 1 /\ UNCHANGED pc
       \/ trigger # NoFile /\ attempt = Attempts /\ pc' = GivenUp /\ UNCHANGED attempt
    /\ UNCHANGED <<pid, trigger, granted, cut>>

Handshake ==
    /\ UnlinkTrigger \/ OpenTrigger \/ WriteTrigger \/ WaitForDaemon
    /\ UNCHANGED <<logVars, sceneVars>>

Daemon ==
    /\ trigger \notin {NoFile, Partial}
    /\ granted' = granted \cup {trigger}
    /\ trigger' = NoFile
    /\ UNCHANGED <<pc, pid, attempt, cut, logVars, sceneVars>>

-----------------------------------------------------------------------------
(* App::Init() and App::Run().                                             *)

Goes(from, to) == pc = from /\ pc' = to /\ UNCHANGED <<pid, trigger, granted, attempt, cut>>

\* App::Init() succeeds, or main() returns.
AppInit ==
    /\ Goes("init", "draw") \/ Goes("init", "ended")
    /\ UNCHANGED <<logVars, sceneVars>>

\* Input and operations, then Draw(): with an index of no buffer it writes
\* through a wild pointer, and the process ends.
Draw ==
    /\ \/ active # Wild /\ Goes("draw", "flip")
       \/ active = Wild /\ Goes("draw", "ended")
    /\ UNCHANGED <<logVars, sceneVars>>

MutFlipId == NextFrame(frame)
FlipId == frame

Flip ==
    /\ Goes("flip", "status")
    /\ SubmitFlip(FlipId)
    /\ UNCHANGED logVars

\* FrameWait(): the status of the output, and if it is another flip's, an event.
\* The handle of the output is not 0, for which FrameWait() would not wait.
FrameStatus ==
    /\ IF Flipped(frame) THEN Goes("status", "swap") ELSE Goes("status", "equeue")
    /\ UNCHANGED <<logVars, sceneVars>>

MutAfterEvent == "swap"
AfterEvent == "status"

FrameEvent ==
    /\ Goes("equeue", AfterEvent)
    /\ WaitEqueue
    /\ UNCHANGED logVars

Swap ==
    /\ Goes("swap", "draw")
    /\ FrameBufferSwap
    /\ UNCHANGED logVars

Frame == AppInit \/ Draw \/ Flip \/ FrameStatus \/ FrameEvent \/ Swap

-----------------------------------------------------------------------------
Running == pc \in {"draw", "flip", "status", "equeue", "swap"}

\* The UI thread logs between its steps, the worker thread at any time.
Logs ==
    /\ \/ pc \in {"init", "draw", "swap"} /\ LogMessage(Ui)
       \/ Running /\ LogMessage(Worker)
    /\ UNCHANGED <<bootVars, sceneVars>>

InLogMessage(t) == InLog(t) /\ UNCHANGED <<bootVars, sceneVars>>

\* A thread that is in LogMessage() is nowhere else.
Main == at[Ui] = "out" /\ (Handshake \/ Frame)

Display == Vblank /\ UNCHANGED <<bootVars, logVars>>

\* The process is killed, or has ended or idles, and the user starts it again.
Restart ==
    /\ pid < MaxRuns
    /\ pid' = pid + 1
    /\ pc' = "unlink"
    /\ attempt' = 1
    /\ cut' = IF Rotating THEN cut + 1 ELSE cut
    /\ LogKilled
    /\ SceneReset
    /\ UNCHANGED <<trigger, granted>>

Next == Main \/ Daemon \/ Logs \/ (\E t \in Threads : InLogMessage(t)) \/ Display \/ Restart

\* The scheduler runs both threads, and the display keeps refreshing.  Nothing
\* is assumed of the daemon.
Fairness ==
    /\ WF_vars(Main)
    /\ \A t \in Threads : WF_vars(InLogMessage(t))
    /\ WF_vars(Display)

Spec == Init /\ [][Next]_vars /\ Fairness

-----------------------------------------------------------------------------
(* Properties.                                                             *)

Lesser(m, n) == IF m < n THEN m ELSE n
Fill == MaxLogBytes - 1

\* The files of the log, read from the highest number down, hold its lines in
\* the order in which they were appended (logger.cpp:69-92).  Unless a stat(),
\* remove() or rename() failed no line is missing between the oldest and the newest, no
\* file reaches the limit, and the last kRotateCount files full of lines are
\* there; a rotation that is cut off by the end of the process costs one of them.
LogIsRecent ==
    /\ \A i \in 0 .. RotateCount : \A k, l \in 1 .. Len(logs[i]) :
          k < l => logs[i][k] < logs[i][l]
    /\ \A i, j \in 0 .. RotateCount : i < j =>
          \A m \in ToSet(logs[j]), n \in ToSet(logs[i]) : m < n
    /\ failed = 0 =>
        /\ \A n \in Kept : n .. appended \subseteq Kept
        /\ \A i \in 0 .. RotateCount : Len(logs[i]) < MaxLogBytes
        /\ RotateCount >= cut =>
              appended + 1 - Lesser(appended, (RotateCount - cut) * Fill) .. appended
                  \subseteq Kept

\* While the UI thread draws, its buffer is neither on the screen nor queued to
\* be shown (app.cpp:427-435, graphics.cpp:272-301).
DrawsUnseen ==
    pc = "draw" /\ active \in Buffers =>
        /\ shown # active
        /\ \A i \in 1 .. Len(flips) : flips[i].buffer # active

\* The application runs, and opens the file system, only in a process whose own
\* sandbox was lifted: no request of an earlier process and no wait that came to
\* its end passes for that (main.cpp:35-91, README.md "Startup privileges").
RunsUnrestricted == pc = "init" \/ Running => pid \in granted

\* The frames go on: FrameWait() comes back, with an event left over by an
\* earlier frame or with none, and no thread keeps the log to itself, unless the
\* process has ended, or idles for want of the daemon.
FramesReturn == []<>(pc = "draw" \/ pc \in {"idle", "ended"})
=============================================================================
