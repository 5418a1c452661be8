------------------------------- MODULE Logger -------------------------------
(***************************************************************************)
(* The log of logger.cpp: LogMessage() appends a line under g_loggerMutex, *)
(* and before that, when the file would reach kMaxLogBytes, moves the log  *)
(* and its rotated predecessors one place on, file by file.  The threads   *)
(* of the application share it, and the process may be killed between any  *)
(* two calls.                                                              *)
(*                                                                         *)
(* A line is the number under which it was appended, and has size 1; a log *)
(* file is the sequence of its lines, and <<>> is a file that is not       *)
(* there.  A line of which fopen() fails is dropped.                       *)
(***************************************************************************)
EXTENDS Naturals, Sequences, SequencesExt

CONSTANTS Threads,        \* the threads that call LOG_INFO and LOG_ERROR
          Nobody,         \* the mutex is free
          MaxLogBytes,    \* kMaxLogBytes, in lines
          RotateCount,    \* kRotateCount
          MaxLines,       \* bound: the lines that are ever appended
          MaxFaults,      \* bound: the calls of stat(), remove() and rename() that fail
          MaxDropped      \* bound: the calls of fopen() that fail

ASSUME LoggerAssumption ==
    /\ Nobody \notin Threads
    /\ MaxLogBytes \in Nat \ {0, 1} /\ RotateCount \in Nat \ {0}
    /\ MaxLines \in Nat /\ MaxFaults \in Nat /\ MaxDropped \in Nat

VARIABLES logs,      \* logs[0] is the log, logs[i] the file with suffix ".i"
          appended,  \* how many lines have been appended so far
          failed,    \* how many calls of a rotation have failed so far
          dropped,   \* how many lines were dropped
          owner,     \* g_loggerMutex
          at,        \* at[t]: where thread t is in LogMessage(), "out" if not in it
          index      \* index[t]: the loop variable of RotateLocked()

logVars == <<logs, appended, failed, dropped, owner, at, index>>

LogInit ==
    /\ logs = [i \in 0 .. RotateCount |-> <<>>]
    /\ appended = 0
    /\ failed = 0
    /\ dropped = 0
    /\ owner = Nobody
    /\ at = [t \in Threads |-> "out"]
    /\ index = [t \in Threads |-> 0]

Goto(t, place) == at' = [at EXCEPT ![t] = place]

\* A call of LogMessage(): the line is formatted before the mutex is asked for.
LogMessage(t) ==
    /\ at[t] = "out"
    /\ appended < MaxLines
    /\ Goto(t, "lock")
    /\ UNCHANGED <<logs, appended, failed, dropped, owner, index>>

MutMayEnter(t) == TRUE
MayEnter(t) == owner = Nobody

\* The comparison of MaybeRotateLocked(); a missing file is not rotated.
Full == logs[0] # <<>> /\ Len(logs[0]) + 1 >= MaxLogBytes

Enter(t) ==
    /\ at[t] = "lock"
    /\ MayEnter(t)
    /\ owner' = t
    /\ \/ Goto(t, IF Full THEN "remove" ELSE "append") /\ UNCHANGED failed
       \/ /\ Full /\ failed < MaxFaults       \* stat() fails
          /\ Goto(t, "append")
          /\ failed' = failed + 1
    /\ UNCHANGED <<logs, appended, dropped, index>>

FirstIndex == RotateCount

\* remove() and rename() have their effect, or fail and are ignored.
Call(effect) ==
    \/ logs' = effect /\ UNCHANGED failed
    \/ failed < MaxFaults /\ failed' = failed + 1 /\ UNCHANGED logs

RemoveOldest(t) ==
    /\ at[t] = "remove"
    /\ Call([logs EXCEPT ![RotateCount] = <<>>])
    /\ index' = [index EXCEPT ![t] = FirstIndex]
    /\ Goto(t, "rename")
    /\ UNCHANGED <<appended, dropped, owner>>

NextIndex(i) == i - 1

\* rename() replaces the file of the new name, and fails when there is none of the old.
Moved(i) ==
    IF logs[i - 1] = <<>> THEN logs ELSE [logs EXCEPT ![i] = logs[i - 1], ![i - 1] = <<>>]

Rename(t) ==
    /\ at[t] = "rename"
    /\ Call(Moved(index[t]))
    /\ index' = [index EXCEPT ![t] = NextIndex(index[t])]
    /\ Goto(t, IF NextIndex(index[t]) = 0 THEN "append" ELSE "rename")
    /\ UNCHANGED <<appended, dropped, owner>>

\* fopen() in append mode, fprintf() and fclose(), and the end of the lock_guard.
AppendLine(t) ==
    /\ at[t] = "append"
    /\ \/ /\ appended' = appended + 1
          /\ logs' = [logs EXCEPT ![0] = Append(@, appended + 1)]
          /\ UNCHANGED dropped
       \/ /\ dropped < MaxDropped
          /\ dropped' = dropped + 1
          /\ UNCHANGED <<appended, logs>>
    /\ owner' = Nobody
    /\ Goto(t, "out")
    /\ UNCHANGED <<failed, index>>

InLog(t) == Enter(t) \/ RemoveOldest(t) \/ Rename(t) \/ AppendLine(t)

\* The process is killed: the files stay as they are, threads and mutex go with it.
LogKilled ==
    /\ owner' = Nobody
    /\ at' = [t \in Threads |-> "out"]
    /\ index' = [t \in Threads |-> 0]
    /\ UNCHANGED <<logs, appended, failed, dropped>>

Rotating == \E t \in Threads : at[t] \in {"remove", "rename"}

\* The lines that are in some file of the log.
Kept == UNION {ToSet(logs[i]) : i \in 0 .. RotateCount}
=============================================================================
