------------------------- MODULE BackgroundOperation -------------------------
(***************************************************************************)
(* What a FileOperationsWorker promises to the UI thread that owns it: the *)
(* outcome it shows through State(), how Cancel() takes part in it, and    *)
(* that its thread comes to an end.  FileOperationsWorker implements it;   *)
(* FileOperations is built on it.                                          *)
(***************************************************************************)
VARIABLES
    state,              \* CopyState, as State() returns it
    cancelRequested,    \* Cancel() has been called
    thread              \* "idle", "running", "gone", or "none": never created

vars == <<state, cancelRequested, thread>>

Outcomes == {"Completed", "Failed", "Canceled"}

TypeOK ==
    /\ state \in {"Idle", "Copying"} \cup Outcomes
    /\ cancelRequested \in BOOLEAN
    /\ thread \in {"idle", "running", "gone", "none"}

Init == state = "Idle" /\ cancelRequested = FALSE /\ thread = "idle"

Start ==
    /\ thread = "idle"
    /\ \/ state' = "Copying" /\ thread' = "running"
       \/ state' = "Failed" /\ thread' = "none"
    /\ UNCHANGED cancelRequested

\* The user is answered at once; the rollback comes later.
Cancel ==
    /\ thread \in {"running", "gone"}
    /\ ~cancelRequested
    /\ cancelRequested' = TRUE
    /\ state' = IF state = "Copying" THEN "Canceled" ELSE state
    /\ UNCHANGED thread

\* The thread sees that all is done in the critical section in which it sees
\* that nobody has canceled.
\* Mutant: without a look at cancelRequested_.
MutComplete ==
    /\ thread = "running" /\ state \in {"Copying", "Canceled"}
    /\ state' = "Completed"
    /\ UNCHANGED <<cancelRequested, thread>>
Complete ==
    /\ thread = "running" /\ state = "Copying"
    /\ state' = "Completed"
    /\ UNCHANGED <<cancelRequested, thread>>

\* An error after the cancellation is shown in its place.
Fail ==
    /\ thread = "running" /\ state \in {"Copying", "Canceled"}
    /\ state' = "Failed"
    /\ UNCHANGED <<cancelRequested, thread>>

\* A cancellation that comes after the outcome, but before the thread has got
\* past the head of its copy loop, still rolls back and changes the outcome:
\* there, or, together with the end of the thread, right after the planning.
Recant ==
    /\ thread = "running" /\ cancelRequested
    /\ state' = "Canceled"
    /\ \/ thread' = "gone"
       \/ state = "Completed" /\ UNCHANGED thread
    /\ UNCHANGED cancelRequested

\* Mutant: the thread does not return from a failure.
MutFinish ==
    /\ thread = "running" /\ state = "Completed"
    /\ thread' = "gone"
    /\ UNCHANGED <<state, cancelRequested>>
Finish ==
    /\ thread = "running" /\ state \in Outcomes
    /\ thread' = "gone"
    /\ UNCHANGED <<state, cancelRequested>>

WorkerStep == Complete \/ Fail \/ Recant \/ Finish
Next == Start \/ Cancel \/ WorkerStep

\* The thread is scheduled and its system calls return.
Spec == Init /\ [][Next]_vars /\ WF_vars(WorkerStep)
==============================================================================
