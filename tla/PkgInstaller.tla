---------------------------- MODULE PkgInstaller ----------------------------
(***************************************************************************)
(* The client of the package installer: Cross on a package starts a        *)
(* detached thread that asks a server on this machine to install it and    *)
(* follows the server's events, and an overlay shows how far it is.  UI    *)
(* thread and installer threads share the pkgInstaller..._ fields of App   *)
(* without a lock, so that every assignment is a step, and the assignment  *)
(* of a string two: between them the string is Torn.                       *)
(*                                                                         *)
(* No state of DetermineCurrentState() belongs to the overlay: the browser *)
(* keeps the pad, HandlePkgInstallerInput() is never called, the overlay   *)
(* stays open, and a second installation may begin beside the first.       *)
(* Buttons that do not move the browser, and the progress in percent, are  *)
(* left out.  The server is external.                                      *)
(***************************************************************************)
EXTENDS FileBrowser

CONSTANTS Packages,     \* the names of files that are packages
          Plain,        \* the paths that JSON and a buffer of 1024 bytes take as they are
          Threads       \* bound: the installer threads that can be created

VARIABLES
    uiPc,               \* "browse", or where it is in starting a thread
    shown,              \* pkgInstallerOpen_
    path, status, finished, cancelRequested,    \* pkgInstaller..._
    pc, message,        \* of each thread: where it is, what it is to show
    wants,              \* of each thread: the package it asks for
    \* for the properties
    completed,          \* packages the server has called completed
    cut,                \* an event stream ended early, or there was no thread
    overlapped          \* an installation began beside another

fields  == <<shown, path, status, finished, cancelRequested>>
threads == <<pc, message, wants>>
server  == <<completed, cut>>
allVars == <<disk, browser, uiPc, fields, threads, server, overlapped>>

Torn == "torn"
Silent == [status |-> "", finished |-> FALSE, next |-> "gone", written |-> 0]

\* The constructor of App leaves the flags uninitialized.
PkgInit ==
    /\ AnyDisk
    /\ uiPc = "browse"
    /\ path = NoEntry /\ status = ""
    /\ shown \in BOOLEAN /\ finished \in BOOLEAN /\ cancelRequested \in BOOLEAN
    /\ pc = [t \in Threads |-> "unborn"]
    /\ message = [t \in Threads |-> Silent]
    /\ wants = [t \in Threads |-> NoEntry]
    /\ completed = {} /\ cut = FALSE /\ overlapped = FALSE

Alive(t) == pc[t] \notin {"unborn", "gone"}
IsPackage(p) == p # NoEntry /\ BaseName(p) \in Packages

(***************************************************************************)
(* Cross: OpenSelected() answers TRUE for a package, and for a folder that *)
(* has been opened; the entry that is selected then is looked at.          *)
(***************************************************************************)
CrossPressed ==
    /\ uiPc = "browse"
    /\ \/ OpenSelected
       \/ IsPackage(selected) /\ UNCHANGED <<disk, browser>>
    /\ LET opened == IsPackage(selected) \/ currentPath' # currentPath
       IN  IF opened /\ IsPackage(selected')
           THEN /\ \E t \in Threads : pc[t] = "unborn"
                /\ shown' = TRUE /\ path' = selected'
                /\ uiPc' = "status"
                /\ overlapped' = (overlapped \/ \E t \in Threads : Alive(t))
           ELSE UNCHANGED <<shown, path, uiPc, overlapped>>
    /\ UNCHANGED <<status, finished, cancelRequested, threads, server>>

ResetStatus ==
    /\ uiPc = "status" /\ uiPc' = "create"
    /\ status' = "Connecting..."
    /\ UNCHANGED <<disk, browser, shown, path, finished, cancelRequested, threads,
                   server, overlapped>>

\* The result of pthread_create() is not looked at.
CreateThread ==
    /\ uiPc = "create" /\ uiPc' = "browse"
    /\ finished' = FALSE /\ cancelRequested' = FALSE
    /\ \/ /\ \E t \in Threads : pc[t] = "unborn" /\ pc' = [pc EXCEPT ![t] = "path"]
          /\ UNCHANGED cut
       \/ cut' = TRUE /\ UNCHANGED pc
    /\ UNCHANGED <<disk, browser, shown, path, status, message, wants, completed, overlapped>>

\* Circle, and the buttons that move the selection, as if nothing was shown.
CirclePressed ==
    /\ uiPc = "browse"
    /\ GoBack
    /\ UNCHANGED <<uiPc, fields, threads, server, overlapped>>

MovePressed ==
    /\ uiPc = "browse"
    /\ MoveSelection
    /\ UNCHANGED <<uiPc, fields, threads, server, overlapped>>

(***************************************************************************)
(* UpdatePkgInstallerState(), called by the installer threads.             *)
(***************************************************************************)
\* Mutant: the flag is set before the text it belongs to.
MutWriteOrder == <<"finished", "tear", "status">>
WriteOrder == <<"tear", "status", "finished">>

Show(t, text, end, next) ==
    /\ pc' = [pc EXCEPT ![t] = "update"]
    /\ message' = [message EXCEPT ![t] =
                      [status |-> text, finished |-> end, next |-> next, written |-> 0]]

WriteField(t) ==
    LET m     == message[t]
        field == WriteOrder[m.written + 1]
    IN  /\ pc[t] = "update"
        /\ status' = IF field = "tear" THEN Torn
                     ELSE IF field = "status" THEN m.status ELSE status
        /\ finished' = IF field = "finished" THEN m.finished ELSE finished
        /\ message' = [message EXCEPT ![t].written = @ + 1]
        /\ pc' = [pc EXCEPT ![t] = IF m.written + 1 = Len(WriteOrder) THEN m.next ELSE "update"]
        /\ UNCHANGED <<shown, path, cancelRequested, wants, server>>

(***************************************************************************)
(* PkgInstallerThreadFunc().                                               *)
(***************************************************************************)
\* The path is put between quotes as it is: one with a quote or a backslash, or
\* one too long, is no longer the path in what the server is sent.
Garbled      == <<"?">>
Requested(p) == IF p \in Plain THEN p ELSE Garbled

ReadPath(t) ==
    /\ pc[t] = "path"
    /\ wants' = [wants EXCEPT ![t] = Requested(path)]
    /\ pc' = [pc EXCEPT ![t] = "install"]
    /\ UNCHANGED <<fields, message, server>>

\* Any of socket(), connect(), recv() and the parsing of the answer fails, the
\* last also when the answer comes in two pieces.
InstallFails(t) ==
    /\ pc[t] = "install"
    /\ Show(t, "Error", TRUE, "gone")
    /\ UNCHANGED <<fields, wants, server>>

InstallAccepted(t) ==
    /\ pc[t] = "install"
    /\ Show(t, "Requesting events...", FALSE, "subscribe")
    /\ UNCHANGED <<fields, wants, server>>

\* Mutant: the thread leaves without a word.
MutAfterNoSubscription(t) ==
    pc' = [pc EXCEPT ![t] = "gone"] /\ UNCHANGED message
AfterNoSubscription(t) == Show(t, "Error", TRUE, "gone")

Subscribe(t) ==
    /\ pc[t] = "subscribe"
    /\ \/ pc' = [pc EXCEPT ![t] = "events"] /\ UNCHANGED message
       \/ AfterNoSubscription(t)
    /\ UNCHANGED <<fields, wants, server>>

IsLast(state) == state \in {"Completed", "Failed"}

\* One line of the stream.  Lines that are no events change nothing.
Event(t) ==
    /\ pc[t] = "events" /\ ~cancelRequested
    /\ \E state \in {"Installing", "Completed", "Failed"} :
          /\ Show(t, state, IsLast(state), IF IsLast(state) THEN "ended" ELSE "events")
          /\ completed' = IF state = "Completed" THEN completed \cup {wants[t]} ELSE completed
    /\ UNCHANGED <<fields, wants, cut>>

StreamEnds(t) ==
    /\ pc[t] = "events"
    /\ pc' = [pc EXCEPT ![t] = "ended"]
    /\ cut' = (cut \/ ~cancelRequested)
    /\ UNCHANGED <<fields, message, wants, completed>>

End(t) ==
    /\ pc[t] = "ended"
    /\ IF cancelRequested THEN Show(t, "Canceled", TRUE, "gone")
       ELSE pc' = [pc EXCEPT ![t] = "gone"] /\ UNCHANGED message
    /\ UNCHANGED <<fields, wants, server>>

InstallerStep ==
    /\ \E t \in Threads :
          \/ ReadPath(t) \/ InstallFails(t) \/ InstallAccepted(t) \/ Subscribe(t)
          \/ Event(t) \/ StreamEnds(t) \/ End(t) \/ WriteField(t)
    /\ UNCHANGED <<disk, browser, uiPc, overlapped>>

PkgNext ==
    \/ CrossPressed \/ ResetStatus \/ CreateThread \/ CirclePressed \/ MovePressed
    \/ InstallerStep

PkgSpec == PkgInit /\ [][PkgNext]_allVars

(***************************************************************************)
(* Properties.                                                             *)
(***************************************************************************)
\* What a frame draws, once an installation has been started.
Drawn == uiPc = "browse" /\ shown /\ path # NoEntry

\* While one installation runs at a time the overlay tells the truth, although
\* nothing is locked: it names the package that is asked for, "finished" comes
\* with the text of an end, and "Completed" is the server's word for that
\* package (UpdatePkgInstallerState, PkgInstallerThreadFunc, HandleBrowsingInput).
\* Of a path that is garbled on its way to the server only the second is said.
OverlayIsHonest ==
    Drawn /\ ~overlapped =>
        /\ finished => status \in {"Error", "Completed", "Failed"}
        /\ path \in Plain =>
              /\ status = "Completed" => path \in completed
              /\ \A t \in Threads : Alive(t) /\ wants[t] # NoEntry => wants[t] = path

\* The overlay is left unfinished only by a stream that was cut off, or when
\* there was no thread: every other end of the thread is shown.
EndIsShown ==
    Drawn /\ ~overlapped /\ (\A t \in Threads : ~Alive(t)) => finished \/ cut

\* file_browser.cpp:244-245 says that OpenSelected() returns true for a package
\* without changing directory, for the App to install the selected entry: what
\* is installed is what was selected when Cross was pressed.
InstallsTheSelected == [][uiPc = "browse" /\ uiPc' = "status" => path' = selected]_allVars
=============================================================================
