------------------------- MODULE PkgInstallerProofs --------------------------
(***************************************************************************)
(* Proofs about PkgInstaller, for any number of packages, folders and      *)
(* installer threads: although UI thread and installer thread write the    *)
(* same fields without a lock, the overlay tells the truth as long as no   *)
(* two installations run at a time.                                        *)
(***************************************************************************)
EXTENDS PkgInstaller, TLAPS

(***************************************************************************)
(* The invariant.                                                          *)
(***************************************************************************)
Running == {"Connecting...", "Requesting events...", "Installing"}
Ending  == {"Error", "Completed", "Failed"}
Following == {"update", "subscribe", "events", "ended"}

MessageFields == {"status", "finished", "next", "written"}

\* The variables of the threads have their types, also when they overlap, and a
\* thread asks for nothing before it has read the path.
ThreadTypes ==
    /\ uiPc \in {"browse", "status", "create"}
    /\ pc \in [Threads -> {"unborn", "path", "install", "gone"} \cup Following]
    /\ DOMAIN message = Threads /\ DOMAIN wants = Threads
    /\ \A t \in Threads :
          /\ pc[t] \in {"unborn", "path"} => wants[t] = NoEntry
          /\ pc[t] = "update" => /\ DOMAIN message[t] = MessageFields
                                 /\ message[t].written \in 0 .. 2
                                 /\ message[t].next \in {"gone", "subscribe", "events", "ended"}

\* While the UI thread starts an installation no other runs.
StartInv ==
    /\ uiPc # "browse" => path # NoEntry /\ \A t \in Threads : ~Alive(t)
    /\ uiPc = "create" => status = "Connecting..."

\* A message that ends the installation has the text of an end, and says no more
\* than the server did.
MessageInv(t) ==
    /\ message[t].finished =>
          message[t].status \in Ending /\ message[t].next \in {"gone", "ended"}
    /\ ~message[t].finished =>
          message[t].status \in Running /\ message[t].next \in {"subscribe", "events"}
    /\ message[t].status = "Completed" => wants[t] \in completed

\* What is on the screen while the thread writes its message.
WritingInv(t) ==
    /\ message[t].written = 2 => status = message[t].status
    /\ message[t].written # 2 => status \in Running \cup {Torn}

\* What the text says at each place of the thread t.
TextInv(t) ==
    /\ pc[t] \in {"path", "install", "subscribe", "events"} => ~finished /\ status \in Running
    /\ pc[t] = "update" => ~finished /\ WritingInv(t) /\ MessageInv(t)
    /\ pc[t] = "ended" /\ finished => status \in Ending
    /\ pc[t] = "ended" /\ ~finished => status \in Running /\ cut

\* One installation at a time: the overlay is the thread's.
AloneInv ==
    /\ \A t, u \in Threads : Alive(t) /\ Alive(u) => t = u
    /\ uiPc = "browse" /\ path # NoEntry => ~cancelRequested
    /\ \A t \in Threads : Alive(t) =>
          /\ uiPc = "browse" /\ path # NoEntry
          /\ pc[t] # "path" => wants[t] = Requested(path)
          /\ TextInv(t)
    /\ uiPc = "browse" /\ path # NoEntry =>
          /\ status \in Running \cup Ending \cup {Torn}
          /\ finished => status \in Ending
          /\ status = "Completed" => Requested(path) \in completed
          /\ (\A t \in Threads : ~Alive(t)) => finished \/ cut

OverlayInv == ThreadTypes /\ (~overlapped => StartInv /\ AloneInv)

USE DEF fields, threads, server, Running, Ending, Following, MessageFields

\* Nothing has been started.
LEMMA OverlayStarts == PkgInit => OverlayInv
<1>. SUFFICES ASSUME PkgInit PROVE OverlayInv
  OBVIOUS
<1>2. ThreadTypes
  BY DEF PkgInit, ThreadTypes
<1>3. StartInv /\ AloneInv
  BY DEF PkgInit, StartInv, AloneInv, Alive
<1>. QED BY <1>2, <1>3 DEF OverlayInv

(***************************************************************************)
(* The UI thread.                                                          *)
(***************************************************************************)
\* The buttons that only move the browser.
LEMMA BrowsingSteps ==
    ASSUME OverlayInv, UNCHANGED <<uiPc, fields, threads, server, overlapped>>
    PROVE  OverlayInv'
<1>1. ThreadTypes' = ThreadTypes
  BY DEF ThreadTypes
<1>2. StartInv' = StartInv
  BY DEF StartInv, Alive
<1>3. \A t \in Threads : TextInv(t)' = TextInv(t)
  BY DEF TextInv, WritingInv, MessageInv
<1>4. AloneInv' = AloneInv
  BY <1>3 DEF AloneInv, Alive
<1>. QED BY <1>1, <1>2, <1>4 DEF OverlayInv

\* The UI thread starts an installation.
LEMMA StartingSteps ==
    ASSUME OverlayInv, CrossPressed \/ ResetStatus \/ CreateThread
    PROVE  OverlayInv'
<1>1. CASE CrossPressed
  <2>1. CASE UNCHANGED <<shown, path, uiPc, overlapped>>
    BY <1>1, <2>1, BrowsingSteps DEF CrossPressed
  <2>2. CASE /\ path' # NoEntry /\ uiPc' = "status"
             /\ overlapped' = (overlapped \/ \E t \in Threads : Alive(t))
    BY <1>1, <2>2 DEF CrossPressed, OverlayInv, ThreadTypes, StartInv, AloneInv, Alive
  <2>. QED BY <1>1, <2>1, <2>2 DEF CrossPressed, IsPackage
<1>2. CASE ResetStatus
  BY <1>2 DEF ResetStatus, OverlayInv, ThreadTypes, StartInv, AloneInv, Alive
<1>3. CASE CreateThread
  <2>1. CASE UNCHANGED pc
    BY <1>3, <2>1 DEF CreateThread, OverlayInv, ThreadTypes, StartInv, AloneInv, Alive
  <2>2. ASSUME NEW t \in Threads, pc[t] = "unborn", pc' = [pc EXCEPT ![t] = "path"]
        PROVE  OverlayInv'
    <3>1. ThreadTypes'
      BY <1>3, <2>2 DEF CreateThread, OverlayInv, ThreadTypes
    <3>2. ASSUME ~overlapped
          PROVE  /\ path # NoEntry /\ status = "Connecting..."
                 /\ \A u \in Threads : Alive(u)' <=> u = t
      BY <1>3, <2>2, <3>2 DEF CreateThread, OverlayInv, ThreadTypes, StartInv, Alive
    <3>3. ASSUME ~overlapped PROVE StartInv' /\ AloneInv'
      BY <1>3, <2>2, <3>2, <3>3 DEF CreateThread, StartInv, AloneInv, TextInv, OverlayInv, ThreadTypes
    <3>. QED BY <1>3, <3>1, <3>3 DEF CreateThread, OverlayInv
  <2>. QED BY <1>3, <2>1, <2>2 DEF CreateThread
<1>. QED BY <1>1, <1>2, <1>3

(***************************************************************************)
(* The installer threads.                                                  *)
(***************************************************************************)
ThreadStep(t) == \/ ReadPath(t) \/ InstallFails(t) \/ InstallAccepted(t) \/ Subscribe(t)
                 \/ Event(t) \/ StreamEnds(t) \/ End(t) \/ WriteField(t)

\* The message that the thread t is to show next.
ToShow(t, text, next) ==
    /\ DOMAIN message' = Threads
    /\ DOMAIN message'[t] = MessageFields
    /\ message'[t].status = text /\ message'[t].next = next /\ message'[t].written = 0
    /\ pc' = [pc EXCEPT ![t] = "update"]
    /\ \A u \in Threads : u # t => message'[u] = message[u]

\* Show() leaves the other threads' messages alone.
LEMMA ShowFacts ==
    ASSUME ThreadTypes, NEW t \in Threads, NEW text, NEW end, NEW next, Show(t, text, end, next)
    PROVE  ToShow(t, text, next) /\ message'[t].finished = end
<1>. DEFINE m == [status |-> text, finished |-> end, next |-> next, written |-> 0]
<1>1. DOMAIN m = MessageFields
  OBVIOUS
<1>2. m.status = text /\ m.finished = end /\ m.next = next /\ m.written = 0
  OBVIOUS
<1>3. message' = [message EXCEPT ![t] = m] /\ pc' = [pc EXCEPT ![t] = "update"]
  BY DEF Show
<1>. HIDE DEF m
<1>4. message'[t] = m /\ DOMAIN message' = Threads
      /\ \A u \in Threads : u # t => message'[u] = message[u]
  BY <1>3 DEF ThreadTypes
<1>. QED BY <1>1, <1>2, <1>3, <1>4 DEF ToShow

\* A message that ends the installation, and one that does not.
LEMMA ShowEnd ==
    ASSUME ThreadTypes, NEW t \in Threads, NEW text, NEW next, Show(t, text, TRUE, next)
    PROVE  ToShow(t, text, next) /\ message'[t].finished
<1>1. ToShow(t, text, next) /\ message'[t].finished = TRUE
  BY ShowFacts, Zenon
<1>. QED BY <1>1

\* The thread goes on.
LEMMA ShowMore ==
    ASSUME ThreadTypes, NEW t \in Threads, NEW text, NEW next, Show(t, text, FALSE, next)
    PROVE  ToShow(t, text, next) /\ ~message'[t].finished
<1>1. ToShow(t, text, next) /\ message'[t].finished = FALSE
  BY ShowFacts, Zenon
<1>. QED BY <1>1

\* Only the last event of a stream ends the installation.
LEMMA EventFacts ==
    ASSUME ThreadTypes, NEW t \in Threads, Event(t)
    PROVE  /\ \/ ToShow(t, "Installing", "events") /\ ~message'[t].finished /\ completed' = completed
              \/ ToShow(t, "Failed", "ended") /\ message'[t].finished /\ completed' = completed
              \/ ToShow(t, "Completed", "ended") /\ message'[t].finished
                 /\ completed' = completed \cup {wants[t]}
           /\ pc[t] = "events" /\ UNCHANGED <<fields, wants, cut>>
<1>1. PICK st \in {"Installing", "Completed", "Failed"} :
          /\ Show(t, st, IsLast(st), IF IsLast(st) THEN "ended" ELSE "events")
          /\ completed' = IF st = "Completed" THEN completed \cup {wants[t]} ELSE completed
  BY DEF Event
<1>2. CASE st = "Installing"
  <2>1. IsLast(st) = FALSE
    BY <1>2 DEF IsLast
  <2>2. Show(t, "Installing", FALSE, "events")
    BY <1>1, <1>2, <2>1
  <2>. QED BY <1>1, <1>2, <2>2, ShowMore DEF Event
<1>3. CASE st # "Installing"
  <2>1. IsLast(st) = TRUE
    BY <1>1, <1>3 DEF IsLast
  <2>2. Show(t, st, TRUE, "ended")
    BY <1>1, <2>1
  <2>3. ToShow(t, st, "ended") /\ message'[t].finished
    BY <2>2, ShowEnd
  <2>. QED BY <1>1, <1>3, <2>3 DEF Event
<1>. QED BY <1>2, <1>3

\* The step of a thread keeps the types, and changes the variables of no other.
LEMMA TypeSteps ==
    ASSUME ThreadTypes, NEW t \in Threads, UNCHANGED uiPc, ThreadStep(t)
    PROVE  /\ ThreadTypes'
           /\ UNCHANGED <<path, cancelRequested>>
           /\ Alive(t)
           /\ \A u \in Threads : u # t => pc'[u] = pc[u]
<1>. USE DEF ThreadTypes, Alive
<1>0. ASSUME NEW text, NEW next \in {"gone", "subscribe", "events", "ended"}, ToShow(t, text, next),
             pc[t] \in {"install", "subscribe", "events", "ended"},
             UNCHANGED <<path, cancelRequested, wants>>
      PROVE  ThreadTypes' /\ Alive(t) /\ \A u \in Threads : u # t => pc'[u] = pc[u]
  BY <1>0 DEF ToShow
<1>1. CASE ReadPath(t)
  BY <1>1 DEF ReadPath
<1>2. CASE InstallFails(t)
  BY <1>0, <1>2, ShowEnd DEF InstallFails
<1>3. CASE InstallAccepted(t)
  BY <1>0, <1>3, ShowMore DEF InstallAccepted
<1>4. CASE Subscribe(t)
  <2>1. CASE AfterNoSubscription(t)
    BY <1>0, <1>4, <2>1, ShowEnd DEF Subscribe, AfterNoSubscription
  <2>2. CASE pc' = [pc EXCEPT ![t] = "events"] /\ UNCHANGED message
    BY <1>4, <2>2 DEF Subscribe
  <2>. QED BY <1>4, <2>1, <2>2 DEF Subscribe
<1>5. CASE Event(t)
  BY <1>0, <1>5, EventFacts
<1>6. CASE StreamEnds(t)
  BY <1>6 DEF StreamEnds
<1>7. CASE End(t)
  <2>1. CASE cancelRequested
    BY <1>0, <1>7, <2>1, ShowEnd DEF End
  <2>2. CASE ~cancelRequested
    BY <1>7, <2>2 DEF End
  <2>. QED BY <2>1, <2>2
<1>8. CASE WriteField(t)
  <2>1. /\ DOMAIN message[t] = MessageFields /\ message[t].written \in 0 .. 2
        /\ message[t].next \in {"gone", "subscribe", "events", "ended"}
    BY <1>8 DEF WriteField
  <2>2. /\ DOMAIN message' = Threads /\ \A u \in Threads : u # t => message'[u] = message[u]
        /\ DOMAIN message'[t] = MessageFields
        /\ message'[t].next = message[t].next /\ message'[t].written = message[t].written + 1
    BY <1>8, <2>1 DEF WriteField
  <2>3. Len(WriteOrder) = 3
    BY DEF WriteOrder
  <2>4. /\ UNCHANGED <<path, cancelRequested, wants>> /\ pc[t] = "update"
        /\ pc' = [pc EXCEPT ![t] = IF message[t].written + 1 = 3 THEN message[t].next ELSE "update"]
    BY <1>8, <2>3 DEF WriteField
  <2>. QED BY <2>1, <2>2, <2>4
<1>. QED BY <1>1, <1>2, <1>3, <1>4, <1>5, <1>6, <1>7, <1>8 DEF ThreadStep

\* What the step of the only thread makes of its text and of the overlay.
LEMMA TextSteps ==
    ASSUME ThreadTypes, NEW t \in Threads, TextInv(t), ThreadStep(t), ~cancelRequested,
           pc[t] # "path" => wants[t] = Requested(path),
           status = "Completed" => Requested(path) \in completed
    PROVE  /\ TextInv(t)'
           /\ pc'[t] # "path" => wants'[t] = Requested(path)
           /\ status' \in Running \cup Ending \cup {Torn}
           /\ finished' => status' \in Ending
           /\ status' = "Completed" => Requested(path) \in completed'
           /\ pc'[t] = "gone" => finished' \/ cut'
<1>. USE DEF Torn
<1>0. ASSUME NEW text, NEW next, ToShow(t, text, next), UNCHANGED <<path, status, finished, wants>>,
             ~finished, status \in Running, pc[t] # "path", completed \subseteq completed',
             text = "Completed" => wants[t] \in completed',
             \/ message'[t].finished /\ text \in Ending /\ next \in {"gone", "ended"}
             \/ ~message'[t].finished /\ text \in Running /\ next \in {"subscribe", "events"}
      PROVE  /\ TextInv(t)'
             /\ wants'[t] = Requested(path)
             /\ status' \in Running /\ ~finished' /\ pc'[t] = "update"
  <2>1. pc'[t] = "update" /\ message'[t].status = text /\ message'[t].next = next
        /\ message'[t].written = 0
    BY <1>0 DEF ToShow, ThreadTypes
  <2>2. status' \in Running /\ ~finished' /\ wants'[t] = wants[t]
    BY <1>0
  <2>3. MessageInv(t)'
    BY <1>0, <2>1, <2>2 DEF MessageInv
  <2>4. WritingInv(t)'
    <3>1. message'[t].written # 2
      BY <2>1
    <3>2. status' \in Running \cup {Torn}
      BY <2>2
    <3>. HIDE DEF Torn, Running
    <3>. QED BY <3>1, <3>2, Zenon DEF WritingInv
  <2>5. TextInv(t)'
    BY <2>1, <2>2, <2>3, <2>4 DEF TextInv
  <2>. QED BY <1>0, <2>1, <2>2, <2>5
<1>1. CASE ReadPath(t)
  BY <1>1 DEF ReadPath, ThreadTypes, TextInv
<1>2. CASE InstallFails(t)
  <2>1. ToShow(t, "Error", "gone") /\ message'[t].finished
    BY <1>2, ShowEnd DEF InstallFails
  <2>2. ~finished /\ status \in Running /\ UNCHANGED <<path, status, finished, wants, completed>>
    BY <1>2 DEF InstallFails, TextInv
  <2>. QED BY <1>0, <1>2, <2>1, <2>2 DEF InstallFails
<1>3. CASE InstallAccepted(t)
  <2>1. ToShow(t, "Requesting events...", "subscribe") /\ ~message'[t].finished
    BY <1>3, ShowMore DEF InstallAccepted
  <2>2. ~finished /\ status \in Running /\ UNCHANGED <<path, status, finished, wants, completed>>
    BY <1>3 DEF InstallAccepted, TextInv
  <2>. QED BY <1>0, <1>3, <2>1, <2>2 DEF InstallAccepted
<1>4. CASE Subscribe(t)
  <2>0. ~finished /\ status \in Running /\ UNCHANGED <<path, status, finished, wants, completed>>
    BY <1>4 DEF Subscribe, TextInv
  <2>1. CASE pc' = [pc EXCEPT ![t] = "events"] /\ UNCHANGED message
    <3>1. pc'[t] = "events" /\ wants[t] = Requested(path)
      BY <1>4, <2>1 DEF Subscribe, ThreadTypes
    <3>. QED BY <2>0, <3>1 DEF TextInv
  <2>2. CASE AfterNoSubscription(t)
    <3>1. ToShow(t, "Error", "gone") /\ message'[t].finished
      BY <2>2, ShowEnd DEF AfterNoSubscription
    <3>. QED BY <1>0, <1>4, <2>0, <3>1 DEF Subscribe
  <2>. QED BY <1>4, <2>1, <2>2 DEF Subscribe
<1>5. CASE Event(t)
  <2>1. /\ ~finished /\ status \in Running /\ pc[t] = "events"
        /\ UNCHANGED <<path, status, finished, wants>> /\ completed \subseteq completed'
    BY <1>5, EventFacts DEF TextInv
  <2>. QED BY <1>0, <1>5, <2>1, EventFacts
<1>6. CASE StreamEnds(t)
  BY <1>6 DEF StreamEnds, ThreadTypes, TextInv
<1>7. CASE End(t)
  BY <1>7 DEF End, ThreadTypes, TextInv
<1>8. CASE WriteField(t)
  <2>1. /\ DOMAIN message[t] = MessageFields /\ message[t].written \in 0 .. 2 /\ pc[t] = "update"
        /\ Len(WriteOrder) = 3
        /\ WriteOrder[1] = "tear" /\ WriteOrder[2] = "status" /\ WriteOrder[3] = "finished"
    BY <1>8 DEF WriteField, WriteOrder, ThreadTypes
  <2>2. message'[t] = [message[t] EXCEPT !.written = @ + 1]
    BY <1>8 DEF WriteField, ThreadTypes
  <2>3. /\ message'[t].status = message[t].status /\ message'[t].finished = message[t].finished
        /\ message'[t].next = message[t].next /\ message'[t].written = message[t].written + 1
    BY <2>1, <2>2
  <2>4. pc'[t] = IF message[t].written = 2 THEN message[t].next ELSE "update"
    BY <1>8, <2>1 DEF WriteField, ThreadTypes
  <2>5. UNCHANGED <<path, wants, completed, cut>> /\ ~finished /\ WritingInv(t) /\ MessageInv(t)
        /\ wants[t] = Requested(path)
    BY <1>8, <2>1 DEF WriteField, TextInv
  <2>6. MessageInv(t)'
    BY <2>3, <2>5 DEF MessageInv
  <2>7. CASE message[t].written = 0
    <3>1. status' = Torn /\ finished' = finished
      BY <1>8, <2>1, <2>7 DEF WriteField
    <3>2. pc'[t] = "update" /\ WritingInv(t)'
      BY <2>3, <2>4, <2>7, <3>1 DEF WritingInv
    <3>. QED BY <2>5, <2>6, <3>1, <3>2 DEF TextInv
  <2>8. CASE message[t].written = 1
    <3>1. status' = message[t].status /\ finished' = finished
      BY <1>8, <2>1, <2>8 DEF WriteField
    <3>2. pc'[t] = "update" /\ WritingInv(t)'
      BY <2>3, <2>4, <2>8, <3>1 DEF WritingInv
    <3>3. status' \in Running \cup Ending /\ (status' = "Completed" => Requested(path) \in completed')
      BY <2>5, <3>1 DEF MessageInv
    <3>. QED BY <2>5, <2>6, <3>1, <3>2, <3>3 DEF TextInv
  <2>9. CASE message[t].written = 2
    <3>1. status' = message[t].status /\ finished' = message[t].finished /\ pc'[t] = message[t].next
      BY <1>8, <2>1, <2>4, <2>5, <2>9 DEF WriteField, WritingInv
    <3>2. CASE message[t].finished
      <4>1. status' \in Ending /\ pc'[t] \in {"gone", "ended"} /\ finished'
            /\ (status' = "Completed" => Requested(path) \in completed')
        BY <2>5, <3>1, <3>2 DEF MessageInv
      <4>. QED BY <2>5, <4>1 DEF TextInv
    <3>3. CASE ~message[t].finished
      <4>1. status' \in Running /\ pc'[t] \in {"subscribe", "events"} /\ ~finished'
        BY <2>5, <3>1, <3>3 DEF MessageInv
      <4>. QED BY <2>5, <4>1 DEF TextInv
    <3>. QED BY <3>2, <3>3
  <2>10. message[t].written = 0 \/ message[t].written = 1 \/ message[t].written = 2
    BY <2>1
  <2>. QED BY <2>7, <2>8, <2>9, <2>10
<1>. QED BY <1>1, <1>2, <1>3, <1>4, <1>5, <1>6, <1>7, <1>8 DEF ThreadStep

\* The step of a thread.
LEMMA InstallerSteps ==
    ASSUME OverlayInv, NEW t \in Threads, UNCHANGED <<uiPc, overlapped>>, ThreadStep(t)
    PROVE  OverlayInv'
<1>1. /\ ThreadTypes' /\ UNCHANGED <<path, cancelRequested>> /\ Alive(t)
      /\ \A u \in Threads : u # t => pc'[u] = pc[u]
  BY TypeSteps DEF OverlayInv
<1>2. ASSUME ~overlapped PROVE StartInv' /\ AloneInv'
  <2>1. /\ uiPc = "browse" /\ path # NoEntry /\ ~cancelRequested /\ TextInv(t)
        /\ pc[t] # "path" => wants[t] = Requested(path)
        /\ status = "Completed" => Requested(path) \in completed
        /\ \A u \in Threads : Alive(u) => u = t
    BY <1>1, <1>2 DEF OverlayInv, AloneInv
  <2>2. \A u \in Threads : Alive(u)' => u = t
    BY <1>1, <2>1 DEF Alive
  <2>3. pc'[t] \notin {"unborn", "gone"} <=> Alive(t)'
    BY DEF Alive
  <2>4. pc'[t] # "unborn"
    BY <1>1 DEF ThreadStep, ReadPath, InstallFails, InstallAccepted, Subscribe,
       AfterNoSubscription, Event, StreamEnds, End, WriteField, Show, OverlayInv, ThreadTypes,
       IsLast
  <2>. QED BY <1>1, <2>1, <2>2, <2>3, <2>4, TextSteps DEF OverlayInv, StartInv, AloneInv
<1>. QED BY <1>1, <1>2 DEF OverlayInv

\* The invariant is inductive.
LEMMA OverlaySteps == OverlayInv /\ [PkgNext]_allVars => OverlayInv'
<1>. SUFFICES ASSUME OverlayInv, [PkgNext]_allVars PROVE OverlayInv'
  OBVIOUS
<1>1. CASE UNCHANGED allVars
  BY <1>1, BrowsingSteps DEF allVars
<1>2. CASE CirclePressed \/ MovePressed
  BY <1>2, BrowsingSteps DEF CirclePressed, MovePressed
<1>3. CASE CrossPressed \/ ResetStatus \/ CreateThread
  BY <1>3, StartingSteps
<1>4. CASE InstallerStep
  BY <1>4, InstallerSteps DEF InstallerStep, ThreadStep
<1>. QED BY <1>1, <1>2, <1>3, <1>4 DEF PkgNext

\* The overlay names the package that is asked for, and what it says of the end
\* is what the server said of that package, whenever the path comes through to
\* the server as it is.
THEOREM HonestOverlay == PkgSpec => []OverlayIsHonest
<1>1. OverlayInv => OverlayIsHonest
  BY DEF OverlayInv, ThreadTypes, AloneInv, OverlayIsHonest, Drawn, Alive, Requested
<1>. QED BY OverlayStarts, OverlaySteps, <1>1, PTL DEF PkgSpec

\* No end of an installation goes unseen, but that of a stream cut off.
THEOREM EndsAreShown == PkgSpec => []EndIsShown
<1>1. OverlayInv => EndIsShown
  BY DEF OverlayInv, AloneInv, EndIsShown, Drawn
<1>. QED BY OverlayStarts, OverlaySteps, <1>1, PTL DEF PkgSpec
=============================================================================
