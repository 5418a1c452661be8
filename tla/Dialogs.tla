------------------------------- MODULE Dialogs -------------------------------
(***************************************************************************)
(* The pad and the overlays that have a cursor: the context menu, the      *)
(* quick places and the settings; and the text dialog of the system, with  *)
(* the name it is opened on and the one it gives back.                     *)
(*                                                                         *)
(* A frame reads the pad, looks at the text dialog, and gives at most one  *)
(* button to the overlay that is open.  What an item of the menu and the   *)
(* answer to a question do to the files is App; here any of the overlays   *)
(* may follow.  The values of the settings are left out.                   *)
(***************************************************************************)
EXTENDS Names, FiniteSets

CONSTANTS Samples,       \* the names a file may have
          BufferCount,   \* elements of input_ (256)
          Readings,      \* the sets of buttons the pad may report
          PlaceCounts    \* how many drives may be mounted

ASSUME DialogsAssumption ==
    /\ \A name \in Samples : name \in Seq(0..255) /\ IsValidBytes(name) /\ Len(name) < BufferCount
    /\ BufferCount \in Nat \ {0} /\ PlaceCounts \subseteq Nat

VARIABLES
    pc,
    current, previous,          \* the buttons of this frame and the last
    overlay,                    \* the overlay that gets the pad
    menuIndex, menuEnabled,     \* indices from 0, as in the code; a menu that
                                \* is closed has nothing enabled
    placeCount, placeIndex,     \* quickPlaces_.size(), quickPlacesIndex_
    settingsIndex,
    name, input,                \* the file to rename, the buffer of the dialog
    value,                      \* textInputValue_
    answers                     \* how often each button that is held was answered

pad   == <<current, previous, answers>>
menu  == <<menuIndex, menuEnabled>>
place == <<placeCount, placeIndex>>
text  == <<name, input, value>>
vars  == <<pc, pad, overlay, menu, place, settingsIndex, text>>

MenuItems == <<"Refresh", "CycleSort", "Properties", "NewFolder", "Rename",
               "Copy", "Cut", "Paste", "Delete">>
ItemCount == Len(MenuItems)
Item == MenuItems[menuIndex + 1]

Buttons == UNION Readings

Init ==
    /\ pc = "update" /\ overlay = "Browsing"
    /\ current = {} /\ previous = {} /\ answers = [b \in Buttons |-> 0]
    /\ menuIndex = 0 /\ menuEnabled = {}
    /\ placeCount = 0 /\ placeIndex = 0 /\ settingsIndex = 0
    /\ name = <<>> /\ input = <<>> /\ value = <<>>

(***************************************************************************)
(* Input.                                                                  *)
(***************************************************************************)
StillHeld == [b \in Buttons |-> IF b \in current' THEN answers[b] ELSE 0]

\* A pad that cannot be read keeps its last state, which becomes the previous
\* one, too.  Mutant: the previous state is only replaced by a new reading.
MutUpdate ==
    \/ UNCHANGED pad
    \/ current' \in Readings /\ previous' = current /\ answers' = StillHeld
Update ==
    /\ current' \in Readings \cup {current}
    /\ previous' = current
    /\ answers' = StillHeld

\* The head of a frame: the pad, and the result of an operation that has ended.
ReadPad ==
    /\ pc = "update" /\ pc' = "text"
    /\ Update
    /\ overlay' \in IF overlay = "Finished" THEN {"Browsing", "Error"} ELSE {overlay}
    /\ UNCHANGED <<menu, place, settingsIndex, text>>

\* The worker thread: the state of the operation changes between two looks at it.
OperationEnds ==
    /\ pc \in {"update", "text"}
    /\ overlay = "Running" /\ overlay' = "Finished"
    /\ UNCHANGED <<pc, pad, menu, place, settingsIndex, text>>

Pressed(button) == button \in current \ previous

(***************************************************************************)
(* The text dialog.                                                        *)
(***************************************************************************)
\* A new folder is named from nothing, a file from its own bytes.
OpenTextInput ==
    /\ name' \in IF Item = "Rename" THEN Samples ELSE {<<>>}
    /\ input' = WideFromUtf8(name', BufferCount)
    /\ UNCHANGED value

\* ProcessTextInputResult(): the dialog is still open, was accepted as it was
\* opened (what else a user types is in App), was canceled, or failed.
UpdateTextInput ==
    /\ pc = "text"
    /\ \/ pc' = "handle" /\ UNCHANGED <<overlay, text>>
       \/ /\ overlay = "TextInput" /\ overlay' = "Browsing"
          /\ pc' = "renamed"
          /\ value' = Utf8FromWide(input)
          /\ UNCHANGED <<name, input>>
       \/ /\ overlay = "TextInput" /\ overlay' = "Browsing"
          /\ pc' = "handle"
          /\ name' = <<>> /\ input' = <<>> /\ UNCHANGED value
    /\ UNCHANGED <<pad, menu, place, settingsIndex>>

\* The text is used up; an invalid or a taken name is an error.
UseText ==
    /\ pc = "renamed" /\ pc' = "handle"
    /\ overlay' \in IF IsValidBytes(value) THEN {"Browsing", "Error"} ELSE {"Error"}
    /\ name' = <<>> /\ input' = <<>> /\ value' = <<>>
    /\ UNCHANGED <<pad, menu, place, settingsIndex>>

(***************************************************************************)
(* HandleInput(): of the buttons pressed, the first the overlay asks for.  *)
(***************************************************************************)
Chain ==
    CASE overlay = "Browsing"    -> <<"up", "down", "cross", "circle", "triangle", "options", "touch">>
      [] overlay = "Running"     -> <<"circle">>
      [] overlay = "ContextMenu" -> <<"up", "down", "circle", "triangle", "cross">>
      [] overlay = "QuickPlaces" -> IF placeCount > 0
                                    THEN <<"up", "down", "cross", "circle", "triangle">>
                                    ELSE <<"up", "down", "circle", "triangle">>
      [] overlay = "Settings"    -> <<"up", "down", "cross", "circle", "touch">>
      [] overlay = "Properties"  -> <<"circle", "triangle">>
      [] overlay \in {"Error", "Question", "Finished"} -> <<"cross", "circle">>
      [] overlay \in {"TextInput", "Crashed"} -> <<>>

Answers(button) ==
    /\ pc = "handle" /\ pc' = "update"
    /\ Pressed(button)
    /\ \E i \in DOMAIN Chain : /\ Chain[i] = button
                               /\ \A j \in 1..(i - 1) : ~Pressed(Chain[j])
    /\ answers' = [answers EXCEPT ![button] = Least(@ + 1, 2)]
    /\ UNCHANGED <<current, previous>>

NoAnswer ==
    /\ pc = "handle" /\ pc' = "update"
    /\ \A i \in DOMAIN Chain : ~Pressed(Chain[i])
    /\ UNCHANGED <<pad, overlay, menu, place, settingsIndex, text>>

\* The browser moves, opens or goes back, which changes no overlay.
InBrowser ==
    /\ overlay = "Browsing"
    /\ \E button \in {"up", "down", "cross", "circle"} : Answers(button)
    /\ UNCHANGED <<overlay, menu, place, settingsIndex, text>>

\* Circle cancels, which ends nothing yet; a result that is seen is acknowledged.
InOperation ==
    /\ \/ overlay = "Running" /\ Answers("circle") /\ UNCHANGED overlay
       \/ overlay = "Finished" /\ (Answers("cross") \/ Answers("circle")) /\ overlay' = "Browsing"
    /\ UNCHANGED <<menu, place, settingsIndex, text>>

\* What can be chosen is found out when the menu is opened.
Enabled(hasSelection, hasClipboard) ==
    {i \in 0..(ItemCount - 1) :
        LET item == MenuItems[i + 1]
        IN  /\ item \in {"Properties", "Rename", "Copy", "Cut", "Delete"} => hasSelection
            /\ item = "Paste" => hasClipboard}

Smallest(S) == CHOOSE i \in S : \A j \in S : i <= j

OpenMenu ==
    /\ overlay = "Browsing" /\ Answers("triangle")
    /\ \E hasSelection, hasClipboard \in BOOLEAN :
           menuEnabled' = Enabled(hasSelection, hasClipboard)
    /\ menuIndex' = Smallest(menuEnabled')
    /\ overlay' = "ContextMenu"
    /\ UNCHANGED <<place, settingsIndex, text>>

\* Move(): on to the next item that is enabled, round the ends.
\* Mutant: disabled items are not skipped.
MutBeside(delta) == (menuIndex + delta) % ItemCount
Beside(delta) ==
    LET at(k) == (menuIndex + delta * k) % ItemCount
    IN  at(Smallest({k \in 1..ItemCount : at(k) \in menuEnabled \/ k = ItemCount}))

MoveInMenu ==
    /\ overlay = "ContextMenu"
    /\ \E move \in {<<"up", -1>>, <<"down", 1>>} :
           Answers(move[1]) /\ menuIndex' = Beside(move[2])
    /\ UNCHANGED <<overlay, menuEnabled, place, settingsIndex, text>>

Close == menuIndex' = 0 /\ menuEnabled' = {}

CloseMenu ==
    /\ overlay = "ContextMenu" /\ (Answers("circle") \/ Answers("triangle"))
    /\ overlay' = "Browsing" /\ Close
    /\ UNCHANGED <<place, settingsIndex, text>>

\* A text dialog that does not open, and a clipboard that is not filled, leave
\* the menu open below the error.
ChooseItem ==
    /\ overlay = "ContextMenu" /\ Answers("cross")
    /\ UNCHANGED <<place, settingsIndex>>
    /\ \/ /\ menuIndex \notin menuEnabled \/ Item \in {"Refresh", "CycleSort"}
          /\ UNCHANGED <<overlay, menu, text>>
       \/ /\ menuIndex \in menuEnabled /\ Item \in {"NewFolder", "Rename"}
          /\ overlay' = "TextInput" /\ OpenTextInput /\ Close
       \/ /\ menuIndex \in menuEnabled /\ Item \in {"NewFolder", "Rename", "Copy", "Cut"}
          /\ overlay' = "Error" /\ UNCHANGED <<menu, text>>
       \/ /\ menuIndex \in menuEnabled /\ Item \in {"Properties", "Copy", "Cut", "Paste", "Delete"}
          /\ overlay' \in CASE Item = "Properties" -> {"Properties", "Browsing"}
                           [] Item = "Paste"      -> {"Running", "Finished", "Question", "Error"}
                           [] Item = "Delete"     -> {"Question", "Browsing"}
                           [] OTHER               -> {"Browsing"}
          /\ Close /\ UNCHANGED text

\* The delete dialog may ask once more, and what it starts may fail.
CloseMessage ==
    /\ \/ overlay = "Properties" /\ (Answers("circle") \/ Answers("triangle")) /\ overlay' = "Browsing"
       \/ /\ overlay = "Error" /\ (Answers("cross") \/ Answers("circle"))
          /\ overlay' = IF menuEnabled = {} THEN "Browsing" ELSE "ContextMenu"
       \/ overlay = "Question" /\ Answers("circle") /\ overlay' = "Browsing"
       \/ overlay = "Question" /\ Answers("cross") /\ overlay' \in {"Running", "Finished", "Question", "Error"}
    /\ UNCHANGED <<menu, place, settingsIndex, text>>

(***************************************************************************)
(* The quick places.                                                       *)
(***************************************************************************)
OpenPlaces ==
    /\ overlay = "Browsing" /\ Answers("options")
    /\ overlay' = "QuickPlaces"
    /\ placeCount' \in PlaceCounts /\ placeIndex' = 0
    /\ UNCHANGED <<menu, settingsIndex, text>>

PlacesUp ==
    /\ overlay = "QuickPlaces" /\ Answers("up")
    /\ placeIndex' = IF placeIndex <= 0 THEN placeCount - 1 ELSE placeIndex - 1
    /\ UNCHANGED <<overlay, menu, placeCount, settingsIndex, text>>

\* A remainder by zero ends the process.
PlacesDown ==
    /\ overlay = "QuickPlaces" /\ Answers("down")
    /\ IF placeCount = 0
       THEN overlay' = "Crashed" /\ UNCHANGED placeIndex
       ELSE placeIndex' = (placeIndex + 1) % placeCount /\ UNCHANGED overlay
    /\ UNCHANGED <<menu, placeCount, settingsIndex, text>>

ClosePlaces ==
    /\ overlay = "QuickPlaces"
    /\ \E button \in {"cross", "circle", "triangle"} : Answers(button)
    /\ overlay' = "Browsing" /\ placeCount' = 0 /\ placeIndex' = 0
    /\ UNCHANGED <<menu, settingsIndex, text>>

(***************************************************************************)
(* The settings.                                                           *)
(***************************************************************************)
OpenSettings ==
    /\ overlay = "Browsing" /\ Answers("touch")
    /\ overlay' = "Settings" /\ settingsIndex' = 0
    /\ UNCHANGED <<menu, place, text>>

MoveInSettings ==
    /\ overlay = "Settings"
    /\ \/ Answers("up") /\ settingsIndex' = IF settingsIndex <= 0 THEN 1 ELSE settingsIndex - 1
       \/ Answers("down") /\ settingsIndex' = (settingsIndex + 1) % 2
       \/ Answers("cross") /\ UNCHANGED settingsIndex     \* changes a value
    /\ UNCHANGED <<overlay, menu, place, text>>

CloseSettings ==
    /\ overlay = "Settings" /\ (Answers("circle") \/ Answers("touch"))
    /\ overlay' = "Browsing"
    /\ UNCHANGED <<menu, place, settingsIndex, text>>

Handle ==
    \/ NoAnswer \/ InBrowser \/ InOperation
    \/ OpenMenu \/ MoveInMenu \/ CloseMenu \/ ChooseItem \/ CloseMessage
    \/ OpenPlaces \/ PlacesUp \/ PlacesDown \/ ClosePlaces
    \/ OpenSettings \/ MoveInSettings \/ CloseSettings

Next == ReadPad \/ OperationEnds \/ UpdateTextInput \/ UseText \/ Handle
Spec == Init /\ [][Next]_vars

-----------------------------------------------------------------------------
\* The cursor stands on something that can be chosen: an item of the menu that
\* was enabled when it was opened, a place in the list, one of two settings
\* (Move(), HandleQuickPlacesInput() with a drive, HandleSettingsInput()).
CursorOnEnabled ==
    /\ overlay = "ContextMenu" => menuIndex \in menuEnabled
    /\ overlay = "QuickPlaces" /\ placeCount > 0 => placeIndex \in 0..(placeCount - 1)
    /\ settingsIndex \in {0, 1}

\* A button is answered once for every time it is pressed, in whichever overlay
\* and however often the pad cannot be read meanwhile: the Cross that opened a
\* question does not answer it as well (Input::Update, Pressed).
OnePressOneAnswer == \A button \in Buttons : answers[button] <= 1

\* With no drive mounted the overlay says so and still offers "Up/Down navigate"
\* (modal_view.cpp:117, :144): pressing them must not end the program.
EmptyPlacesAnswer == overlay # "Crashed"

\* A name too long for its place is cut between two of its parts: no escape is
\* shown in halves, although the name may have a "\x" of its own, and at most
\* three characters that had room are given up (TextRenderer::Truncate).
CutBetweenParts ==
    LET parts == Display(name)
        full  == DisplayText(parts)
        kept  == {DisplayText(SubSeq(parts, 1, n)) : n \in 0..Len(parts)}
    IN  \A limit \in 0..(Len(full) - 1) :
            \E head \in kept : /\ Truncate(full, limit) = head \o Dots
                               /\ limit \in Len(head)..(Len(head) + 3)

\* The listing shows every byte of a name once, in order, and a name is marked
\* as not shown faithfully exactly when it is not UTF-8 or has control bytes
\* (DisplayCodec::DecodeBytes); cut short, it ends between two parts.
DisplayIsFaithful ==
    LET shown == Display(name)
    IN  /\ Concat([i \in DOMAIN shown |-> shown[i].bytes]) = name
        /\ Lossy(name) <=> ~WellFormed(name) \/ \E i \in DOMAIN name : IsControl(name[i])
        /\ CutBetweenParts

\* A name that is UTF-8 comes back from the rename dialog as it was put in, the
\* longest one included (WideFromUtf8, Utf8FromWide, the size of input_).
AcceptedNameIsKept == pc = "renamed" /\ WellFormed(name) => value = name
=============================================================================
