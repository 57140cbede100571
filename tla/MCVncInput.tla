----------------------------- MODULE MCVncInput -----------------------------
(***************************************************************************)
(* The three sources of input of the VNC console, the window's size, and   *)
(* the sending of what they and the clipboard make.  They share nothing    *)
(* but the socket, so each behaviour runs one of them: the pointer, the    *)
(* keys of one keyboard, typed text, the window, or the messages.          *)
(***************************************************************************)
EXTENDS VncPointer, VncKeys, VncTyping, VncResize, VncSend

VARIABLES
  part,         \* the source of input that runs
  board         \* the keys of the keyboard, a few at a time

MCCombos == {{"ControlLeft", "KeyA"}}

\* Keys chosen for what each platform does with them.
Boards == [mac     |-> {{"KeyA", "MetaLeft", "CapsLock"}},
           windows |-> {{"ControlLeft", "AltRight"},
                        {"ShiftLeft", "ShiftRight", "Zenkaku"}},
           other   |-> {{"KeyA", "ControlLeft", "Unidentified"}}]

InputInit ==
  /\ PtrInit /\ KeyInit /\ TypInit /\ SendInit /\ ResizeInit
  /\ part \in {"pointer", "keys", "typing", "window", "sending"}
  /\ board \in Boards[platform]
  /\ part # "keys" => platform = "other"
  /\ part # "pointer" => ~viewOnly /\ ~dragView
  /\ part # "window" => /\ window = CHOOSE n \in Sizes : TRUE
                       /\ desk = window /\ view.mode = "off" /\ ~view.viewOnly
  /\ part # "sending" => ~vmServer.extended

\* A finger gets a number that is free: the lowest, or one after those in use.
Numbered ==
  LET used == touching \cup {tracked[i].id : i \in DOMAIN tracked}
  IN  \A f \in touching' \ touching : f = 1 \/ f - 1 \in used

\* Directions matter between two fingers only, and which is which does not: the
\* first to move goes ahead.
AheadFirst ==
  \A i \in DOMAIN tracked' : tracked'[i].moved = "back" =>
    Len(tracked') = 2 /\ tracked'[3 - i].moved = "ahead"

\* Bounds: mouse and fingers are not pressed at the same time, a third finger
\* comes only where the pointer does not drag the viewport, a fourth only where
\* nothing is sent, the View menu is used with at most one finger on the screen,
\* and a press it changed is not followed further.
MostFingers == IF dragView THEN 2 ELSE IF viewOnly THEN 4 ELSE 3

PointerNext ==
  /\ kept # "view"
  /\ PtrNext /\ Numbered /\ AheadFirst
  /\ held' = {} \/ touching' = {}
  /\ Cardinality(touching') <= MostFingers
  /\ viewVars' # viewVars => Cardinality(touching) <= 1

\* The messages: an input is sent among at most two changes of the clipboards.
SendingNext == SendNext /\ (counts'.inputs = 0 \/ counts'.pastes + counts'.copies <= 2)

\* The window: each control of the View menu reports its own change, and the two
\* that are independent of each other are not both on. The server does not see
\* what else happens here: a step taken while a message is on its way might as
\* well have come before the server sent it.
WindowNext ==
  /\ ResizeNext
  /\ Cardinality({k \in DOMAIN view : view'[k] # view[k]}) <= 1
  /\ ~(view'.clip /\ view'.viewOnly)
  /\ replies' = replies => replies = <<>>

InputNext ==
  /\ UNCHANGED <<part, board>>
  /\ \/ part = "pointer" /\ PointerNext /\ UNCHANGED <<keyVars, typVars, resizeVars, sendVars>>
     \/ /\ part = "keys" /\ KeyNext /\ finger' \subseteq board
        /\ UNCHANGED <<ptrVars, typVars, resizeVars, sendVars>>
     \/ part = "typing" /\ TypNext /\ UNCHANGED <<ptrVars, keyVars, resizeVars, sendVars>>
     \/ part = "sending" /\ SendingNext /\ UNCHANGED <<ptrVars, keyVars, typVars, resizeVars>>
     \/ part = "window" /\ WindowNext /\ UNCHANGED <<ptrVars, keyVars, typVars, sendVars>>

InputSpec == InputInit /\ [][InputNext]_<<ptrVars, keyVars, typVars, resizeVars, sendVars, part, board>>
=============================================================================
