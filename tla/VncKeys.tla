------------------------------- MODULE VncKeys -------------------------------
(***************************************************************************)
(* The keys of the VNC console: the keyboard handler of noVNC with what it *)
(* does for the key events macOS and Windows leave out, the keys menu of   *)
(* the page (held modifiers, combinations released by a timer), and the    *)
(* view-only switch that stops keys from being sent.                       *)
(*                                                                         *)
(* A key is a pair of the key's code and the symbol it stood for when it   *)
(* went down; what the VM holds down is a set of such pairs.               *)
(***************************************************************************)
EXTENDS Naturals, Sequences

CONSTANTS
  Codes,        \* codes of the keys of the keyboard, among them modifiers
  Holds,        \* codes of the modifiers the keys menu holds
  Combos,       \* the combinations of the keys menu, sets of codes
  MaxPending    \* bound: combinations not yet released

Platforms == {"mac", "windows", "other"}
Shifts == {"ShiftLeft", "ShiftRight"}
Symbols == {"plain", "shifted"}
SymbolsOf(code) == IF code = "KeyA" THEN Symbols ELSE {"plain"}

ASSUME KeysAssumption == MaxPending \in Nat

VARIABLES
  platform,     \* the browser's operating system
  finger,       \* keys physically down
  unseen,       \* keys physically down whose release the OS will not report
  focus,        \* the screen has the focus
  keyDownList,  \* Keyboard._keyDownList: pairs of code and symbol
  altGrArmed,   \* Keyboard._altGrArmed, its timer running
  server,       \* the pairs down at the VM
  menuHeld,     \* modifiers held by the menu (aria-pressed)
  pending,      \* combinations whose release timer runs, oldest first
  keysOff,      \* RFB._viewOnly
  swallowed,    \* pairs whose release view-only mode kept from the VM
  astray        \* codes whose last event came while the focus was elsewhere
                \* in the page

userVars == <<platform, finger, unseen, focus>>
boardVars == <<keyDownList, altGrArmed>>
keyVars == <<userVars, boardVars, server, menuHeld, pending, keysOff, swallowed, astray>>

Pair(code) == <<code, "plain">>

KeyInit ==
  /\ platform \in Platforms /\ finger = {} /\ unseen = {} /\ focus = TRUE
  /\ keyDownList = {} /\ altGrArmed = FALSE /\ server = {}
  /\ menuHeld = {} /\ pending = <<>> /\ keysOff = FALSE /\ swallowed = {}
  /\ astray = {}

-----------------------------------------------------------------------------
(***************************************************************************)
(* Sending keys, as functions of what one handler changes:                 *)
(* k = [list, armed, server, lost].                                        *)
(***************************************************************************)

Now == [list |-> keyDownList, armed |-> altGrArmed, server |-> server, lost |-> swallowed]

Becomes(k) ==
  /\ keyDownList' = k.list /\ altGrArmed' = k.armed
  /\ server' = k.server /\ swallowed' = k.lost

\* RFB.sendKey for each of the keys; off: view-only.  What the VM holds down in
\* the end does not depend on the order of keys that all go down or all go up.
SendEvery(k, keys, down, off) ==
  IF off THEN [k EXCEPT !.lost = IF down THEN @ ELSE @ \cup (keys \cap k.server)]
  ELSE IF down THEN [k EXCEPT !.server = @ \cup keys]
  ELSE [k EXCEPT !.server = @ \ keys, !.lost = @ \ keys]

SendKey(k, key, down, off) == SendEvery(k, {key}, down, off)

InList(k, code) == \E key \in k.list : key[1] = code
Listed(k, code) == CHOOSE key \in k.list : key[1] = code

\* Keyboard._sendKeyEvent: the release of a key that is not down is dropped.
SendKeyEvent(k, key, down, off) ==
  IF down
    THEN SendKey([k EXCEPT !.list = {l \in @ : l[1] # key[1]} \cup {key}], key, TRUE, off)
  ELSE IF InList(k, key[1])
    THEN SendKey([k EXCEPT !.list = {l \in @ : l[1] # key[1]}], key, FALSE, off)
  ELSE k

PressAndRelease(k, key, off) == SendKeyEvent(SendKeyEvent(k, key, TRUE, off), key, FALSE, off)

InterruptAltGrSequence(k, off) ==
  IF k.armed THEN SendKeyEvent([k EXCEPT !.armed = FALSE], Pair("ControlLeft"), TRUE, off)
  ELSE k

\* _sendKeyEvent, up, for each code that is listed, as the symbol it went down with.
Release(k, codes, off) ==
  LET up == {key \in k.list : key[1] \in codes}
  IN  SendEvery([k EXCEPT !.list = @ \ up], up, FALSE, off)

AllKeysUp(k, off) ==
  LET k1 == InterruptAltGrSequence(k, off)
  IN  Release(k1, {key[1] : key \in k1.list}, off)

\* keydown: Control then AltRight within 50 ms (quick) is Windows' AltGr, one key
\* keeps the symbol it went down with, and a key whose release the OS does
\* not report is released at once.
HandleKeyDown(k, code, symbol, quick) ==
  LET altGr == k.armed /\ code = "AltRight" /\ quick
      k1    == IF altGr THEN [k EXCEPT !.armed = FALSE]
               ELSE InterruptAltGrSequence(k, FALSE)
      key   == IF InList(k1, code) THEN Listed(k1, code)
               ELSE <<code, IF altGr THEN "shifted" ELSE symbol>>
  IN  IF \/ code = "Unidentified"
         \/ platform = "mac" /\ "MetaLeft" \in finger /\ code # "MetaLeft"
         \/ platform = "mac" /\ code = "CapsLock"
         \/ platform = "windows" /\ code = "Zenkaku"
        THEN PressAndRelease(k1, key, FALSE)
      ELSE IF platform = "windows" /\ code = "ControlLeft" /\ ~InList(k1, code)
        THEN [k1 EXCEPT !.armed = TRUE]
      ELSE SendKeyEvent(k1, key, TRUE, FALSE)

\* Mutant: only the Shift that Windows reports goes up.
ReleasedByItself(code) == {code}

\* Windows reports one release for the two Shift keys.
ReleasedBy(code) == IF platform = "windows" /\ code \in Shifts THEN Shifts ELSE {code}

\* keyup
HandleKeyUp(k, code) ==
  LET k1 == InterruptAltGrSequence(k, FALSE)
  IN  IF platform = "mac" /\ code = "CapsLock"
        THEN PressAndRelease(k1, Pair(code), FALSE)
      ELSE Release(k1, ReleasedBy(code), FALSE)

-----------------------------------------------------------------------------
(***************************************************************************)
(* The keyboard.  The handler hears the keys of a focused screen unless    *)
(* the session is view-only (grab, ungrab).                                *)
(***************************************************************************)

Heard == focus /\ ~keysOff

\* What the OS will not report the release of: on macOS a key pressed while
\* Meta is down, on Windows the keys of an input method.
NotReported(code) ==
  \/ platform = "mac" /\ "MetaLeft" \in finger /\ code # "MetaLeft"
  \/ platform = "windows" /\ code = "Zenkaku"
  \/ code = "Unidentified"

\* A key goes down, or repeats.
KeyDown(code, symbol, quick) ==
  /\ ~(platform = "mac" /\ code = "CapsLock")
  /\ finger' = finger \cup {code}
  /\ unseen' = IF NotReported(code) THEN unseen \cup {code} ELSE unseen \ {code}
  /\ astray' = IF Heard THEN astray \ {code}
               ELSE IF focus THEN astray ELSE astray \cup {code}
  /\ IF Heard THEN Becomes(HandleKeyDown(Now, code, symbol, quick))
     ELSE UNCHANGED <<boardVars, server, swallowed>>
  /\ UNCHANGED <<platform, focus, menuHeld, pending, keysOff>>

\* Windows also keeps back the release of a Shift while the other is down.
OsReports(code) ==
  /\ code \notin unseen
  /\ ~(platform = "windows" /\ code \in Shifts /\ (Shifts \ {code}) \cap finger # {})

\* A key is lifted.  The page's own listener comes first: the release of a
\* held modifier's key lets the modifier go.
KeyUp(code) ==
  /\ code \in finger
  /\ finger' = finger \ {code} /\ unseen' = unseen \ {code}
  /\ LET let == focus /\ OsReports(code) /\ code \in menuHeld
         k1  == IF let THEN SendKey(Now, Pair(code), FALSE, keysOff) ELSE Now
     IN  /\ menuHeld' = IF let THEN menuHeld \ {code} ELSE menuHeld
         /\ Becomes(IF Heard /\ OsReports(code) THEN HandleKeyUp(k1, code) ELSE k1)
  /\ astray' = IF focus THEN astray ELSE astray \cup ReleasedBy(code)
  /\ UNCHANGED <<platform, focus, pending, keysOff>>

\* CapsLock on macOS: one event each time it is pressed, a keydown or a keyup.
MacCapsLock(down) ==
  /\ platform = "mac" /\ "CapsLock" \in Codes /\ Heard
  /\ Becomes(IF down THEN HandleKeyDown(Now, "CapsLock", "plain", FALSE)
             ELSE HandleKeyUp(Now, "CapsLock"))
  /\ UNCHANGED <<userVars, menuHeld, pending, keysOff, astray>>

AltGrTimeout ==
  /\ altGrArmed
  /\ Becomes(InterruptAltGrSequence(Now, keysOff))
  /\ UNCHANGED <<userVars, menuHeld, pending, keysOff, astray>>

\* The window loses the focus: keys are lifted where nobody sees it.
Blur ==
  /\ focus
  /\ Becomes(IF keysOff THEN Now ELSE AllKeysUp(Now, FALSE))
  /\ finger' = {} /\ unseen' = {}
  /\ UNCHANGED <<platform, focus, menuHeld, pending, keysOff, astray>>

\* The focus moves within the page, to a menu or a dialog, and back.
FocusMoves ==
  /\ focus' = ~focus
  /\ UNCHANGED <<platform, finger, unseen, boardVars, server, menuHeld, pending,
                 keysOff, swallowed, astray>>

-----------------------------------------------------------------------------
(***************************************************************************)
(* The keys menu and the view-only switch.                                 *)
(***************************************************************************)

SendAll(k, codes, down) == SendEvery(k, {Pair(c) : c \in codes}, down, keysOff)

ReleaseHeld(k) == SendAll(k, menuHeld, FALSE)

Hold(code) ==
  /\ ~keysOff
  /\ Becomes(SendKey(Now, Pair(code), code \notin menuHeld, FALSE))
  /\ menuHeld' = IF code \in menuHeld THEN menuHeld \ {code} ELSE menuHeld \cup {code}
  /\ UNCHANGED <<userVars, pending, keysOff, astray>>

\* sendKeys: press now, release 20 ms later.
SendKeys(codes) ==
  /\ Len(pending) < MaxPending
  /\ Becomes(SendAll(ReleaseHeld(Now), codes, TRUE))
  /\ menuHeld' = {} /\ pending' = Append(pending, codes)
  /\ UNCHANGED <<userVars, keysOff, astray>>

ReleaseKeys ==
  /\ pending # <<>>
  /\ Becomes(SendAll(Now, Head(pending), FALSE))
  /\ pending' = Tail(pending)
  /\ UNCHANGED <<userVars, menuHeld, keysOff, astray>>

SendCtrlAltDel ==
  LET keys == {"ControlLeft", "AltLeft", "Delete"}
      k1   == ReleaseHeld(Now)
  IN  /\ Becomes(IF keysOff THEN k1
                 ELSE SendAll(SendAll(k1, keys, TRUE), keys, FALSE))
      /\ menuHeld' = {}
      /\ UNCHANGED <<userVars, pending, keysOff, astray>>

\* applyView: the held modifiers go up while keys are still sent, then RFB
\* stops sending, and only then lets go of the keyboard.
ViewOnlyOn ==
  /\ ~keysOff
  /\ keysOff' = TRUE /\ menuHeld' = {}
  /\ Becomes(AllKeysUp(ReleaseHeld(Now), TRUE))
  /\ UNCHANGED <<userVars, pending, astray>>

ViewOnlyOff ==
  /\ keysOff /\ keysOff' = FALSE
  /\ UNCHANGED <<userVars, boardVars, server, menuHeld, pending, swallowed, astray>>

KeyNext ==
  \/ \E code \in Codes, quick \in BOOLEAN :
       \E symbol \in SymbolsOf(code) : KeyDown(code, symbol, quick)
  \/ \E code \in Codes : KeyUp(code)
  \/ \E down \in BOOLEAN : MacCapsLock(down)
  \/ AltGrTimeout
  \/ Blur
  \/ FocusMoves
  \/ \E code \in Holds : Hold(code)
  \/ \E codes \in Combos : SendKeys(codes)
  \/ ReleaseKeys
  \/ SendCtrlAltDel
  \/ ViewOnlyOn
  \/ ViewOnlyOff

KeySpec == KeyInit /\ [][KeyNext]_keyVars

-----------------------------------------------------------------------------
(***************************************************************************)
(* Properties.                                                             *)
(***************************************************************************)

\* With no key down, none held by the menu and no timer running, the VM has no
\* key down: on every platform, whatever releases its OS leaves out, but for
\* a key whose last event came while the focus was elsewhere in the page, and
\* a release that the view-only switch swallowed.
NoKeyStuck ==
  finger = {} /\ menuHeld = {} /\ pending = <<>> /\ ~altGrArmed =>
    \A key \in server : key[1] \in astray \/ key \in swallowed
=============================================================================
