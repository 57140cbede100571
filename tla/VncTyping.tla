------------------------------ MODULE VncTyping ------------------------------
(***************************************************************************)
(* Typed text of the VNC console page: the text field of a touch device's  *)
(* keyboard, whose edits are typed on the VM as Backspaces and characters, *)
(* and the text of the clipboard dialog, typed key by key at a typist's    *)
(* pace through one queue of promises.                                     *)
(***************************************************************************)
EXTENDS Integers, Sequences, SequencesExt

CONSTANTS
  Letters,      \* characters some key of the layout types
  Keyless,      \* characters no key of the layout types
  Filler,       \* the '_' the field is filled with
  Backspace,
  FillLength,   \* how many the field is filled with (100 in the code)
  MaxLength,    \* the field is filled anew past this length (200)
  MaxEdits,     \* bound: edits of the field and texts of the dialog
  MaxNew        \* bound: characters one of them adds

ASSUME TypingAssumption ==
  /\ FillLength \in Nat \ {0} /\ MaxLength \in Nat /\ MaxEdits \in Nat /\ MaxNew \in Nat
  /\ FillLength < MaxLength
  /\ Letters \cap Keyless = {} /\ {Filler, Backspace} \cap (Letters \cup Keyless) = {}

VARIABLES
  lastText,     \* lastText, and the value of the field between two edits
  typing,       \* the promise chain: characters still to be typed
  vmText,       \* the text on the VM's line
  deaf,         \* view-only: typed keys are dropped
  apart,        \* since the field was filled, a key went past it to the VM, or a
                \* key of its own never got there
  edits

typVars == <<lastText, typing, vmText, deaf, apart, edits>>

Filled == [i \in 1..FillLength |-> Filler]

TypInit ==
  /\ lastText = Filled /\ typing = <<>>
  /\ vmText = [i \in 1..(MaxEdits * MaxLength) |-> Filler]
  /\ deaf = FALSE /\ apart = FALSE /\ edits = 0

\* typeText: all of the text or, when a character has no key, nothing.
TypeText(text) ==
  IF \E i \in DOMAIN text : text[i] \in Keyless THEN typing ELSE typing \o text

\* The longest common beginning of two texts.
Same(a, b) ==
  CHOOSE n \in 0..Len(a) :
    /\ n <= Len(b) /\ SubSeq(a, 1, n) = SubSeq(b, 1, n)
    /\ n = Len(a) \/ n = Len(b) \/ a[n + 1] # b[n + 1]

\* What changed since the last input, as Backspaces and characters.
Change(text) ==
  LET same == Same(text, lastText)
  IN  [i \in 1..(Len(lastText) - same) |-> Backspace] \o SubSeq(text, same + 1, Len(text))

Refused(text) == \E i \in DOMAIN Change(text) : Change(text)[i] \in Keyless
Refills(text) == text = <<>> \/ Len(text) > MaxLength

\* Mutant: the field keeps a character the VM did not get.
InputKeepsRefused(text) ==
  /\ edits < MaxEdits /\ edits' = edits + 1
  /\ typing' = TypeText(Change(text))
  /\ lastText' = IF Refills(text) THEN Filled ELSE text
  /\ apart' = (apart /\ ~Refills(text))
  /\ UNCHANGED <<vmText, deaf>>

\* The input event of the field.  With a character that has no key the field
\* goes back to what the VM has.
Input(text) ==
  /\ edits < MaxEdits /\ edits' = edits + 1
  /\ typing' = TypeText(Change(text))
  /\ lastText' = IF Refused(text) THEN lastText ELSE IF Refills(text) THEN Filled ELSE text
  /\ apart' = (apart /\ (Refused(text) \/ ~Refills(text)))
  /\ UNCHANGED <<vmText, deaf>>

\* "Type" in the clipboard dialog: the same queue, after what is still typed.
TypeClipboard(text) ==
  /\ edits < MaxEdits /\ edits' = edits + 1
  /\ typing' = TypeText(text) /\ apart' = (apart \/ typing' # typing)
  /\ UNCHANGED <<lastText, vmText, deaf>>

\* What a key does to the line of the VM.
Typed(line, character) ==
  IF character = Backspace THEN SubSeq(line, 1, Len(line) - 1) ELSE Append(line, character)

\* The line once all of the keys are typed.
LineAfter(line, keys) ==
  LET after[n \in 0..Len(keys)] == IF n = 0 THEN line ELSE Typed(after[n - 1], keys[n])
  IN  after[Len(keys)]

\* typeKeys, 25 ms after the key before it; sendKey drops it in view-only mode.
TypeKeys ==
  /\ typing # <<>>
  /\ typing' = Tail(typing)
  /\ vmText' = IF deaf THEN vmText ELSE Typed(vmText, Head(typing))
  /\ apart' = (apart \/ deaf)
  /\ UNCHANGED <<lastText, deaf, edits>>

\* The field's own Keyboard: a key reported as a key event is sent at once, ahead
\* of what is still to be typed, and its stopEvent keeps it from the field.
KeyEvent(character) ==
  /\ edits < MaxEdits /\ edits' = edits + 1
  /\ vmText' = IF deaf THEN vmText ELSE Typed(vmText, character)
  /\ apart' = (apart \/ ~deaf)
  /\ UNCHANGED <<lastText, typing, deaf>>

SwitchViewOnly ==
  /\ deaf' = ~deaf
  /\ UNCHANGED <<lastText, typing, vmText, apart, edits>>

\* An edit keeps a beginning of the field and changes the rest.
Edits == UNION {{SubSeq(lastText, 1, n) \o s : n \in 0..Len(lastText)} :
                  s \in UNION {[1..k -> Letters \cup Keyless] : k \in 0..MaxNew}}

TypNext ==
  \/ \E text \in Edits : Input(text)
  \/ \E text \in [1..MaxNew -> Letters \cup Keyless] : TypeClipboard(text)
  \/ TypeKeys
  \/ \E character \in Letters \cup {Backspace} : KeyEvent(character)
  \/ SwitchViewOnly

TypSpec == TypInit /\ [][TypNext]_typVars

-----------------------------------------------------------------------------
\* What the field shows of the text typed since it was last filled.
Shown ==
  LET fill == CHOOSE n \in 0..Len(lastText) :
                /\ n > 0 => lastText[n] = Filler
                /\ \A i \in (n + 1)..Len(lastText) : lastText[i] # Filler
  IN  SubSeq(lastText, fill + 1, Len(lastText))

\* The field and the VM do not drift apart: once what is queued is typed, the
\* VM's line ends in the text the field shows, whatever was edited, refused or
\* refilled while keys were still being typed. Since the field was filled last
\* view-only has dropped no key then, no text of the dialog was typed, and no key
\* of the field was reported as a key event: such a key the VM gets and the field
\* does not. [the input handler, typeText, typeKeys, keyboard.onkeyevent]
FieldMirrorsVm ==
  apart \/ IsSuffix(Shown, LineAfter(vmText, typing))
=============================================================================
