SPECIFICATION InputSpec
CONSTANTS
  Fingers = {1, 2, 3, 4}
  Buttons = {"left"}
  Codes = {"KeyA", "ControlLeft", "AltRight", "MetaLeft", "CapsLock", "ShiftLeft",
           "ShiftRight", "Zenkaku", "Unidentified"}
  Holds = {"ControlLeft"}
  Combos <- MCCombos
  MaxPending = 1
  Letters = {x, y}
  Keyless = {z}
  Filler = filler
  Backspace = backspace
  FillLength = 2
  MaxLength = 3
  MaxEdits = 3
  MaxNew = 2
  SQSize = 10
  Texts = {t1, t2}
  Latin1 = {t1}
  Blurred = blurred
  MaxPastes = 2
  MaxCopies = 2
  MaxInputs = 1
  Sizes = {1, 2, 3}
  MaxReplies = 1
INVARIANTS
  FingersForgotten
  ButtonsReleased
  FollowsWindow
  NoKeyStuck
  FieldMirrorsVm
  ServerInStep
  ClipboardsAgree
CHECK_DEADLOCK FALSE
