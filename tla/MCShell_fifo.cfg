CONSTANTS
  Reader = {sh}
  Key = {"a", "bs", "nl", "ctrl"}
  Letter = {"a"}
  keymap <- MCKeymap
  capacity_ = 3
  None = none
  Printable = {"a", "A"}
  Backspace = "bs"
  Newline = "nl"
  MAX_CMD_LEN = 1
SPECIFICATION SFairSpec
INVARIANTS STypeOK SlockOwner TakesOldest
PROPERTIES ImplementsFifo ReaderServed
