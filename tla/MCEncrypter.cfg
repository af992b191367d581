SPECIFICATION Spec
CONSTANTS
  Texts <- MCTexts
  Corrupt <- MCCorrupt
  Memory <- MCMemory
  Block = 2
  Key = 7
INVARIANTS
  EncryptsOnlyItsText
  DecryptUndoesEncrypt
  DecodeUndoesEncode
  StopsAtTerminator
