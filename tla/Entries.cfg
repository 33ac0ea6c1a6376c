SPECIFICATION Spec
CONSTANTS
  Bodies <- MCBodies
  Required <- MCRequired
  Texts <- MCTexts
  MaxEntries = 2
INVARIANT MemoryIsBody
PROPERTY SavesEveryItem
