CONSTANTS
  Firmwares <- MCFirmwares
  Keys <- MCKeys
  Values = {0, 1}
  Native <- MCNative
  Size <- MCSize
  Default <- MCDefault
  KeyLength <- MCKeyLength
  CfgSize = 44
  Torn = Torn
  Off = Off
  Unsaved = Unsaved
SPECIFICATION Spec
INVARIANTS ForeignKept
