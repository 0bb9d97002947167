SPECIFICATION Spec
INVARIANTS TypeOK PanelShowsRam
PROPERTIES TextKeepsSymbols TextShownCentred
CONSTANTS
  Threads = {t1}
  NumDigits = 2
  RamSize = 6
  MemSize = 10
  AddressSpan = 8
  Bits = {0, 7}
  Glyph <- MCGlyph
  Mask <- MCMask
  Blank <- Space
  Texts <- MCTexts
  Times <- MCTimes
  Targets <- MCTargets
