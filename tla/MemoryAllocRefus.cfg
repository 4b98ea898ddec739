SPECIFICATION MaSpec
CONSTANTS
  DEFAULT_SIZE = 4
  Page = 8
  Tailles <- MCTaillesSaines
INVARIANTS RefusJustifie
