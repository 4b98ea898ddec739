SPECIFICATION MaSpec
CONSTANTS
  DEFAULT_SIZE = 4
  Page = 8
  Tailles <- MCTaillesToutes
INVARIANTS LibererExact
