SPECIFICATION Spec
CONSTANTS
  SHELL_BUFFER_SIZE = 11
  SHELL_MAX_ARGS = 4
  Nibbles = 2
  commands <- MCcommands
  BIOS_END = 16
  Regions <- MCRegions
  Lines <- MCLines
  Values = {0, 10, 175}
INVARIANTS ArgsAreWords NumbersExact
PROPERTIES PrintedReadBack LinesAnswered
