SPECIFICATION Spec
CONSTANTS
  Lexicon <- MCLexicon
  Scenarios <- Malformed
INVARIANTS MalformedRefused
CHECK_DEADLOCK FALSE
