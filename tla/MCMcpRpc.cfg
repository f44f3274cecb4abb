SPECIFICATION Spec
CONSTANTS
  Lexicon <- MCLexicon
  Scenarios <- Legals
INVARIANTS ScannerAgrees AnswersAreJson NotificationsAreSilent EchoIsVerbatim
CHECK_DEADLOCK FALSE
