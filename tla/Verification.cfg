SPECIFICATION VerificationSpec
CONSTANTS
  mail = mail
  stranger = stranger
  v1 = v1
  v2 = v2
  x1 = x1
  u1 = u1
  Contexts = {"RESET_PASSWORD"}
  Identifiers = {mail, stranger}
  Codes = {v1, v2}
  Tokens = {x1}
  Users = {u1}
  Holders <- MCHolders
  MaxAttempts = 2
  Calls = {c1, c2}
  Requests <- MCRequests
  Starts <- MCStarts
  None = None
SYMMETRY MCSymmetry
INVARIANTS
  VerificationTypeOK
  UsedOnce
  GuessesBounded
  RightCodeAccepted
  AttemptsExpire
PROPERTIES
  OwnCodeDeleted
