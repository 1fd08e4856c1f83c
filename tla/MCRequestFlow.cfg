CONSTANTS
  r1 = r1
  r2 = r2
  alice = alice
  bob = bob
  own = own
  foreign = foreign
  NoTemplate = NoTemplate
  Requests = {r1, r2}
  User = alice
  Templates = {own, foreign}
  Owner <- MCOwner
  Holes <- MCHoles
  Dtos <- MCDtos
  Models <- MCModels
SPECIFICATION Spec
INVARIANTS
  TypeOK
  PaidIsAnswered
  AnswerIsEarned
  RevokedIsCutOff
  ForeignTemplateIsHidden
CHECK_DEADLOCK FALSE
