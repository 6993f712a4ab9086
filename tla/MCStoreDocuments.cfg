SPECIFICATION Spec
CONSTANTS
  UserSession = {us1, us2}
  Connection = {c1}
  Family = {"__stu", "p"}
  Data = {d1}
  Writer = {w1, w2}
  Stream = {}
  MaxSequence = 2
  MaxOperation = 1
SYMMETRY Symmetry
INVARIANTS
  TypeOK
  OwnersAreMembers
PROPERTIES
  MailSurvivesRecipient
CHECK_DEADLOCK FALSE
