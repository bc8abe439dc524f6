SPECIFICATION FairSpec
CONSTANTS
  Admin = admin
  Mailbox = mailbox
  Services = {s1, s2}
  Nobody = nobody
  Ids = {r1}
  MaxAdministration = 3
INVARIANT AnswersAreByExecutors
PROPERTIES NoAdminNoGrant AnswersAreTaken
CHECK_DEADLOCK FALSE
