CONSTANTS
  MaxText = 7
  MaxBody = 6
  MaxNul = 4
  Mails <- AllMails
SPECIFICATION Spec
CHECK_DEADLOCK FALSE
INVARIANTS FieldsExact DataEndsOnce MailRecovered
