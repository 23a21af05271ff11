CONSTANTS
  Messengers = {telegram, discord}
  Telegram = telegram
  Discord = discord
  Empty = Empty
  Garbage = Garbage
  DefaultTimeout = 1800
  TextLengths = {1, 4000}
  Cases <- AllCases
SPECIFICATION Spec
INVARIANTS
  TypeOK
  AnswerIsThePressed
  FitsTheMessenger
  SentAsAsked
