CONSTANTS
  Messengers = {telegram, discord}
  Telegram = telegram
  Discord = discord
  Empty = Empty
  Garbage = Garbage
  DefaultTimeout = 1800
  TextLengths = {1, 4000}
  Cases <- OneDown
SPECIFICATION Spec
INVARIANT OneDownIsTolerated
