CONSTANTS
  u1 = u1
  u2 = u2
  english = english
  female = female
  NoText = NoText
  NoVoice = NoVoice
  None = None
  Utterance = {u1, u2}
  EventsOf <- MCShortEventsOf
  Text <- MCText
  GenOf <- MCGenOf
  Language = {english}
  Model = {female}
  LanguageOf <- MCLanguageOf
  ModelOf <- MCModelOf
  Chunks = 1
  ToGuestCap = 1
  ToHostCap = 1
  QueueCap = 1
  Modulus = 8
  MaxGen = 2
  Spare = 0
  MaxMishaps = 0
SPECIFICATION FairSpec
PROPERTIES Rendered CallsReturn
CHECK_DEADLOCK FALSE
