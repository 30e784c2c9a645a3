CONSTANTS
  u1 = u1
  u2 = u2
  english = english
  female = female
  NoText = NoText
  NoVoice = NoVoice
  None = None
  Utterance = {u1, u2}
  EventsOf <- MCEventsOf
  Text <- MCText
  GenOf <- MCGenOf
  Language = {english}
  Model = {female}
  LanguageOf <- MCLanguageOf
  ModelOf <- MCModelOf
  Chunks = 1
  ToGuestCap = 2
  ToHostCap = 1
  QueueCap = 1
  Modulus = 8
  MaxGen = 3
  Spare = 1
  MaxMishaps = 2
SPECIFICATION Spec
INVARIANTS TypeOK CancelsOnlyUnwanted AwaitedNotLost
PROPERTIES AnnouncedWhenHeard KeepsDiscipline Announces
CHECK_DEADLOCK FALSE
