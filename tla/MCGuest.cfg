CONSTANTS
  t1 = t1
  t2 = t2
  english = english
  female = female
  male = male
  NoText = NoText
  NoVoice = NoVoice
  Text = {t1, t2}
  GenOf <- MCGenOf
  Language = {english}
  Model = {female, male}
  LanguageOf <- MCLanguageOf
  ModelOf <- MCModelOf
  Chunks = 2
  ToGuestCap = 2
  ToHostCap = 1
SPECIFICATION Spec
INVARIANTS RepliesTagged SparesOthers DoneMeansComplete SpeaksInVoice
PROPERTIES StreamsInOrder
CHECK_DEADLOCK FALSE
