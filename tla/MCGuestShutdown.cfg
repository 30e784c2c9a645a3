CONSTANTS
  t1 = t1
  t2 = t2
  english = english
  female = female
  male = male
  NoText = NoText
  NoVoice = NoVoice
  Text = {t1, t2}
  GenOf <- MCGenOf
  Language = {english}
  Model = {female}
  LanguageOf <- MCLanguageOf
  ModelOf <- MCOneModel
  Chunks = 1
  ToGuestCap = 1
  ToHostCap = 1
SPECIFICATION FairSpec
PROPERTIES ShutdownCompletes
CHECK_DEADLOCK FALSE
