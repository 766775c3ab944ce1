SPECIFICATION MCSpec
CONSTANTS
  Components = {"input", "menu", "list", "pager", "ninput", "auto", "wrapper", "strings", "devices"}
  Chars = {"a", "-"}
  Invalid = "-"
  Space = " "
  box_width = 2
  MAX_LEN = 4
  MenuItems = 5
  MenuRows = 3
  HotKeys <- MCLetters
  MenuCalls = 2
  ListItems = 5
  ListHeight = 3
  Letters <- MCLetters
  Comments = {0, 3}
  Texts <- MCTexts
  PagerHeight = 4
  PagerMargin = 1
  JUMP_NB = 2
  PagerOpens = 3
  NL = "n"
  prompt_width = 2
  MaxLen = 4
  Syms = {"M", "W"}
  SymType <- MCSymType
  ConfigTexts = {"a", "n"}
  NoValue = "-"
  ConfigEdits = 2
  unsafe_opts <- MCOptions
  Unsafe = {"/usr/lib"}
  Arguments <- MCArguments
  MaxArgs = 3
  DeviceLines <- MCDeviceLines
  MaxLines = 3
  TargetFiles <- MCTargetFiles
  Ids = {"0", "5"}
  Limit = 1048575
CHECK_DEADLOCK FALSE
INVARIANTS InputLinesAreTrue BuildSeesConfig WrapperIsSound TableIsApplied
PROPERTIES MenuIsTrue ListIsTrue PagerIsTrue TextsAreKept
