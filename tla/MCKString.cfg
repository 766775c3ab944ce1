SPECIFICATION Spec
CONSTANTS
  Switches = {"SHOW", "ALT"}
  Entries <- MCEntries
  Type <- MCType
  Prompt <- MCPrompt
  Defaults <- MCDefaults
  Ranges <- MCRanges
  Typed <- MCTyped
  Files <- MCFiles
  MaxEdits = 3
PROPERTIES EnteredIsShown
