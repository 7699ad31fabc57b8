CONSTANTS
  MaxLen = 11
  Letters = {"a"}
  MaxTyped = 6
  Commands <- NamesMC
  Names <- NamesMC
SPECIFICATION Prompt
INVARIANT NoSlashAtEnd
CHECK_DEADLOCK FALSE
