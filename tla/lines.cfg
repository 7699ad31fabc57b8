CONSTANTS
  MaxLen = 11
  Letters = {"a"}
  MaxTyped = 6
  Commands <- NamesMC
  Names <- NamesMC
SPECIFICATION Prompt
INVARIANTS TypeOK InRoom Split Freed IndicesInLine  
CHECK_DEADLOCK FALSE
