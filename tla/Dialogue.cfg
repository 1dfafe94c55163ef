CONSTANTS
  NewLine = "n"
  Blank = " "
  None = None
  Keys <- ConstKeys
  Scalars <- SomeScalars
  Depth = 3
  Letters = {"a", "b", "h", "i", "j", "n", "r", "s", "t", "x", " "}
  Urls = {"u"}
  Boots <- SomeBoots
  Requests <- SomeRequests
  Answers <- SomeAnswers
  MaxHistory = 3
SPECIFICATION Spec
CHECK_DEADLOCK FALSE
INVARIANTS
  TypeOK
  ContinuingIsReplaying
  WhatWasSaidIsAccepted
  AcceptedToolsCompile
  FingerprintIsOfTheDialogue
  ListedModelsAreServed
