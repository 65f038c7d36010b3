SPECIFICATION Spec
CONSTANTS
  Kinds = {"clear", "tone"}
  Args = {a1, a2}
  Default = a1
  Levels = {0, 1}
  FullLevel = 1
  Spoilt = Spoilt
  NoEffect = NoEffect
  Turn = Turn
  MaxEffects = 2
  MaxStages = 1
\* A freed block is used, or the image is gone.
CHECK_DEADLOCK FALSE
INVARIANTS
  TypeOK
  PreviewIsCurrent
  ClosedShowsPicture
  EditorsExclude
PROPERTY WhatYouSeeIsApplied
