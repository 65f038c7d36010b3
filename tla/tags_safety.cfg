CONSTANTS
  Images = {a, b}
  Untitled = {b}
  MaxTags = 2
  None = none
VIEW View
SPECIFICATION Spec
INVARIANTS TypeOK HighlightsAreTags TitleIsTarget
PROPERTY DeletesWhatWasAsked
\* The use of a table that is not there ends a behaviour.
CHECK_DEADLOCK FALSE
