CONSTANTS
  jpeg = jpeg
  drawing = drawing
  Images = {jpeg, drawing}
  Possible <- AllForOne
  MaxViewers = 2
  MaxDeaf = 1
  MaxObservers = 4
  Every = every
SPECIFICATION Spec
INVARIANTS TypeOK WalksAreSafe NoneOutlivesItsImage ViewersAreTold ShownIsCurrent
