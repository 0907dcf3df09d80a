CONSTANTS
  MaxFrames = 2
  Listeners = {l1}
  NoListener = NoListener
  CopyMayFail = FALSE
  HandlerUnsubscribes = TRUE
SPECIFICATION Spec
INVARIANT HandlerMayUnsubscribe
