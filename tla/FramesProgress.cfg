\* Progress, and the absence of deadlock, when memory suffices and handlers return
\* without calling the server.
CONSTANTS
  MaxFrames = 2
  Listeners = {l1}
  NoListener = NoListener
  CopyMayFail = FALSE
  HandlerUnsubscribes = FALSE
SPECIFICATION FairSpec
PROPERTIES
  StoredIsDelivered
  CallbackReturns
  FinalizedIsDestroyed
