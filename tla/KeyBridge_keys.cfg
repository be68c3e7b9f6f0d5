SPECIFICATION Spec
CONSTANTS
  Hardware <- TwoKeys
  Forwarded <- OneKey
  MaxWaiting = 3
INVARIANTS GuestAgrees QueuedIsAnnounced OneLateKey
