CONSTANTS
  Sids = {own, s1}
  OwnSid = own
  Uris = {u1}
  NoUri = NoUri
  MaxRequests = 1
  Updates = TRUE
SPECIFICATION Spec
INVARIANTS MapsAgree EmptyOwnerLeaves
PROPERTIES OthersStaySubscribed SubscribersAreSent OwnerExits
CHECK_DEADLOCK FALSE
