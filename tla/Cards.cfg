\* Up to three of seven certificates, two changes of cards, three days.
CONSTANTS
  Cert <- MCCert
  User = "user"
  MaxStore = 3
  Horizon = 3
  Changes = 2
  WarnDays = 2
  FlowDays = 1
SPECIFICATION Spec
INVARIANTS CardTypeOK ListingRight ServerAgrees UnflaggedIsFit
