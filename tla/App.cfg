SPECIFICATION AppSpec
CONSTANTS
  ana = ana
  bob = bob
  Empty = Empty
  Users <- MCUsers
  MaxTaps = 2
  MaxLate = 2
INVARIANTS
  TypeOK
  TimelineOfCurrentUser
  CoveredWhilePending
  FormAgrees
  NeverRefused
  MessageFollowsText
PROPERTIES
  FailureIsShown
  UncoveredInTheEnd
  NoFlash
  OnlyCompleteForms
  NoEmptyPost
