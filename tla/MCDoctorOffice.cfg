\* session.c: simultaneous arrivals and 'D' events, taken in any order, and
\* a late reporter after the quotas are met
CONSTANTS
  Main = Main
  Doctor = Doctor
  NoOne = NoOne
  Arrivals <- MCArrivalsTies
  Quota <- MCQuotaTies
  Cap <- MCCapTies
SPECIFICATION Spec
INVARIANT TypeOK
INVARIANT SeenThenEntered
INVARIANT QueuesInBounds
INVARIANT PrintedTimesRight
PROPERTY EveryVisitorEnters
PROPERTY Termination
