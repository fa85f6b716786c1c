CONSTANTS
  FishNum = 3
  Places <- FewPlaces
  Courses <- FewCourses
  MaxVisits = 2
SPECIFICATION Spec
INVARIANTS
  TypeOK
  GroupsOfThisVisit
  LedByTheFarthest
PROPERTY LeadersFleeApart
