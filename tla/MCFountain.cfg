CONSTANTS
  FishNum = 2
  Places <- Grid
  Courses <- FewCourses
  Swims <- FewSwims
  Paces <- FewPaces
SPECIFICATION Spec
PROPERTIES
  KeepsSideAhead
