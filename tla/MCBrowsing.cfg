SPECIFICATION MCSpec
CONSTANTS
  ua = ua
  ub = ub
  pa = pa
  cs = cs
  hss = hss
  NoWriter = NoWriter
  NoMember = NoMember
  NoDay = NoDay
  Unset = Unset
  Lectures = {1, 2, 3}
  CourseOf <- MCCourseOf
  ProfessorsOf <- MCProfessorsOf
  Writers = {ua, ub}
  ReviewTasks = {t1, t2}
  MaxVersions = 2
  MaxSeconds = 1
  Courses = {1, 2, 3}
  CourseRows <- MCCourseRows
  LectureRows <- MCLectureRows
  Queries <- MCQueries
  Limits = {2}
  Majors = {"CS"}
  KnownTypes = {"MR", "ME", "HSE"}
  Research = {"IS"}
  ThisYear = 2
  MaxTableChanges = 1
  Members = {ua, ub}
  Departments = {cs, hss}
  Picks <- MCPicks
  Wishes = {x, y}
  ChoiceTasks = {c1, c2}
  MajorsOf <- MCMajorsOf
  Days = {1, 2, 4}
  YearOf <- MCYearOf
  FeedTasks = {f1, f2}
  FeedRateMinDays = 3
  MaxReviews = 2
  MaxFeeds = 3
  MaxChoices = 3
INVARIANTS CountsCatchUp Walked FeedsStable ChoicesHold
SYMMETRY Symmetry
CHECK_DEADLOCK FALSE
