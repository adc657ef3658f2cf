SPECIFICATION MCSpec
CONSTANTS
  user1 = user1
  user2 = user2
  Kinds = {"exam", "class", "degree", "major", "review"}
  Lectures = {user1}
  Users = {user1, user2}
  Keys = {1, 2}
  Tags = {1, 2}
  Runs = {1, 2, 3}
  MaxListed = 2
  BATCH_SIZE = 2
  MinLiked = 3
  MaxBest = 2
  MaxChanges = 1
  MaxFaults = 1
  Subjects = {"36.1", "36.2", "CS1", "CS2", "-"}
  NumOf <- MCNumOf
  CodeOf <- MCCodeOf
  NoCode = NoCode
  Nothing = Nothing
  Staff = 0
  Semesters <- MCSemesters
  Listings <- MCListings
  OldDepartments <- MCOldDepartments
  Requests <- MCRequests
  JobKinds = {"syncAll", "scholarDB", "examtime", "classtime"}
  Syncs = {1, 2}
  RegistrarChanges = 1
  RegistryFaults = 1
INVARIANTS StaysListed OneVisible
PROPERTIES Repairs Registered
CHECK_DEADLOCK FALSE
