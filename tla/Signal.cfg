CONSTANTS
  NBits    = 3
  File    <- MCFile
  Faulty   = {"parent", "child"}
  MaxKills = 2
  MaxStops = 2
SPECIFICATION FairSpec
PROPERTIES NoSignalMerges ImplementsFileCopy ChildFollowsParent ParentFollowsChild Delivers
CHECK_DEADLOCK FALSE
