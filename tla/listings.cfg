SPECIFICATION Spec
CONSTANTS
  Files <- MCFiles
  Home <- MCHome
  Nows <- MCNows
  RecentDays = 180
  Styles = {"ls", "lG", "webstar", "iso", "dos", "eplf", "mlsd"}
  Extras = {"total", "junk", "blank"}
  Tree <- MCTree
  Masks <- MCMasks
  LocalNames <- MCLocalNames
  RmOptions <- MCRmOptions
  Listings <- MCListings
  Loads = {"ask"}
  Systs = {TRUE, FALSE}
  MaxCmds = 4
  MaxTags = 3
  MaxGone = 1
  MaxRms = 2
  MaxLooks = 2
VIEW Unlisted
INVARIANTS TagsSurvive
PROPERTIES EntriesRight RmAsked
