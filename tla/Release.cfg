SPECIFICATION FairSpec
CONSTANTS
  Versions = {1, 2}
  Builds = {1}
  Trees <- MCTrees
  FirstTree <- First
  Changelog <- MCChangelog
  AcceptedRisk <- MCAcceptedRisk
  BuildIds = {"i1", "i2", "i3", "i4", "i5"}
  LocalSettings <- MCLocalSettings
  CIEnviron <- MCEnviron
  NoEnvFile <- Nothing
  BundleGaps = {{}, {"odbc"}}
  MaxFaults = 1
  Requests <- MCRequests
  SigningKeys = {"k1", "k9"}
  TrustedKeys = {"k1"}
  ReleaseNotes = {"brief", "cut at a blank"}
  MaxPushes = 1
  FirstFeed <- MCFirstFeed
  InitialRollout = 5
  Rollouts = {100}
  Dates = {"d1"}
  MaxItems = 2
  Attempts = 2
INVARIANTS InstallerIsAsRecorded FeedIsAboutReleases
PROPERTIES KeepsTheContract PushKeepsWhatIsListed InterruptedReleaseResumes PublicReleaseIsDeployed
