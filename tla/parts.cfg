\* The parts around the send engine.
SPECIFICATION Spec
CONSTANTS
  Null = Null
  Off = Off
  QuotaParams <- MCQuota
  MembersParams <- MCMembers
  AudienceParams <- MCAudience
  DripsParams <- MCDrips
  ScheduleParams <- MCSchedule
  RateParams <- MCRate
  FarmParams <- MCFarm
  HostParams <- MCHost
  IntakeParams <- MCIntake
  ScriptParams <- MCScript
  PoolParams <- MCPool
  UpdateParams <- MCUpdate
  ConsoleParams <- MCConsole
  RightsParams <- MCRights
  EditorParams <- MCEditor
  AdsParams <- MCAds
INVARIANTS
  PartTypes
  LimitsHold
  
  
  
  ReachesWhoIsMeant
  OrderSound
  
  OnTime
  WindowsHold
  CertsFresh
  
  
  VerdictStands
  OneBuilder
  PacedPool
  AudienceFits
  SendsSaved
  
  PropertySound
  AdsSound
PROPERTY
  QuietAfterLeave
\* every bound is spent
CHECK_DEADLOCK FALSE
