CONSTANTS
  Octets <- MCOctets
  Sizes <- MCSizes
  Uptimes <- MCUptimes
  FsPresets <- MCFsPresets
  OsTypes <- MCOsTypes
  FsNames <- MCFsNames
  HwBytes <- MCHwBytes
  NameBufLen = 4
  UserAnswers <- MCUserAnswers
  GroupAnswers <- MCGroupAnswers
  Gids <- MCGids
  CredStatuses <- MCCredStatuses
  RlimitAnswers <- MCRlimitAnswers
  FqdnWorlds <- MCFqdnWorlds
  NoHostent = NoHostent
  Errs <- MCErrs
  LibTexts <- MCLibTexts
  OsTexts <- MCOsTexts
  Pids <- MCPids
  KillAnswers <- MCKillAnswers
  SIGAR_START_ERROR = 20000
  SIGAR_OS_START_ERROR = 40000
  SIGAR_ENOTIMPL = 20001
  ErrbufLen = 16

SPECIFICATION Spec

INVARIANT InetNtoaDotted
INVARIANT FormatSizeAccurate
INVARIANT UptimeReadsBack
INVARIANT FsTypeNamed
INVARIANT HwaddrReadsBack
INVARIANT CredNamesTerminated
INVARIANT RlimitFaithful
INVARIANT FqdnNameCut
INVARIANT StrerrorText
