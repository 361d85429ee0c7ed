SPECIFICATION Spec
CONSTANTS
  Procs = {p1, p2, p3}
  Ports = {a, b}
  Displays = {0, 1}
  None = None
  ExecMethod = ""
  FileMethod = "ssh"
  QMPOverTCP = FALSE
  Firmware = TRUE
  TPM = FALSE
SYMMETRY Symmetry
INVARIANTS TypeOK ConfigTellsComplete DaemonFilesOfSetups ConflictOnlyByRace QuietMeansWhole
