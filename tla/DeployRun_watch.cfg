CONSTANTS
  Service <- Watch
  Optional = {"grafana", "alloy"}
  File <- MCFile
  Reader <- MCReader
  DependsOn <- MCDependsOn
  SecretFile <- MCSecretFile
  Version = {v1, v2}
  Absent = Absent
  None = Absent
  Blank = Blank
  Playbook <- MCPlaybook
  TagSets <- MCTagSets
  MayFail = TRUE
  MaxEdits = 2
SPECIFICATION Spec
SYMMETRY Symmetry
INVARIANTS FullRunsConverge
