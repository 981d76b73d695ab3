CONSTANTS
  Service <- Sso
  Optional = {}
  File <- MCFile
  Reader <- MCReader
  DependsOn <- MCDependsOn
  SecretFile <- MCSecretFile
  Version = {v1, v2}
  Absent = Absent
  None = Absent
  Blank = Blank
  Playbook <- MCPlaybook
  TagSets <- MCTagSets
  MayFail = FALSE
  MaxEdits = 1
SPECIFICATION Spec
SYMMETRY Symmetry
INVARIANT FullDeployAppliesAuthelia
