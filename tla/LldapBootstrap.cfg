SPECIFICATION Spec
CONSTANTS
    Users <- MCUsers
    Groups <- MCGroups
    Readonly = "readonly"
    GroupsOf <- MCGroupsOf
    MaxEdits = 2
    MaxFaults = 2
INVARIANTS UsersAreProvisioned NewBindUserCanSearch
PROPERTIES AutheliaStartsWithItsUser
