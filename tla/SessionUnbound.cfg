SPECIFICATION Spec
CONSTANTS
  Users = {alice}
  Anon = anon
  NoOne = noone
  Values = {one}
  Default = default
  Unset = unset
  MaxAttempts = 2
INVARIANT UnboundIsNobody
