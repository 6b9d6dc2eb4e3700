SPECIFICATION SchemaSpec
CONSTANTS
  Users = {alice, bob}
  Anon = anon
  NoOne = noone
  Values = {one, two}
  Default = default
  Unset = unset
  MaxAttempts = 2
  Subjects = {root, config}
  Root = root
SYMMETRY Symmetry
INVARIANTS
  TypeOK
  IdentityKept
  OptionsKept
  Protected
  SchemaCurrent
  AliasFound
