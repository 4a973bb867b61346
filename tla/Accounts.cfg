SPECIFICATION Spec
CONSTANTS
  Handlers = {h1, h2}
  Ids = {admin, other}
  Names = {adm, bob}
  Passwords = {old, new}
  NoId = NoId
  NoUser = NoUser
  Keep = Keep
  Unsure = Unsure
  new = new
  Patches <- SomePatches
  FirstPasswords = {old}
  AdminId = admin
  AdminName = adm
  AdminPassword = old
  Stores = {"memory", "postgres"}
  StoreErrors = TRUE
  MaxRestarts = 1
SYMMETRY Symmetric
INVARIANTS
  PromisesKept
  DeletedStaysDeleted
  NamesFindUsers
