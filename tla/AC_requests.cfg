SPECIFICATION Spec
CONSTANTS
  emp = emp
  adm = adm
  sup = sup
  docs = docs
  memo = memo
  Everywhere = Everywhere
  User = {emp, adm, sup}
  Super = {sup}
  Scope <- MCScope
  Resource = {docs, memo}
  Thread = {t1, t2}
  SeedGroups = 1
  SeedMember <- MCSeedMember
  SeedRule <- MCSeedRule
  SeedResource = {docs}
  Asked <- MCAsked
  MaxGroup = 3
  MaxRule = 7
  MaxRequest = 3
  MaxRestart = 1
SYMMETRY Symmetry
INVARIANTS TypeOK DenialHolds WalksAgree OutsideUntouched OneRulePerResource
PROPERTY RightHolds
CHECK_DEADLOCK FALSE
