CONSTANT MaxCrashes = 2
SPECIFICATION Spec
INVARIANT RefreshMigratesBeforeLdap
