\* One machine of each kind, each kind of table, started twice.
SPECIFICATION Spec
CONSTANTS
    Machines <- MCMachines
    Tables = {"absent", "old", "full"}
    MaxDuration = 32767
    MaxStarts = 2
INVARIANTS TypeOK NoImplicitDatabase EnvironmentWins BackoffCapped
           NoLeakOnFailure SchemaBeforeEvents MigrationsResume
PROPERTY SignalEndsStartup
