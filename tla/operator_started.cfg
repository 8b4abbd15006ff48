\* Every environment and every outcome of every setup call.
CONSTANTS
    EnvKeys <- MCEnvKeys
    Nil = Nil
    Uid = Uid
    SchemeGroups <- MCSchemeGroups
SPECIFICATION Spec
INVARIANTS
    TypeOK
    StartedOnlyWhenConfigured
\* The process ends: after os.Exit, a panic or main's return nothing runs.
CHECK_DEADLOCK FALSE
