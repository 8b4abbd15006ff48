\* The checks of main promise os.Exit(1) on a setup error; a reconciler
\* returned as nil with its error is dereferenced before the check.
CONSTANTS
    EnvKeys <- MCEnvKeys
    Nil = Nil
    Uid = Uid
    SchemeGroups <- MCSchemeGroups
SPECIFICATION Spec
INVARIANT ExitOnSetupFailure
CHECK_DEADLOCK FALSE
