------------------------ MODULE MCOperatorStartup --------------------------
(* Instantiates OperatorStartup with the four variables main reads and   *)
(* the two API groups init registers.                                      *)
EXTENDS OperatorStartup

MCEnvKeys ==
    {"NAMESPACE", "COLLECTOR_VERSION", "PROXY_VERSION", "LOGGING_VERSION"}

(* The groups init adds: clientgoscheme and wavefrontcomv1alpha1.         *)
MCSchemeGroups == {"clientgo", "wavefront"}

=============================================================================
