--------------------------- MODULE OperatorStartup ---------------------------
(***************************************************************************)
(* The bootstrap of the operator (operator/main.go: init, main and       *)
(* getEnvOrDie).  Before main, init adds the client-go types and the      *)
(* Wavefront CRD types to the manager's scheme; utilruntime.Must panics   *)
(* when a registration returns an error.                                   *)
(*                                                                         *)
(* main is a straight line of calls; every call that returns an error is  *)
(* followed by a check that logs and calls os.Exit(1), except the read of *)
(* the default namespace, whose error is only logged.  getEnvOrDie panics *)
(* when a variable is unset.  Each call is one step and its outcome is a  *)
(* nondeterministic choice; NewWavefrontReconciler (outside src) may      *)
(* return its error with a nil or a non-nil reconciler.                    *)
(***************************************************************************)
EXTENDS Naturals

CONSTANTS
    EnvKeys,   \* NAMESPACE, COLLECTOR_VERSION, PROXY_VERSION, LOGGING_VERSION
    Nil,       \* a nil *WavefrontReconciler
    Uid,       \* the UID of the default namespace
    SchemeGroups  \* the API groups init adds: client-go and Wavefront

VARIABLES
    pc,           \* the next statement of init or main
    scheme,       \* the API groups registered in the scheme
    env,          \* the environment variables that are set
    clusterUUID,  \* string(defaultNS.UID)
    controller,   \* the reconciler NewWavefrontReconciler returned
    setupError,   \* a fatal setup call has returned an error
    outcome       \* "none" while main runs, else how the process ended

vars == <<pc, scheme, env, clusterUUID, controller, setupError, outcome>>

VersionKeys == EnvKeys \ {"NAMESPACE"}

Outcomes == {"none", "exit0", "exit1", "envPanic", "nilDeref", "schemePanic"}

-----------------------------------------------------------------------------
(* getEnvOrDie: the value of key, or a panic when it is empty.             *)
getEnvOrDie(keys) == keys \subseteq env

(* Mutant: the `if err != nil` check is dropped and main goes on.        *)
CheckedCallIgnoringError(from, to) ==
    /\ pc = from
    /\ \/ pc' = to /\ UNCHANGED <<setupError, outcome>>
       \/ pc' = to /\ setupError' = TRUE /\ UNCHANGED outcome
    /\ UNCHANGED <<scheme, env, clusterUUID, controller>>

(* A checked call at label from: it succeeds and main goes on at `to`, or *)
(* it returns an error, which is logged, and os.Exit(1).                   *)
CheckedCall(from, to) ==
    /\ pc = from
    /\ \/ pc' = to /\ UNCHANGED <<setupError, outcome>>
       \/ pc' = "exited" /\ setupError' = TRUE /\ outcome' = "exit1"
    /\ UNCHANGED <<scheme, env, clusterUUID, controller>>

Init ==
    /\ pc = "init"
    /\ scheme = {}
    /\ env \in SUBSET EnvKeys
    /\ clusterUUID = ""
    /\ controller = Nil
    /\ setupError = FALSE
    /\ outcome = "none"

(* utilruntime.Must(AddToScheme(scheme)) for group g, then main goes on  *)
(* at `to`: the types are added, or the error makes Must panic.           *)
AddToScheme(g, from, to) ==
    /\ pc = from
    /\ \/ pc' = to /\ scheme' = scheme \cup {g} /\ UNCHANGED outcome
       \/ pc' = "exited" /\ outcome' = "schemePanic" /\ UNCHANGED scheme
    /\ UNCHANGED <<env, clusterUUID, controller, setupError>>

(* init: the client-go types, then the Wavefront types.                   *)
InitScheme ==
    \/ AddToScheme("clientgo", "init", "initWavefront")
    \/ AddToScheme("wavefront", "initWavefront", "getConfig")

(* ctrl.GetConfigOrDie exits when no kubeconfig can be loaded.             *)
GetConfig == CheckedCall("getConfig", "newManager")

(* The manager's options read namespace() before NewManager is called.   *)
NewManager ==
    \/ /\ pc = "newManager" /\ ~getEnvOrDie({"NAMESPACE"})
       /\ pc' = "exited" /\ outcome' = "envPanic"
       /\ UNCHANGED <<scheme, env, clusterUUID, controller, setupError>>
    \/ getEnvOrDie({"NAMESPACE"}) /\ CheckedCall("newManager", "newClient")

NewClient == CheckedCall("newClient", "newDiscovery")
NewDiscoveryClient == CheckedCall("newDiscovery", "newClientset")
NewClientset == CheckedCall("newClientset", "getDefaultNS")

(* Namespaces().Get("default"): on error the empty Namespace's UID is    *)
(* used and the error is only logged.                                      *)
GetDefaultNamespace ==
    /\ pc = "getDefaultNS"
    /\ pc' = "newReconciler"
    /\ clusterUUID' \in {"", Uid}
    /\ UNCHANGED <<scheme, env, controller, setupError, outcome>>

(* The Versions argument reads the three version variables, then          *)
(* NewWavefrontReconciler is called; controller.Versions is logged before *)
(* err is checked.                                                         *)
NewWavefrontReconciler ==
    /\ pc = "newReconciler"
    /\ \/ /\ ~getEnvOrDie(VersionKeys)
          /\ pc' = "exited" /\ outcome' = "envPanic"
          /\ UNCHANGED <<controller, setupError>>
       \/ /\ getEnvOrDie(VersionKeys)
          /\ \/ /\ controller' = "reconciler"
                /\ pc' = "setupWithManager"
                /\ UNCHANGED <<setupError, outcome>>
             \/ /\ controller' \in {"reconciler", Nil}
                /\ setupError' = TRUE
                /\ pc' = "exited"
                /\ outcome' = IF controller' = Nil THEN "nilDeref" ELSE "exit1"
    /\ UNCHANGED <<scheme, env, clusterUUID>>

SetupWithManager == CheckedCall("setupWithManager", "addHealthz")
AddHealthzCheck == CheckedCall("addHealthz", "addReadyz")
AddReadyzCheck == CheckedCall("addReadyz", "start")

(* mgr.Start blocks until the signal handler fires, then returns nil (main *)
(* returns) or an error (os.Exit(1)).                                      *)
Start == CheckedCall("start", "running")

(* Mutant: main's return is not recorded as the process ending.          *)
StopUnrecorded ==
    /\ pc = "running"
    /\ pc' = "exited"
    /\ UNCHANGED <<scheme, env, clusterUUID, controller, setupError, outcome>>

Stop ==
    /\ pc = "running"
    /\ pc' = "exited"
    /\ outcome' = "exit0"
    /\ UNCHANGED <<scheme, env, clusterUUID, controller, setupError>>

Next ==
    \/ InitScheme
    \/ GetConfig \/ NewManager \/ NewClient \/ NewDiscoveryClient
    \/ NewClientset \/ GetDefaultNamespace \/ NewWavefrontReconciler
    \/ SetupWithManager \/ AddHealthzCheck \/ AddReadyzCheck \/ Start \/ Stop

Spec == Init /\ [][Next]_vars

-----------------------------------------------------------------------------
(* Properties                                                              *)

TypeOK ==
    /\ scheme \subseteq SchemeGroups
    /\ env \subseteq EnvKeys
    /\ clusterUUID \in {"", Uid}
    /\ controller \in {Nil, "reconciler"}
    /\ setupError \in BOOLEAN
    /\ outcome \in Outcomes
    /\ (outcome = "none") <=> (pc # "exited")

(* The manager runs, or main returns normally, only when init registered *)
(* every API group in the scheme the manager and clients decode with,     *)
(* every variable getEnvOrDie requires is set and no fatal setup call     *)
(* failed.                                                                 *)
StartedOnlyWhenConfigured ==
    pc = "running" \/ outcome = "exit0" =>
        /\ scheme = SchemeGroups
        /\ getEnvOrDie(EnvKeys)
        /\ ~setupError
        /\ controller # Nil

(* Every fatal setup error is logged and ends in os.Exit(1) (the checks   *)
(* of main), never in a runtime panic.                                     *)
ExitOnSetupFailure ==
    setupError => outcome \in {"none", "exit1"}

=============================================================================
