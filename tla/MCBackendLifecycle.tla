-------------------------- MODULE MCBackendLifecycle --------------------------
(* Small instances of BackendLifecycle: one frontend of the new build, and *)
(* backends of both builds.                                                *)
EXTENDS BackendLifecycle

CONSTANTS f1, old, new

MCBuild == [f \in Frontends |-> new]

=============================================================================
