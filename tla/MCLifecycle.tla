------------------------------ MODULE MCLifecycle ------------------------------
(* Lifecycle for TLC: a configured plugin, one that the application adds, and
   one that is not compatible. *)
EXTENDS Lifecycle, TLC

CONSTANTS configured, added, incompatible

NoHooks == {}
AllPlugins == {configured, added, incompatible}
OptionsPlugins == {configured, incompatible}
Incompatible == {incompatible}
=============================================================================
