---------------------------- MODULE CompatLevels ----------------------------
(***************************************************************************)
(* The compatibility levels (compat/mod.rs, CompatibilityLevel): which     *)
(* directions a level checks, and against which versions.                  *)
(***************************************************************************)
AllLevels == {"NONE", "BACKWARD", "BACKWARD_TRANSITIVE", "FORWARD",
              "FORWARD_TRANSITIVE", "FULL", "FULL_TRANSITIVE"}

is_transitive(level) ==
    level \in {"BACKWARD_TRANSITIVE", "FORWARD_TRANSITIVE", "FULL_TRANSITIVE"}

(* directions *)
NewReadsOld(level) ==
    level \in {"BACKWARD", "BACKWARD_TRANSITIVE", "FULL", "FULL_TRANSITIVE"}
OldReadsNew(level) ==
    level \in {"FORWARD", "FORWARD_TRANSITIVE", "FULL", "FULL_TRANSITIVE"}

=============================================================================
