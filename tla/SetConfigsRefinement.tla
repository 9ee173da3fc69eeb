------------------------ MODULE SetConfigsRefinement ------------------------
(***************************************************************************)
(* SetConfigs implements ConfiguredContainer: what is tracked is what the  *)
(* state file has, or had before it was truncated, and the defaults are    *)
(* nobody else's business.                                                 *)
(***************************************************************************)
EXTENDS SetConfigs

Promise ==
    INSTANCE ConfiguredContainer WITH
        phase   <- IF pc \in {"down", "up"} THEN pc ELSE "working",
        wanted  <- conf,
        file    <- [d \in Dests |-> fs[Live(d)]],
        tracked <- DOMAIN state,
        command <- run_command,
        frozen  <- configured

(***************************************************************************)
(* Whatever was killed halfway, kolla_set_configs changes a file only when *)
(* the state file already has it, lets the service start only with all of  *)
(* one config.json, and leaves a configured COPY_ONCE container alone.     *)
(***************************************************************************)
ImplementsConfiguredContainer == Promise!Spec
=============================================================================
