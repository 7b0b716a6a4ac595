-------------------------------- MODULE MCOps --------------------------------
(* Instances of Ops for TLC.                                                *)
EXTENDS Ops
SingleFeatures == {{}, {"cron"}, {"health"}, {"memory", "watch"}}
HealthOnly == {{"health"}}
===============================================================================
