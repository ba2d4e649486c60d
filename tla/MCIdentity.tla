----------------------------- MODULE MCIdentity -----------------------------
(* Model-checking instances of IdentityBinding: the BuildReconcilers of two *)
(* kinds share an account, the Model controller has its own.                *)
EXTENDS IdentityBinding, TLC

CONSTANTS builder, modeller, buildModels, buildServers, models

TwoBuilders == buildModels :> builder @@ buildServers :> builder @@ models :> modeller
=============================================================================
