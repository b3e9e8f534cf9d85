----------------------------- MODULE MCSession -----------------------------
(***************************************************************************)
(* TLC's instance of Session: one task that the gate asks about, one that   *)
(* does not, and a task that workers or reviewers may add.                  *)
(***************************************************************************)
EXTENDS Session, TLC

CONSTANTS risky, plain

MCPlan == {risky, plain}
MCRiskOf == risky :> "high" @@ plain :> "medium"

(* The intervals of the second run are left out: it starts a new account.   *)
MCMaxReads == <<1, 0>>

NoReads == <<0>>
=============================================================================
