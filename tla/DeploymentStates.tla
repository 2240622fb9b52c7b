-------------------------- MODULE DeploymentStates --------------------------
(***************************************************************************)
(* The deployment states that internal/domain/state.go shares between the  *)
(* server and the runner.                                                  *)
(***************************************************************************)

TerminalDeployment ==
    {"succeeded", "failed", "canceled", "rolled_back", "rollback_failed", "manual_intervention"}

(* The two tables, as pairs from a status to the next. *)
RootDeploymentTransition ==
    ({"queued"} \X {"waiting_confirmation", "assigned", "failed", "canceled"})
    \cup ({"waiting_confirmation"} \X {"failed", "canceled"})
    \cup ({"assigned"} \X {"preparing", "failed", "canceled"})
    \cup ({"preparing"} \X {"applying", "failed", "canceled"})
    \cup ({"applying"} \X {"verifying", "cancel_requested"})
    \cup ({"verifying"} \X {"succeeded", "cancel_requested"})
    \cup {<<"cancel_requested", "manual_intervention">>}

RollbackChildTransition ==
    {<<"queued", "assigned">>, <<"assigned", "preparing">>, <<"preparing", "applying">>,
     <<"applying", "verifying">>, <<"verifying", "rolled_back">>, <<"verifying", "rollback_failed">>}

=============================================================================
