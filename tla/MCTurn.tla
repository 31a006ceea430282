-------------------------------- MODULE MCTurn --------------------------------
(***************************************************************************)
(* What one turn of a run is made of, checked together: the budget it       *)
(* spends from, the messages added to it, the model it is sent to, the      *)
(* context it is sent with, the remote calls it makes, and the connections  *)
(* they are made over.  The parts share no variable (a call's outcome       *)
(* reaches them as a choice), so each behaviour moves one of them, part,    *)
(* from one common initial state.                                           *)
(***************************************************************************)
EXTENDS BudgetLedger, Steering, ModelSelection, ContextCompaction, McpCalls, McpConfigFile, McpOAuth, EventStream

VARIABLE part

AccountLimits == [model_calls |-> 2, total_tokens |-> 5, tool_calls |-> 1, children |-> 1]

TurnInit ==
    /\ BudgetInit /\ SteeringInit /\ SelectionInit /\ ContextInit /\ McpInit /\ ConfigInit /\ OAuthInit
    /\ StreamInit
    /\ part \in {"budget", "steering", "selection", "context", "call", "config", "oauth", "stream"}

TurnNext ==
    \/ part = "budget" /\ BudgetNext /\ UNCHANGED <<svars, mvars, cvars, xvars, gvars, ovars, evars, part>>
    \/ part = "steering" /\ SteeringNext /\ UNCHANGED <<bvars, mvars, cvars, xvars, gvars, ovars, evars, part>>
    \/ part = "selection" /\ SelectionNext /\ UNCHANGED <<bvars, svars, cvars, xvars, gvars, ovars, evars, part>>
    \/ part = "context" /\ ContextNext /\ UNCHANGED <<bvars, svars, mvars, xvars, gvars, ovars, evars, part>>
    \/ part = "call" /\ McpNext /\ UNCHANGED <<bvars, svars, mvars, cvars, gvars, ovars, evars, part>>
    \/ part = "config" /\ ConfigNext /\ UNCHANGED <<bvars, svars, mvars, cvars, xvars, ovars, evars, part>>
    \/ part = "oauth" /\ OAuthNext /\ UNCHANGED <<bvars, svars, mvars, cvars, xvars, gvars, evars, part>>
    \/ part = "stream" /\ StreamNext /\ UNCHANGED <<bvars, svars, mvars, cvars, xvars, gvars, ovars, part>>

turnVars == <<bvars, svars, mvars, cvars, xvars, gvars, ovars, evars, part>>

\* The fairness of BudgetSpec, SteeringSpec, ConfigSpec and StreamSpec, for the behaviours that follow them.
TurnFairness ==
    /\ \A c \in Call : WF_bvars(part = "budget" /\ CallGoesOn(c))
    /\ WF_svars(part = "steering" /\ Work)
    /\ \A s \in WebSave : WF_gvars(part = "config" /\ SaveStep(s))
    /\ WF_gvars(part = "config" /\ ReloadStep) /\ WF_gvars(part = "config" /\ Polls)
    /\ WF_gvars(part = "config" /\ ApiReturns)
    /\ WF_evars(part = "stream" /\ Follows)

TurnSpec == TurnInit /\ [][TurnNext]_turnVars /\ TurnFairness

------------------------------------------------------------------------------
\* The state of every part keeps its shape (Store, ModelSelectionService, ContextService, McpGateway).
TurnTypeOK ==
    /\ BudgetTypeOK /\ SteeringTypeOK /\ SelectionTypeOK /\ ContextTypeOK
    /\ McpTypeOK /\ ConfigTypeOK /\ OAuthTypeOK /\ StreamTypeOK

\* McpConfigFileService.save and OAuthAuthorizationService.callback: nothing a user wrote or
\* granted is overwritten or spent twice behind their back.
ConnectionsSound == SavedWhatWasSeen /\ CodeSpentOnce
=============================================================================
