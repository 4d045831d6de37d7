----------------------------- MODULE ConsumerApp ------------------------------
(***************************************************************************)
(* The consumer side as one system: payments and products that users ask  *)
(* for, flows that pay when a date comes, and payments agreed on in a      *)
(* conversation, all on the same wallets and by the same calls.            *)
(***************************************************************************)
EXTENDS ConsumerProducts, Dayflow, PaymentIntents

\* A run of a flow and an attempt to authorise make calls of their own.
ASSUME AppAssumption ==
  \A r \in Runs, i \in DOMAIN Schedules, a \in Attempts, name \in Payable :
    PaymentOf[r][i] # ExecutionOf[a][name]

everyVar == <<appVars, flowVars, intentVars>>

AppInit == ProductInit /\ FlowInit /\ IntentInit

AppNext ==
  \/ ProductNext /\ UNCHANGED <<flowVars, intentVars>>
  \/ FlowNext /\ UNCHANGED <<productVars, intentVars>>
  \/ IntentNext /\ UNCHANGED <<productVars, flowVars>>

AppSpec == AppInit /\ [][AppNext]_everyVar

Alone(A) == A /\ UNCHANGED <<productVars, flowVars, intentVars>>

\* Users go on opening their wallet, which runs the status sync and the repair, and not
\* every run of them is cut off.
AppFairSpec ==
  /\ AppSpec
  /\ \A c \in Sends \cap UserCalls : /\ SF_everyVar(Alone(SyncFetch(c)))
                                    /\ SF_everyVar(Alone(SyncApply(c)))
                                    /\ SF_everyVar(Alone(Repair(c)))
=============================================================================
