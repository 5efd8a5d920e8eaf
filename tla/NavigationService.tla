------------------------- MODULE NavigationService -------------------------
(***************************************************************************)
(* The backend's view of one cart: NavigationService and                   *)
(* FollowControlService, each with a session in memory, and the operation  *)
(* status of the cart in the database, which both write.  The cart is      *)
(* ONLINE.  A restart starts navigationSequence anew; here the numbers go  *)
(* on, so that they name a move, and nothing in the code compares them.    *)
(***************************************************************************)
EXTENDS CartCommand

VARIABLES
    session,        \* activeByCartId: the navigation in progress, or none
    navigations,    \* navigationSequence
    follow,         \* activeByCartId of FollowControlService
    op_status,      \* Cart.operationStatus
    reconciled,     \* CartOperationStatusReconciler has run since the start
    listening,      \* the bridge holds a subscription to cmd/move/cart
    cmd_topic,      \* commands published and not delivered
    result_topic    \* nav results published and not delivered

sessionVars == <<session, navigations, follow, op_status, reconciled>>

FollowStates == {"NONE", "ACTIVE", "PAUSED"}
Terminal == NavStatus \ {"IDLE", "NAVIGATING"}

ServiceInit ==
    /\ session = NoNavigation /\ navigations = 0
    /\ follow = "NONE" /\ op_status = "IDLE" /\ reconciled = TRUE

\* MqttCommandPublisher.publish: without a subscription the broker drops it.
Publish(c) == /\ cmd_topic' = IF listening THEN Append(cmd_topic, c) ELSE cmd_topic
              /\ UNCHANGED <<listening, result_topic>>

-----------------------------------------------------------------------------
(* Requests of the frontend; one that is refused changes nothing. *)

\* NavigationService.start.
StartMove ==
    /\ session = NoNavigation /\ navigations < MaxMoves
    /\ navigations' = navigations + 1
    /\ session' = navigations'
    /\ op_status' = "NAVIGATING"
    /\ Publish(MoveCommand(session'))
    /\ UNCHANGED <<follow, reconciled>>

\* NavigationService.cancel.
CancelMove ==
    /\ session # NoNavigation
    /\ session' = NoNavigation
    /\ op_status' = "IDLE"
    /\ Publish(CancelCommand(session))
    /\ UNCHANGED <<navigations, follow, reconciled>>

\* Its branch without a session, which tidies up what a restart left behind.
CancelOrphan ==
    /\ session = NoNavigation /\ op_status = "NAVIGATING"
    /\ op_status' = "IDLE"
    /\ UNCHANGED <<session, navigations, follow, reconciled, listening, cmd_topic,
                   result_topic>>

\* FollowControlService.start, pause, stop.
StartFollow ==
    /\ op_status # "NAVIGATING" /\ follow # "ACTIVE"
    /\ follow' = "ACTIVE"
    /\ op_status' = "FOLLOWING"
    /\ Publish(FollowCommand("FOLLOW_START"))
    /\ UNCHANGED <<session, navigations, reconciled>>

PauseFollow ==
    /\ follow = "ACTIVE"
    /\ follow' = "PAUSED"
    /\ Publish(FollowCommand("FOLLOW_PAUSE"))
    /\ UNCHANGED <<session, navigations, op_status, reconciled>>

StopFollow ==
    /\ follow # "NONE"
    /\ follow' = "NONE"
    /\ op_status' = "IDLE"
    /\ Publish(FollowCommand("FOLLOW_STOP"))
    /\ UNCHANGED <<session, navigations, reconciled>>

StopOrphan ==
    /\ follow = "NONE" /\ op_status = "FOLLOWING"
    /\ op_status' = "IDLE"
    /\ UNCHANGED <<session, navigations, follow, reconciled, listening, cmd_topic,
                   result_topic>>

Request == \/ StartMove \/ CancelMove \/ CancelOrphan
           \/ StartFollow \/ PauseFollow \/ StopFollow \/ StopOrphan

-----------------------------------------------------------------------------
\* Mutant of ApplyNavResult: every status ends the session.
EveryStatusEnds ==
    /\ result_topic # << >>
    /\ result_topic' = Tail(result_topic)
    /\ session' = NoNavigation
    /\ op_status' = IF op_status = "NAVIGATING" THEN "IDLE" ELSE op_status
    /\ UNCHANGED <<navigations, follow, reconciled, listening, cmd_topic>>

\* applyCartNavResult: a terminal status ends the session there is, whichever
\* goal it is about (completeFromCart).
ApplyNavResult ==
    /\ result_topic # << >>
    /\ result_topic' = Tail(result_topic)
    /\ IF Head(result_topic) \in Terminal
       THEN /\ session' = NoNavigation
            /\ op_status' = IF op_status = "NAVIGATING" THEN "IDLE" ELSE op_status
       ELSE UNCHANGED <<session, op_status>>
    /\ UNCHANGED <<navigations, follow, reconciled, listening, cmd_topic>>

-----------------------------------------------------------------------------
\* The process restarts.  Its MQTT session is clean, so results on their way are
\* dropped; the database stays.
Restart ==
    /\ session' = NoNavigation /\ follow' = "NONE"
    /\ reconciled' = FALSE
    /\ result_topic' = << >>
    /\ UNCHANGED <<navigations, op_status, listening, cmd_topic>>

\* Mutant of Reconcile: only the moves are thought of.
ReconcileMoves ==
    /\ ~reconciled /\ reconciled' = TRUE
    /\ op_status' = IF op_status = "NAVIGATING" THEN "IDLE" ELSE op_status
    /\ UNCHANGED <<session, navigations, follow, listening, cmd_topic, result_topic>>

\* CartOperationStatusReconciler, an ApplicationRunner: it runs once the server is
\* up, so requests and results may have come before it.
Reconcile ==
    /\ ~reconciled /\ reconciled' = TRUE
    /\ op_status' = "IDLE"
    /\ UNCHANGED <<session, navigations, follow, listening, cmd_topic, result_topic>>

ServiceTypeOK ==
    /\ session \in Navigations \cup {NoNavigation}
    /\ navigations \in 0 .. MaxMoves
    /\ follow \in FollowStates
    /\ op_status \in {"IDLE", "NAVIGATING", "FOLLOWING"}
    /\ reconciled \in BOOLEAN
=============================================================================
