----------------------------- MODULE MqttBridge -----------------------------
(***************************************************************************)
(* The ROS 2 node mqtt_bridge.py: commands from MQTT to the topics of the  *)
(* goal forwarder, /cart/nav_status to MQTT.  Messages of MQTT arrive on   *)
(* paho's thread and wait in cmd_queue for the timer of the executor.      *)
(***************************************************************************)
EXTENDS CartCommand

VARIABLES
    listening,      \* connected and subscribed
    cmd_topic, result_topic,
    cmd_queue,      \* _cmd_queue
    last_nav_status, pending_nav_status,
    nav_status,     \* the latched /cart/nav_status ...
    nav_status_new, \* ... has not been delivered to the bridge
    target_poses, cancels,    \* /cart/target_pose, /cart/cancel: undelivered
    follow_mode     \* /cart/follow_mode: the latest undelivered action, or NONE

mqttVars  == <<listening, cmd_topic, result_topic>>
relayVars == <<last_nav_status, pending_nav_status, nav_status_new>>
topicVars == <<target_poses, cancels, follow_mode>>

BridgeInit ==
    /\ listening = FALSE /\ cmd_topic = << >> /\ result_topic = << >>
    /\ cmd_queue = << >>
    /\ last_nav_status = "NONE" /\ pending_nav_status = "NONE"
    /\ nav_status_new = TRUE
    /\ target_poses = << >> /\ cancels = 0 /\ follow_mode = "NONE"

-----------------------------------------------------------------------------
(* MQTT.  The sessions are clean: what was not delivered is dropped. *)

Disconnect ==
    /\ listening /\ listening' = FALSE
    /\ cmd_topic' = << >>
    /\ UNCHANGED <<result_topic, cmd_queue, relayVars, topicVars>>

\* _on_mqtt_connect subscribes again.
Connect ==
    /\ ~listening /\ listening' = TRUE
    /\ UNCHANGED <<cmd_topic, result_topic, cmd_queue, relayVars, topicVars>>

\* _on_mqtt_message.
OnMqttMessage ==
    /\ cmd_topic # << >>
    /\ cmd_topic' = Tail(cmd_topic)
    /\ cmd_queue' = Append(cmd_queue, Head(cmd_topic))
    /\ UNCHANGED <<listening, result_topic, relayVars, topicVars>>

-----------------------------------------------------------------------------
\* Mutant of Flush: what is held is published without a look whether there is any.
FlushUnchecked(s) ==
    IF listening
    THEN /\ result_topic' = Append(result_topic, s)
         /\ last_nav_status' = s
         /\ pending_nav_status' = "NONE"
    ELSE /\ pending_nav_status' = s
         /\ UNCHANGED <<result_topic, last_nav_status>>

\* _flush_pending_nav_status, s being what is held back.
Flush(s) ==
    IF s # "NONE" /\ listening
    THEN /\ result_topic' = Append(result_topic, s)
         /\ last_nav_status' = s
         /\ pending_nav_status' = "NONE"
    ELSE /\ pending_nav_status' = s
         /\ UNCHANGED <<result_topic, last_nav_status>>

\* Mutant of OnNavStatus: without a connection the status is dropped.
OnNavStatusUnheld ==
    /\ nav_status_new /\ nav_status_new' = FALSE
    /\ IF nav_status = last_nav_status \/ ~listening
       THEN UNCHANGED <<result_topic, last_nav_status, pending_nav_status>>
       ELSE Flush(nav_status)
    /\ UNCHANGED <<listening, cmd_topic, cmd_queue, topicVars>>

\* _on_nav_status: compared with what was published last, not with what is held.
OnNavStatus ==
    /\ nav_status_new /\ nav_status_new' = FALSE
    /\ IF nav_status = last_nav_status
       THEN UNCHANGED <<result_topic, last_nav_status, pending_nav_status>>
       ELSE Flush(nav_status)
    /\ UNCHANGED <<listening, cmd_topic, cmd_queue, topicVars>>

\* Each kind of command goes to a topic of its own.
Forwarded(c) ==
    /\ target_poses' = IF c.command = "MOVE" THEN Append(target_poses, c) ELSE target_poses
    /\ cancels' = IF c.command = "CANCEL" THEN cancels + 1 ELSE cancels
    /\ follow_mode' = IF c.command \in FollowActions THEN c.command ELSE follow_mode

\* _drain_cmd_queue: the timer flushes and forwards what waits, one command after the
\* other, and the nodes that read the topics run in between.
DrainCmdQueue ==
    /\ Flush(pending_nav_status)
    /\ \/ /\ cmd_queue # << >> /\ cmd_queue' = Tail(cmd_queue)
          /\ Forwarded(Head(cmd_queue))
       \/ /\ cmd_queue = << >> /\ pending_nav_status # "NONE" /\ listening
          /\ UNCHANGED <<cmd_queue, topicVars>>
    /\ UNCHANGED <<listening, cmd_topic, nav_status_new>>

BridgeTypeOK ==
    /\ listening \in BOOLEAN
    /\ cmd_topic \in Seq(Command) /\ cmd_queue \in Seq(Command)
    /\ result_topic \in Seq(NavStatus)
    /\ last_nav_status \in NavStatus \cup {"NONE"}
    /\ pending_nav_status \in NavStatus \cup {"NONE"}
    /\ nav_status_new \in BOOLEAN
    /\ target_poses \in Seq(Command) /\ cancels \in Nat
    /\ follow_mode \in FollowActions \cup {"NONE"}
=============================================================================
