---------------------------- MODULE MCScheduler ----------------------------
(* Instances of Scheduler for TLC.                                         *)
EXTENDS SchedulerProperties

MCSources == {"LOCAL_INOTIFY", "MANUAL"}
MCAllKinds == {"LOCAL_INOTIFY", "REMOTE_PUSH", "MANUAL"}
MCAutomatic == {"LOCAL_INOTIFY", "REMOTE_PUSH"}

MCBlocks == {"network", "approve", "stop", "account"}
MCPauses == {"user_pause", "battery", "settings", "suspend"}
MCNetwork == {"network"}
=============================================================================
