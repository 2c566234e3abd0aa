------------------------------ MODULE MCFolder ------------------------------
(***************************************************************************)
(* What goes on around the synchronized folder, for TLC: the watcher       *)
(* (Inotify) and the desktop integration (Desktop).  As in MCAccount a     *)
(* behaviour is one of a single part, and the other stays as it is.        *)
(***************************************************************************)
EXTENDS Inotify, Desktop

VARIABLE part         \* the part whose behaviour this is

allVars == <<part, vars, desktopVars>>

(* A part that stays as it is has one initial state.                       *)
AllInit ==
  /\ part \in {"inotify", "desktop"}
  /\ Init /\ (part # "inotify" => \A d, e \in Dir : name[d] = name[e])
  /\ DesktopInit
  /\ (part # "desktop" => others = {} /\ \A n \in DOMAIN entries : entries[n] = "none")

AllNext ==
  \/ part = "inotify" /\ Next /\ UNCHANGED <<part, desktopVars>>
  \/ part = "desktop" /\ DesktopNext /\ UNCHANGED <<part, vars>>

(* The watcher goes on.                                                    *)
Progress == part = "inotify" /\ WatcherNext /\ UNCHANGED <<part, desktopVars>>

AllSpec == AllInit /\ [][AllNext]_allVars /\ WF_allVars(Progress)
=============================================================================
