------------------------------ MODULE Desktop ------------------------------
(***************************************************************************)
(* DesktopIntegration (core/desktop_integration.py) and when the           *)
(* application uses it (application.py): the bookmark in the Files         *)
(* sidebar, the link on the Desktop under the folder's name or a longer    *)
(* one, and the folder's icon.  Files and the user change the same things  *)
(* on their own.  A write to the file system may be refused.               *)
(***************************************************************************)
EXTENDS FiniteSets

CONSTANT Foreign       \* the bookmarks of the user for other folders

VARIABLES
  phase,             \* "setup", "bootstrap" (the protected initialization) or "ready"
  initialize,        \* _bootstrap_initialize_integrations
  bookmark, others,  \* the lines of the bookmarks file: ours, and the user's
  entries,           \* what the Desktop has under the two names
  icon, linkIcon     \* the icon is set on the folder; on the link of a name

deskVars == <<bookmark, others, entries, icon, linkIcon>>
desktopVars == <<phase, initialize, deskVars>>

Names == {"primary", "fallback"}

(* Everything has its type, and only a link of ours has our icon.          *)
DesktopTypeOK ==
  /\ phase \in {"setup", "bootstrap", "ready"} /\ initialize \in BOOLEAN
  /\ bookmark \in BOOLEAN /\ others \subseteq Foreign
  /\ entries \in [Names -> {"none", "ours", "user's"}]
  /\ icon \in BOOLEAN /\ linkIcon \subseteq {n \in Names : entries[n] = "ours"}

DesktopInit ==
  /\ phase = "setup" /\ initialize = FALSE
  /\ bookmark = FALSE /\ others \in SUBSET Foreign
  /\ entries \in [Names -> {"none", "user's"}]
  /\ icon = FALSE /\ linkIcon = {}

-----------------------------------------------------------------------------
(* set_nautilus_bookmark: the other lines of the file are written back.    *)
SetBookmark(enabled) ==
  /\ bookmark' \in {bookmark, enabled} /\ UNCHANGED others

(* _matching_desktop_shortcuts                                             *)
OursByName == {n \in Names : entries[n] # "none"}     \* mutant: the target is not compared

Ours == {n \in Names : entries[n] = "ours"}

(* The name a new link takes, if there is one.                             *)
FreeName == {n \in Names : entries[n] = "none" /\ (n = "primary" \/ entries["primary"] # "none")}

(* set_desktop_shortcut; iconed: the folder has the icon.  Taking links    *)
(* away may be refused, from the first or from the second on.              *)
IconOn(n) == IF icon THEN linkIcon \cup {n} ELSE linkIcon

AddShortcut ==
  \/ (Ours # {} \/ FreeName = {}) /\ UNCHANGED <<entries, linkIcon>>
  \/ /\ Ours = {}
     /\ \E n \in FreeName :
          entries' = [entries EXCEPT ![n] = "ours"] /\ linkIcon' \in {linkIcon, IconOn(n)}
  \/ UNCHANGED <<entries, linkIcon>>

DropShortcut == \E gone \in SUBSET Ours :
  /\ entries' = [n \in Names |-> IF n \in gone THEN "none" ELSE entries[n]]
  /\ linkIcon' \in {linkIcon \ gone, linkIcon \ Ours}

(* set_special_icon, on the folder and on its links.                       *)
SetIcon(enabled, links) ==
  \/ UNCHANGED icon /\ linkIcon' = links
  \/ icon' = enabled /\ linkIcon' \in (IF enabled THEN {links, Ours} ELSE {links, links \ Ours})

-----------------------------------------------------------------------------
(* The application.                                                        *)
SetupComplete ==
  /\ phase = "setup" /\ phase' = "bootstrap" /\ initialize' = TRUE
  /\ UNCHANGED deskVars

(* Closing the review quits, and the next start opens it without the flag, *)
(* like the reconnection that the review offers.                           *)
Resumed ==
  /\ phase = "bootstrap" /\ initialize' = FALSE
  /\ UNCHANGED <<phase, deskVars>>

(* _start_safety_recovery                                                  *)
Recovery ==
  /\ phase = "ready" /\ phase' = "bootstrap" /\ initialize' = FALSE
  /\ UNCHANGED deskVars

(* _bootstrap_complete and initialize_defaults: bookmark, link, icon; what *)
(* is refused is logged.                                                   *)
BootstrapComplete ==
  /\ phase = "bootstrap" /\ phase' = "ready" /\ initialize' = FALSE
  /\ IF initialize THEN SetBookmark(TRUE) /\ AddShortcut /\ icon' \in {icon, TRUE}
     ELSE UNCHANGED deskVars

(* The switches of the settings window.                                    *)
SwitchBookmark(enabled) ==
  /\ phase = "ready" /\ SetBookmark(enabled)
  /\ UNCHANGED <<phase, initialize, entries, icon, linkIcon>>

SwitchShortcut(enabled) ==
  /\ phase = "ready" /\ (IF enabled THEN AddShortcut ELSE DropShortcut)
  /\ UNCHANGED <<phase, initialize, bookmark, others, icon>>

SwitchIcon(enabled) ==
  /\ phase = "ready" /\ SetIcon(enabled, linkIcon)
  /\ UNCHANGED <<phase, initialize, bookmark, others, entries>>

(* cleanup, when the account is removed: each part may be refused.         *)
Cleanup ==
  /\ phase = "ready" /\ phase' = "setup"
  /\ SetBookmark(FALSE) /\ icon' \in {icon, FALSE} /\ DropShortcut
  /\ UNCHANGED initialize

(* Files, and the user at the Desktop.                                     *)
FilesWrites ==
  /\ \E S \in SUBSET Foreign : others' = S
  /\ bookmark' \in {bookmark, FALSE}
  /\ UNCHANGED <<phase, initialize, entries, icon, linkIcon>>

UserAtDesktop ==
  /\ \E n \in Names, what \in {"none", "user's"} :
       /\ entries' = [entries EXCEPT ![n] = what] /\ linkIcon' = linkIcon \ {n}
  /\ UNCHANGED <<phase, initialize, bookmark, others, icon>>

App ==
  \/ SetupComplete \/ Resumed \/ Recovery \/ BootstrapComplete \/ Cleanup
  \/ \E on \in BOOLEAN : SwitchBookmark(on) \/ SwitchShortcut(on) \/ SwitchIcon(on)

DesktopNext == App \/ FilesWrites \/ UserAtDesktop

DesktopSpec == DesktopInit /\ [][DesktopNext]_desktopVars

-----------------------------------------------------------------------------
(* What the user put on the Desktop under the folder's name is never       *)
(* replaced or removed by the application (set_desktop_shortcut).          *)
UserEntriesKept ==
  [][\A n \in Names : entries[n] = "user's" /\ entries'[n] # "user's" => UserAtDesktop]_desktopVars
=============================================================================
