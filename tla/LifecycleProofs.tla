-------------------------- MODULE LifecycleProofs --------------------------
(***************************************************************************)
(* Proofs about Lifecycle, for any number of removals under way together   *)
(* and of safety dialogs.                                                  *)
(***************************************************************************)
EXTENDS Lifecycle, TLAPS

(* Without a runtime there is no cycle of it and nothing asks for one.     *)
CycleOwned == runtime = "none" => engine = "idle" /\ ~queued /\ ~alert

(* Under a mandatory update its window is there, and nothing of the        *)
(* runtime and none of the windows that need one.                          *)
MandatoryBlocks ==
  mandatory => update = "mandatory" /\ runtime = "none" /\ windows \cap {"main", "settings"} = {}

(* A cycle and a command of the initialization are not at work together.   *)
OneActive == engine # "idle" /\ boot \in Commands => raced

(* An initialization is open only while there is no baseline to run with.  *)
BootAlone == boot # "none" => ~baseline \/ raced

(* The parts of TypeOK, which the provers take better one at a time.       *)
ConfigTyped == account \in BOOLEAN /\ baseline \in BOOLEAN

CheckTyped ==
  /\ check \in {"idle", "checking", "done"} /\ showMain \in BOOLEAN
  /\ requests \in [Checks -> {"none", "sent", "canceled"}]
  /\ mandatory \in BOOLEAN /\ update \in {"none", "optional", "mandatory"}

RunTyped ==
  /\ runtime \in {"none", "on", "inert"} /\ engine \in {"idle", "preparing", "running"}
  /\ queued \in BOOLEAN /\ alert \in BOOLEAN

WindowsTyped ==
  /\ windows \subseteq {"main", "settings", "setup", "reconnect"} /\ orphans \in BOOLEAN
  /\ dialogs \in 0 .. MaxDialogs /\ (dialogs > 0 => "main" \in windows)

BootTyped == boot \in BootSteps /\ stray \in BOOLEAN

EndTyped ==
  /\ removals \in [Removals -> {"none", "lookup", "revoke", "clear"}]
  /\ quitting \in BOOLEAN /\ down \in BOOLEAN /\ raced \in BOOLEAN

Typed == ConfigTyped /\ CheckTyped /\ RunTyped /\ WindowsTyped /\ BootTyped /\ EndTyped

(* The parts of TypeOK are TypeOK.                                         *)
LEMMA TypedIsTypeOK == Typed <=> TypeOK
  BY DEF Typed, TypeOK, ConfigTyped, CheckTyped, RunTyped, WindowsTyped, BootTyped, EndTyped

(* The inductive invariant.  RuntimeJustified and CycleOwned make an open  *)
(* initialization the only one at work.                                    *)
Justified == RuntimeJustified /\ MandatoryBlocks /\ CycleOwned /\ BootAlone

Inv == Typed /\ Justified

(* Two commands at once need a runtime that has its baseline.              *)
LEMMA InvOneActive == Inv => OneActive
  BY DEF Inv, Typed, ConfigTyped, RunTyped, EndTyped, Justified, RuntimeJustified, CycleOwned,
         BootAlone, OneActive, Commands

(* Nothing runs and nothing is open at first.                              *)
LEMMA InitInv == Init => Inv
<1> SUFFICES ASSUME Init PROVE Inv
  OBVIOUS
<1>1. ConfigTyped /\ CheckTyped /\ RunTyped /\ BootTyped /\ EndTyped
  BY DEF Init, ConfigTyped, CheckTyped, RunTyped, BootTyped, EndTyped, BootSteps
<1>2. WindowsTyped
  <2>1. dialogs \in 0 .. MaxDialogs /\ ~(dialogs > 0)
    BY DialogsAssumption DEF Init
  <2>2. windows \subseteq {"main", "settings", "setup", "reconnect"} /\ orphans \in BOOLEAN
    BY DEF Init
  <2> QED
    BY <2>1, <2>2 DEF WindowsTyped
<1>3. Justified
  BY DEF Init, Justified, RuntimeJustified, MandatoryBlocks, CycleOwned, BootAlone
<1> QED
  BY <1>1, <1>2, <1>3 DEF Inv, Typed

(* A step that changes nothing keeps the invariant.                        *)
LEMMA StutterInv == ASSUME Inv, UNCHANGED vars PROVE Inv'
<1>1. ConfigTyped' /\ CheckTyped' /\ RunTyped'
  BY DEF Inv, Justified, MandatoryBlocks, Typed, ConfigTyped, CheckTyped, RunTyped,
     vars, configVars, updateVars, runVars, windowVars, endVars
<1>2. WindowsTyped'
  BY DialogsAssumption DEF Inv, Typed, WindowsTyped, vars, configVars, updateVars,
     runVars, windowVars, endVars
<1>3. BootTyped' /\ EndTyped'
  BY DEF Inv, Typed, ConfigTyped, BootTyped, EndTyped, RunTyped, vars, configVars,
     updateVars, runVars, windowVars, endVars
<1>4. Justified'
  BY DEF Inv, Typed, ConfigTyped, CheckTyped, RunTyped, EndTyped, Justified,
     RuntimeJustified, MandatoryBlocks, CycleOwned, BootAlone, vars, configVars,
     updateVars, runVars, windowVars, endVars
<1> QED
  BY <1>1, <1>2, <1>3, <1>4 DEF Inv, Typed

(* do_activate keeps it: what it reveals is not shown under an update.     *)
LEMMA ActivateInv == ASSUME Inv, NEW show \in BOOLEAN, Activate(show) PROVE Inv'
<1>1. ConfigTyped' /\ CheckTyped' /\ RunTyped'
  BY DEF Activate, Ask, Checks, Reveal, Blocked, OpenWindows, EnsureBootstrap,
     EnsureRuntime, BootSteps, Inv, Justified, MandatoryBlocks, Typed, ConfigTyped,
     CheckTyped, RunTyped, vars, configVars, updateVars, runVars, windowVars, endVars
<1>2. WindowsTyped'
  BY DialogsAssumption DEF Activate, Ask, Checks, Reveal, Blocked, OpenWindows,
     EnsureBootstrap, EnsureRuntime, BootSteps, Inv, Typed, WindowsTyped, vars,
     configVars, updateVars, runVars, windowVars, endVars
<1>3. BootTyped' /\ EndTyped'
  BY DEF Activate, Ask, Checks, Reveal, Blocked, OpenWindows, EnsureBootstrap,
     EnsureRuntime, BootSteps, Inv, Typed, ConfigTyped, BootTyped, EndTyped, RunTyped,
     vars, configVars, updateVars, runVars, windowVars, endVars
<1>4. Justified'
  BY DEF Activate, Ask, Checks, Reveal, Blocked, OpenWindows, EnsureBootstrap,
     EnsureRuntime, BootSteps, Inv, Typed, ConfigTyped, CheckTyped, RunTyped, EndTyped,
     Justified, RuntimeJustified, MandatoryBlocks, CycleOwned, BootAlone, vars,
     configVars, updateVars, runVars, windowVars, endVars
<1> QED
  BY <1>1, <1>2, <1>3, <1>4 DEF Inv, Typed

(* present_main and its like keep it for the same reason.                  *)
LEMMA PresentInv == ASSUME Inv, NEW w \in {"main", "settings"}, Present({w}) PROVE Inv'
<1>1. ConfigTyped' /\ CheckTyped' /\ RunTyped'
  BY DEF Present, Reveal, Blocked, OpenWindows, EnsureBootstrap, EnsureRuntime,
     BootSteps, Inv, Justified, MandatoryBlocks, Typed, ConfigTyped, CheckTyped,
     RunTyped, vars, configVars, updateVars, runVars, windowVars, endVars
<1>2. WindowsTyped'
  BY DialogsAssumption DEF Present, Reveal, Blocked, OpenWindows, EnsureBootstrap,
     EnsureRuntime, BootSteps, Inv, Typed, WindowsTyped, vars, configVars, updateVars,
     runVars, windowVars, endVars
<1>3. BootTyped' /\ EndTyped'
  BY DEF Present, Reveal, Blocked, OpenWindows, EnsureBootstrap, EnsureRuntime,
     BootSteps, Inv, Typed, ConfigTyped, BootTyped, EndTyped, RunTyped, vars,
     configVars, updateVars, runVars, windowVars, endVars
<1>4. Justified'
  BY DEF Present, Reveal, Blocked, OpenWindows, EnsureBootstrap, EnsureRuntime,
     BootSteps, Inv, Typed, ConfigTyped, CheckTyped, RunTyped, EndTyped, Justified,
     RuntimeJustified, MandatoryBlocks, CycleOwned, BootAlone, vars, configVars,
     updateVars, runVars, windowVars, endVars
<1> QED
  BY <1>1, <1>2, <1>3, <1>4 DEF Inv, Typed

(* _startup_update_finished keeps it: a mandatory answer stops the runtime. *)
LEMMA StartupAnsweredInv == ASSUME Inv, NEW a \in Answers, StartupAnswered(a) PROVE Inv'
<1>1. ConfigTyped' /\ CheckTyped' /\ RunTyped'
  BY DEF StartupAnswered, Finds, EnterMandatory, RuntimeStopped, StopRuntime,
     CloseWindows, Offered, Answers, Checks, Reveal, Blocked, OpenWindows,
     EnsureBootstrap, EnsureRuntime, BootSteps, Inv, Justified, MandatoryBlocks, Typed,
     ConfigTyped, CheckTyped, RunTyped, vars, configVars, updateVars, runVars,
     windowVars, endVars
<1>2. WindowsTyped'
  <2>1. CASE a = "mandatory"
    <3>1. windows' = windows \ {"main", "settings"} /\ orphans' = orphans /\ dialogs' = 0
      BY <2>1 DEF StartupAnswered, EnterMandatory, CloseWindows
    <3>2. windows' \subseteq {"main", "settings", "setup", "reconnect"} /\ orphans' \in BOOLEAN
      BY <3>1 DEF Inv, Typed, WindowsTyped
    <3>3. dialogs' \in 0 .. MaxDialogs /\ ~(dialogs' > 0)
      BY <3>1, DialogsAssumption
    <3> QED
      BY <3>2, <3>3 DEF WindowsTyped
  <2>2. CASE a # "mandatory"
    BY <2>2 DEF StartupAnswered, Reveal, OpenWindows, Inv, Typed, WindowsTyped,
       windowVars
  <2> QED
    BY <2>1, <2>2
<1>3. BootTyped' /\ EndTyped'
  BY DEF StartupAnswered, Finds, EnterMandatory, RuntimeStopped, StopRuntime,
     CloseWindows, Offered, Answers, Checks, Reveal, Blocked, OpenWindows,
     EnsureBootstrap, EnsureRuntime, BootSteps, Inv, Typed, ConfigTyped, BootTyped,
     EndTyped, RunTyped, vars, configVars, updateVars, runVars, windowVars, endVars
<1>4. Justified'
  BY DEF StartupAnswered, Finds, EnterMandatory, RuntimeStopped, StopRuntime,
     CloseWindows, Offered, Answers, Checks, Reveal, Blocked, OpenWindows,
     EnsureBootstrap, EnsureRuntime, BootSteps, Inv, Typed, ConfigTyped, CheckTyped,
     RunTyped, EndTyped, Justified, RuntimeJustified, MandatoryBlocks, CycleOwned,
     BootAlone, vars, configVars, updateVars, runVars, windowVars, endVars
<1> QED
  BY <1>1, <1>2, <1>3, <1>4 DEF Inv, Typed

(* So does the answer to the user's own check.                             *)
LEMMA ManualAnsweredInv == ASSUME Inv, NEW a \in Answers, ManualAnswered(a) PROVE Inv'
<1>1. ConfigTyped' /\ CheckTyped' /\ RunTyped'
  <2>1. ConfigTyped' /\ RunTyped'
    BY DEF ManualAnswered, EnterMandatory, RuntimeStopped, StopRuntime, Inv, Typed,
       ConfigTyped, RunTyped, configVars, runVars
  <2>2. CheckTyped'
    BY DEF ManualAnswered, Finds, EnterMandatory, Offered, Checks, Inv, Typed, CheckTyped
  <2> QED
    BY <2>1, <2>2
<1>2. WindowsTyped'
  <2>1. CASE a = "mandatory"
    <3>1. windows' = windows \ {"main", "settings"} /\ orphans' = orphans /\ dialogs' = 0
      BY <2>1 DEF ManualAnswered, EnterMandatory, CloseWindows
    <3>2. windows' \subseteq {"main", "settings", "setup", "reconnect"} /\ orphans' \in BOOLEAN
      BY <3>1 DEF Inv, Typed, WindowsTyped
    <3>3. dialogs' \in 0 .. MaxDialogs /\ ~(dialogs' > 0)
      BY <3>1, DialogsAssumption
    <3> QED
      BY <3>2, <3>3 DEF WindowsTyped
  <2>2. CASE a # "mandatory"
    BY <2>2 DEF ManualAnswered, Inv, Typed, WindowsTyped,
       windowVars
  <2> QED
    BY <2>1, <2>2
<1>3. BootTyped' /\ EndTyped'
  BY DEF ManualAnswered, Finds, EnterMandatory, RuntimeStopped, StopRuntime,
     CloseWindows, Offered, Answers, Checks, Inv, Typed, ConfigTyped, BootTyped,
     EndTyped, RunTyped, vars, configVars, updateVars, runVars, windowVars, endVars
<1>4. Justified'
  BY DEF ManualAnswered, Finds, EnterMandatory, RuntimeStopped, StopRuntime,
     CloseWindows, Offered, Answers, Checks, Inv, Typed, ConfigTyped, CheckTyped,
     RunTyped, EndTyped, Justified, RuntimeJustified, MandatoryBlocks, CycleOwned,
     BootAlone, vars, configVars, updateVars, runVars, windowVars, endVars
<1> QED
  BY <1>1, <1>2, <1>3, <1>4 DEF Inv, Typed

(* Asking for an update keeps it.                                          *)
LEMMA CheckForUpdatesInv == ASSUME Inv, CheckForUpdates PROVE Inv'
<1>1. ConfigTyped' /\ CheckTyped' /\ RunTyped'
  BY DEF CheckForUpdates, Ask, Checks, Inv, Justified, MandatoryBlocks, Typed,
     ConfigTyped, CheckTyped, RunTyped, vars, configVars, updateVars, runVars,
     windowVars, endVars
<1>2. WindowsTyped'
  BY DialogsAssumption DEF CheckForUpdates, Ask, Checks, Inv, Typed, WindowsTyped, vars,
     configVars, updateVars, runVars, windowVars, endVars
<1>3. BootTyped' /\ EndTyped'
  BY DEF CheckForUpdates, Ask, Checks, Inv, Typed, ConfigTyped, BootTyped, EndTyped,
     RunTyped, vars, configVars, updateVars, runVars, windowVars, endVars
<1>4. Justified'
  BY DEF CheckForUpdates, Ask, Checks, Inv, Typed, ConfigTyped, CheckTyped, RunTyped,
     EndTyped, Justified, RuntimeJustified, MandatoryBlocks, CycleOwned, BootAlone,
     vars, configVars, updateVars, runVars, windowVars, endVars
<1> QED
  BY <1>1, <1>2, <1>3, <1>4 DEF Inv, Typed

(* Closing the window of an optional update keeps it.                      *)
LEMMA CloseUpdateInv == ASSUME Inv, CloseUpdate PROVE Inv'
<1>1. ConfigTyped' /\ CheckTyped' /\ RunTyped'
  BY DEF CloseUpdate, Inv, Justified, MandatoryBlocks, Typed, ConfigTyped, CheckTyped,
     RunTyped, vars, configVars, updateVars, runVars, windowVars, endVars
<1>2. WindowsTyped'
  BY DialogsAssumption DEF CloseUpdate, Inv, Typed, WindowsTyped, vars, configVars,
     updateVars, runVars, windowVars, endVars
<1>3. BootTyped' /\ EndTyped'
  BY DEF CloseUpdate, Inv, Typed, ConfigTyped, BootTyped, EndTyped, RunTyped, vars,
     configVars, updateVars, runVars, windowVars, endVars
<1>4. Justified'
  BY DEF CloseUpdate, Inv, Typed, ConfigTyped, CheckTyped, RunTyped, EndTyped,
     Justified, RuntimeJustified, MandatoryBlocks, CycleOwned, BootAlone, vars,
     configVars, updateVars, runVars, windowVars, endVars
<1> QED
  BY <1>1, <1>2, <1>3, <1>4 DEF Inv, Typed

(* _setup_complete keeps it: over an account it counts as raced.           *)
LEMMA SetupCompleteInv == ASSUME Inv, SetupComplete PROVE Inv'
<1>1. ConfigTyped' /\ CheckTyped' /\ RunTyped'
  BY DEF SetupComplete, CloseWindows, EnsureBootstrap, BootSteps, Inv, Justified,
     MandatoryBlocks, Typed, ConfigTyped, CheckTyped, RunTyped, vars, configVars,
     updateVars, runVars, windowVars, endVars
<1>2. WindowsTyped'
  BY DialogsAssumption DEF SetupComplete, CloseWindows, EnsureBootstrap, BootSteps, Inv,
     Typed, WindowsTyped, vars, configVars, updateVars, runVars, windowVars, endVars
<1>3. BootTyped' /\ EndTyped'
  BY DEF SetupComplete, CloseWindows, EnsureBootstrap, BootSteps, Inv, Typed,
     ConfigTyped, BootTyped, EndTyped, RunTyped, vars, configVars, updateVars, runVars,
     windowVars, endVars
<1>4. Justified'
  BY DEF SetupComplete, CloseWindows, EnsureBootstrap, BootSteps, Inv, Typed,
     ConfigTyped, CheckTyped, RunTyped, EndTyped, Justified, RuntimeJustified,
     MandatoryBlocks, CycleOwned, BootAlone, vars, configVars, updateVars, runVars,
     windowVars, endVars
<1> QED
  BY <1>1, <1>2, <1>3, <1>4 DEF Inv, Typed

(* The initialization goes on as long as it is open.                       *)
LEMMA BootMovesInv ==
  ASSUME Inv, NEW from \in BootSteps \ {"none"}, NEW to \in BootSteps, BootMoves(from, to)
  PROVE  Inv'
<1>1. ConfigTyped' /\ CheckTyped' /\ RunTyped'
  BY DEF BootMoves, Inv, Justified, MandatoryBlocks,
     Typed, ConfigTyped, CheckTyped, RunTyped, vars, configVars, updateVars, runVars,
     windowVars, endVars
<1>2. WindowsTyped'
  BY DialogsAssumption DEF BootMoves, Inv, Typed,
     WindowsTyped, vars, configVars, updateVars, runVars, windowVars, endVars
<1>3. BootTyped' /\ EndTyped'
  BY DEF BootMoves, Inv, Typed, ConfigTyped, BootTyped,
     EndTyped, RunTyped, vars, configVars, updateVars, runVars, windowVars, endVars
<1>4. Justified'
  BY DEF BootMoves, Inv, Typed, ConfigTyped, CheckTyped,
     RunTyped, EndTyped, Justified, RuntimeJustified, MandatoryBlocks, CycleOwned,
     BootAlone, vars, configVars, updateVars, runVars, windowVars, endVars
<1> QED
  BY <1>1, <1>2, <1>3, <1>4 DEF Inv, Typed

(* _bootstrap_complete keeps it: the baseline comes as the window goes.    *)
LEMMA BootstrapCompleteInv == ASSUME Inv, BootstrapComplete PROVE Inv'
<1>1. ConfigTyped' /\ CheckTyped' /\ RunTyped'
  BY DEF BootstrapComplete, EnsureRuntime, OpenWindows, Blocked, BootSteps, Inv,
     Justified, MandatoryBlocks, Typed, ConfigTyped, CheckTyped, RunTyped, vars,
     configVars, updateVars, runVars, windowVars, endVars
<1>2. WindowsTyped'
  BY DialogsAssumption DEF BootstrapComplete, EnsureRuntime, OpenWindows, Blocked,
     BootSteps, Inv, Typed, WindowsTyped, vars, configVars, updateVars, runVars,
     windowVars, endVars
<1>3. BootTyped' /\ EndTyped'
  BY DEF BootstrapComplete, EnsureRuntime, OpenWindows, Blocked, BootSteps, Inv, Typed,
     ConfigTyped, BootTyped, EndTyped, RunTyped, vars, configVars, updateVars, runVars,
     windowVars, endVars
<1>4. Justified'
  BY DEF BootstrapComplete, EnsureRuntime, OpenWindows, Blocked, BootSteps, Inv, Typed,
     ConfigTyped, CheckTyped, RunTyped, EndTyped, Justified, RuntimeJustified,
     MandatoryBlocks, CycleOwned, BootAlone, vars, configVars, updateVars, runVars,
     windowVars, endVars
<1> QED
  BY <1>1, <1>2, <1>3, <1>4 DEF Inv, Typed

(* Leaving the initialization for the reconnect window keeps it.           *)
LEMMA BootstrapReconnectInv == ASSUME Inv, BootstrapReconnect PROVE Inv'
<1>1. ConfigTyped' /\ CheckTyped' /\ RunTyped'
  BY DEF BootstrapReconnect, OpenWindows, BootSteps, Inv, Justified, MandatoryBlocks,
     Typed, ConfigTyped, CheckTyped, RunTyped, vars, configVars, updateVars, runVars,
     windowVars, endVars
<1>2. WindowsTyped'
  BY DialogsAssumption DEF BootstrapReconnect, OpenWindows, BootSteps, Inv, Typed,
     WindowsTyped, vars, configVars, updateVars, runVars, windowVars, endVars
<1>3. BootTyped' /\ EndTyped'
  BY DEF BootstrapReconnect, OpenWindows, BootSteps, Inv, Typed, ConfigTyped,
     BootTyped, EndTyped, RunTyped, vars, configVars, updateVars, runVars, windowVars,
     endVars
<1>4. Justified'
  BY DEF BootstrapReconnect, OpenWindows, BootSteps, Inv, Typed, ConfigTyped,
     CheckTyped, RunTyped, EndTyped, Justified, RuntimeJustified, MandatoryBlocks,
     CycleOwned, BootAlone, vars, configVars, updateVars, runVars, windowVars, endVars
<1> QED
  BY <1>1, <1>2, <1>3, <1>4 DEF Inv, Typed

(* Opening the reconnect window keeps it.                                  *)
LEMMA ReconnectAccountInv == ASSUME Inv, ReconnectAccount PROVE Inv'
<1>1. ConfigTyped' /\ CheckTyped' /\ RunTyped'
  BY DEF ReconnectAccount, OpenWindows, Inv, Justified, MandatoryBlocks, Typed,
     ConfigTyped, CheckTyped, RunTyped, vars, configVars, updateVars, runVars,
     windowVars, endVars
<1>2. WindowsTyped'
  BY DialogsAssumption DEF ReconnectAccount, OpenWindows, Inv, Typed, WindowsTyped,
     vars, configVars, updateVars, runVars, windowVars, endVars
<1>3. BootTyped' /\ EndTyped'
  BY DEF ReconnectAccount, OpenWindows, Inv, Typed, ConfigTyped, BootTyped, EndTyped,
     RunTyped, vars, configVars, updateVars, runVars, windowVars, endVars
<1>4. Justified'
  BY DEF ReconnectAccount, OpenWindows, Inv, Typed, ConfigTyped, CheckTyped, RunTyped,
     EndTyped, Justified, RuntimeJustified, MandatoryBlocks, CycleOwned, BootAlone,
     vars, configVars, updateVars, runVars, windowVars, endVars
<1> QED
  BY <1>1, <1>2, <1>3, <1>4 DEF Inv, Typed

(* A reconnection opens the initialization only without a baseline.        *)
LEMMA ReconnectCompleteInv == ASSUME Inv, ReconnectComplete PROVE Inv'
<1>1. ConfigTyped' /\ CheckTyped' /\ RunTyped'
  BY DEF ReconnectComplete, CloseWindows, EnsureBootstrap, BootSteps, Inv, Justified,
     MandatoryBlocks, Typed, ConfigTyped, CheckTyped, RunTyped, vars, configVars,
     updateVars, runVars, windowVars, endVars
<1>2. WindowsTyped'
  BY DialogsAssumption DEF ReconnectComplete, CloseWindows, EnsureBootstrap, BootSteps,
     Inv, Typed, WindowsTyped, vars, configVars, updateVars, runVars, windowVars,
     endVars
<1>3. BootTyped' /\ EndTyped'
  BY DEF ReconnectComplete, CloseWindows, EnsureBootstrap, BootSteps, Inv, Typed,
     ConfigTyped, BootTyped, EndTyped, RunTyped, vars, configVars, updateVars, runVars,
     windowVars, endVars
<1>4. Justified'
  BY DEF ReconnectComplete, CloseWindows, EnsureBootstrap, BootSteps, Inv, Typed,
     ConfigTyped, CheckTyped, RunTyped, EndTyped, Justified, RuntimeJustified,
     MandatoryBlocks, CycleOwned, BootAlone, vars, configVars, updateVars, runVars,
     windowVars, endVars
<1> QED
  BY <1>1, <1>2, <1>3, <1>4 DEF Inv, Typed

(* A window that closes takes its dialogs with it.                         *)
LEMMA UserClosesInv == ASSUME Inv, NEW w \in windows, UserCloses(w) PROVE Inv'
<1>1. ConfigTyped' /\ CheckTyped' /\ RunTyped'
  BY DEF UserCloses, CloseWindows, Inv, Justified, MandatoryBlocks, Typed, ConfigTyped,
     CheckTyped, RunTyped, vars, configVars, updateVars, runVars, windowVars, endVars
<1>2. WindowsTyped'
  BY DialogsAssumption DEF UserCloses, CloseWindows, Inv, Typed, WindowsTyped, vars,
     configVars, updateVars, runVars, windowVars, endVars
<1>3. BootTyped' /\ EndTyped'
  BY DEF UserCloses, CloseWindows, Inv, Typed, ConfigTyped, BootTyped, EndTyped,
     RunTyped, vars, configVars, updateVars, runVars, windowVars, endVars
<1>4. Justified'
  BY DEF UserCloses, CloseWindows, Inv, Typed, ConfigTyped, CheckTyped, RunTyped,
     EndTyped, Justified, RuntimeJustified, MandatoryBlocks, CycleOwned, BootAlone,
     vars, configVars, updateVars, runVars, windowVars, endVars
<1> QED
  BY <1>1, <1>2, <1>3, <1>4 DEF Inv, Typed

(* The runtime's own steps keep it.                                        *)
LEMMA CycleInv == ASSUME Inv, Cycle PROVE Inv'
<1>1. ConfigTyped' /\ CheckTyped' /\ RunTyped'
  BY DEF Cycle, Trigger, SyncNow, Queues, Begin, Checked, Prevented, Alerted, RunEnds,
     Moves, Inv, Justified, MandatoryBlocks, Typed, ConfigTyped, CheckTyped, RunTyped,
     vars, configVars, updateVars, runVars, windowVars, endVars
<1>2. WindowsTyped'
  BY DialogsAssumption DEF Cycle, Trigger, SyncNow, Queues, Begin, Checked, Prevented,
     Alerted, RunEnds, Moves, Inv, Typed, WindowsTyped, vars, configVars, updateVars,
     runVars, windowVars, endVars
<1>3. BootTyped' /\ EndTyped'
  BY DEF Cycle, Trigger, SyncNow, Queues, Begin, Checked, Prevented, Alerted, RunEnds,
     Moves, Inv, Typed, ConfigTyped, BootTyped, EndTyped, RunTyped, vars, configVars,
     updateVars, runVars, windowVars, endVars
<1>4. Justified'
  BY DEF Cycle, Trigger, SyncNow, Queues, Begin, Checked, Prevented, Alerted, RunEnds,
     Moves, Inv, Typed, ConfigTyped, CheckTyped, RunTyped, EndTyped, Justified,
     RuntimeJustified, MandatoryBlocks, CycleOwned, BootAlone, vars, configVars,
     updateVars, runVars, windowVars, endVars
<1> QED
  BY <1>1, <1>2, <1>3, <1>4 DEF Inv, Typed

(* The end of a signalled nextcloudcmd keeps it.                           *)
LEMMA StrayExitsInv == ASSUME Inv, StrayExits PROVE Inv'
<1>1. ConfigTyped' /\ CheckTyped' /\ RunTyped'
  BY DEF StrayExits, Inv, Justified, MandatoryBlocks, Typed, ConfigTyped, CheckTyped,
     RunTyped, vars, configVars, updateVars, runVars, windowVars, endVars
<1>2. WindowsTyped'
  BY DialogsAssumption DEF StrayExits, Inv, Typed, WindowsTyped, vars, configVars,
     updateVars, runVars, windowVars, endVars
<1>3. BootTyped' /\ EndTyped'
  BY DEF StrayExits, Inv, Typed, ConfigTyped, BootTyped, EndTyped, RunTyped, vars,
     configVars, updateVars, runVars, windowVars, endVars
<1>4. Justified'
  BY DEF StrayExits, Inv, Typed, ConfigTyped, CheckTyped, RunTyped, EndTyped,
     Justified, RuntimeJustified, MandatoryBlocks, CycleOwned, BootAlone, vars,
     configVars, updateVars, runVars, windowVars, endVars
<1> QED
  BY <1>1, <1>2, <1>3, <1>4 DEF Inv, Typed

(* A dialog opens on the main window.                                      *)
LEMMA ReviewSafetyInv == ASSUME Inv, ReviewSafety PROVE Inv'
<1>1. ConfigTyped' /\ CheckTyped' /\ RunTyped'
  BY DEF ReviewSafety, Inv, Justified, MandatoryBlocks, Typed, ConfigTyped, CheckTyped,
     RunTyped, vars, configVars, updateVars, runVars, windowVars, endVars
<1>2. WindowsTyped'
  BY DialogsAssumption DEF ReviewSafety, Inv, Typed, WindowsTyped, vars, configVars,
     updateVars, runVars, windowVars, endVars
<1>3. BootTyped' /\ EndTyped'
  BY DEF ReviewSafety, Inv, Typed, ConfigTyped, BootTyped, EndTyped, RunTyped, vars,
     configVars, updateVars, runVars, windowVars, endVars
<1>4. Justified'
  BY DEF ReviewSafety, Inv, Typed, ConfigTyped, CheckTyped, RunTyped, EndTyped,
     Justified, RuntimeJustified, MandatoryBlocks, CycleOwned, BootAlone, vars,
     configVars, updateVars, runVars, windowVars, endVars
<1> QED
  BY <1>1, <1>2, <1>3, <1>4 DEF Inv, Typed

(* approve_safety_once keeps it.                                           *)
LEMMA ApproveInv == ASSUME Inv, Approve PROVE Inv'
<1>1. ConfigTyped' /\ CheckTyped' /\ RunTyped'
  BY DEF Approve, Inv, Justified, MandatoryBlocks, Typed, ConfigTyped, CheckTyped,
     RunTyped, vars, configVars, updateVars, runVars, windowVars, endVars
<1>2. WindowsTyped'
  BY DialogsAssumption DEF Approve, Inv, Typed, WindowsTyped, vars, configVars,
     updateVars, runVars, windowVars, endVars
<1>3. BootTyped' /\ EndTyped'
  BY DEF Approve, Inv, Typed, ConfigTyped, BootTyped, EndTyped, RunTyped, vars,
     configVars, updateVars, runVars, windowVars, endVars
<1>4. Justified'
  BY DEF Approve, Inv, Typed, ConfigTyped, CheckTyped, RunTyped, EndTyped, Justified,
     RuntimeJustified, MandatoryBlocks, CycleOwned, BootAlone, vars, configVars,
     updateVars, runVars, windowVars, endVars
<1> QED
  BY <1>1, <1>2, <1>3, <1>4 DEF Inv, Typed

(* Closing a dialog keeps it.                                              *)
LEMMA KeepPausedInv == ASSUME Inv, KeepPaused PROVE Inv'
<1>1. ConfigTyped' /\ CheckTyped' /\ RunTyped'
  BY DEF KeepPaused, Inv, Justified, MandatoryBlocks, Typed, ConfigTyped, CheckTyped,
     RunTyped, vars, configVars, updateVars, runVars, windowVars, endVars
<1>2. WindowsTyped'
  BY DialogsAssumption DEF KeepPaused, Inv, Typed, WindowsTyped, vars, configVars,
     updateVars, runVars, windowVars, endVars
<1>3. BootTyped' /\ EndTyped'
  BY DEF KeepPaused, Inv, Typed, ConfigTyped, BootTyped, EndTyped, RunTyped, vars,
     configVars, updateVars, runVars, windowVars, endVars
<1>4. Justified'
  BY DEF KeepPaused, Inv, Typed, ConfigTyped, CheckTyped, RunTyped, EndTyped,
     Justified, RuntimeJustified, MandatoryBlocks, CycleOwned, BootAlone, vars,
     configVars, updateVars, runVars, windowVars, endVars
<1> QED
  BY <1>1, <1>2, <1>3, <1>4 DEF Inv, Typed

(* _start_safety_recovery drops the baseline and the runtime together.     *)
LEMMA RestoreInv == ASSUME Inv, Restore PROVE Inv'
<1>1. ConfigTyped' /\ CheckTyped' /\ RunTyped'
  BY DEF Restore, StopRuntime, CloseWindows, BaselineDropped, EnsureBootstrap,
     BootSteps, Inv, Justified, MandatoryBlocks, Typed, ConfigTyped, CheckTyped,
     RunTyped, vars, configVars, updateVars, runVars, windowVars, endVars
<1>2. WindowsTyped'
  BY DialogsAssumption DEF Restore, StopRuntime, CloseWindows, BaselineDropped,
     EnsureBootstrap, BootSteps, Inv, Typed, WindowsTyped, vars, configVars, updateVars,
     runVars, windowVars, endVars
<1>3. BootTyped' /\ EndTyped'
  BY DEF Restore, StopRuntime, CloseWindows, BaselineDropped, EnsureBootstrap,
     BootSteps, Inv, Typed, ConfigTyped, BootTyped, EndTyped, RunTyped, vars,
     configVars, updateVars, runVars, windowVars, endVars
<1>4. Justified'
  BY DEF Restore, StopRuntime, CloseWindows, BaselineDropped, EnsureBootstrap,
     BootSteps, Inv, Typed, ConfigTyped, CheckTyped, RunTyped, EndTyped, Justified,
     RuntimeJustified, MandatoryBlocks, CycleOwned, BootAlone, vars, configVars,
     updateVars, runVars, windowVars, endVars
<1> QED
  BY <1>1, <1>2, <1>3, <1>4 DEF Inv, Typed

(* Confirming a removal keeps it.                                          *)
LEMMA RemoveAccountInv == ASSUME Inv, NEW i \in Removals, RemoveAccount(i) PROVE Inv'
<1>1. ConfigTyped' /\ CheckTyped' /\ RunTyped'
  BY DEF RemoveAccount, CloseWindows, Inv, Justified, MandatoryBlocks, Typed,
     ConfigTyped, CheckTyped, RunTyped, vars, configVars, updateVars, runVars,
     windowVars, endVars
<1>2. WindowsTyped'
  BY DialogsAssumption DEF RemoveAccount, CloseWindows, Inv, Typed, WindowsTyped, vars,
     configVars, updateVars, runVars, windowVars, endVars
<1>3. BootTyped' /\ EndTyped'
  BY DEF RemoveAccount, CloseWindows, Inv, Typed, ConfigTyped, BootTyped, EndTyped,
     RunTyped, vars, configVars, updateVars, runVars, windowVars, endVars
<1>4. Justified'
  BY DEF RemoveAccount, CloseWindows, Inv, Typed, ConfigTyped, CheckTyped, RunTyped,
     EndTyped, Justified, RuntimeJustified, MandatoryBlocks, CycleOwned, BootAlone,
     vars, configVars, updateVars, runVars, windowVars, endVars
<1> QED
  BY <1>1, <1>2, <1>3, <1>4 DEF Inv, Typed

(* The removal's lookup keeps it.                                          *)
LEMMA LookedUpInv == ASSUME Inv, NEW i \in Removals, LookedUp(i) PROVE Inv'
<1>1. ConfigTyped' /\ CheckTyped' /\ RunTyped'
  BY DEF LookedUp, Waits, Inv, Justified, MandatoryBlocks, Typed, ConfigTyped,
     CheckTyped, RunTyped, vars, configVars, updateVars, runVars, windowVars, endVars
<1>2. WindowsTyped'
  BY DialogsAssumption DEF LookedUp, Waits, Inv, Typed, WindowsTyped, vars, configVars,
     updateVars, runVars, windowVars, endVars
<1>3. BootTyped' /\ EndTyped'
  BY DEF LookedUp, Waits, Inv, Typed, ConfigTyped, BootTyped, EndTyped, RunTyped, vars,
     configVars, updateVars, runVars, windowVars, endVars
<1>4. Justified'
  BY DEF LookedUp, Waits, Inv, Typed, ConfigTyped, CheckTyped, RunTyped, EndTyped,
     Justified, RuntimeJustified, MandatoryBlocks, CycleOwned, BootAlone, vars,
     configVars, updateVars, runVars, windowVars, endVars
<1> QED
  BY <1>1, <1>2, <1>3, <1>4 DEF Inv, Typed

(* The server's answer to the removal keeps it.                            *)
LEMMA RevokedInv == ASSUME Inv, NEW i \in Removals, Revoked(i) PROVE Inv'
<1>1. ConfigTyped' /\ CheckTyped' /\ RunTyped'
  BY DEF Revoked, Waits, Inv, Justified, MandatoryBlocks, Typed, ConfigTyped,
     CheckTyped, RunTyped, vars, configVars, updateVars, runVars, windowVars, endVars
<1>2. WindowsTyped'
  BY DialogsAssumption DEF Revoked, Waits, Inv, Typed, WindowsTyped, vars, configVars,
     updateVars, runVars, windowVars, endVars
<1>3. BootTyped' /\ EndTyped'
  BY DEF Revoked, Waits, Inv, Typed, ConfigTyped, BootTyped, EndTyped, RunTyped, vars,
     configVars, updateVars, runVars, windowVars, endVars
<1>4. Justified'
  BY DEF Revoked, Waits, Inv, Typed, ConfigTyped, CheckTyped, RunTyped, EndTyped,
     Justified, RuntimeJustified, MandatoryBlocks, CycleOwned, BootAlone, vars,
     configVars, updateVars, runVars, windowVars, endVars
<1> QED
  BY <1>1, <1>2, <1>3, <1>4 DEF Inv, Typed

(* finalize drops the account, its baseline and the runtime together.      *)
LEMMA FinalizeInv == ASSUME Inv, NEW i \in Removals, Finalize(i) PROVE Inv'
<1>1. ConfigTyped' /\ CheckTyped' /\ RunTyped'
  BY DEF Finalize, Waits, StopRuntime, Inv, Justified, MandatoryBlocks, Typed,
     ConfigTyped, CheckTyped, RunTyped, vars, configVars, updateVars, runVars,
     windowVars, endVars
<1>2. WindowsTyped'
  BY DialogsAssumption DEF Finalize, Waits, StopRuntime, Inv, Typed, WindowsTyped, vars,
     configVars, updateVars, runVars, windowVars, endVars
<1>3. BootTyped' /\ EndTyped'
  BY DEF Finalize, Waits, StopRuntime, Inv, Typed, ConfigTyped, BootTyped, EndTyped,
     RunTyped, vars, configVars, updateVars, runVars, windowVars, endVars
<1>4. Justified'
  BY DEF Finalize, Waits, StopRuntime, Inv, Typed, ConfigTyped, CheckTyped, RunTyped,
     EndTyped, Justified, RuntimeJustified, MandatoryBlocks, CycleOwned, BootAlone,
     vars, configVars, updateVars, runVars, windowVars, endVars
<1> QED
  BY <1>1, <1>2, <1>3, <1>4 DEF Inv, Typed

(* do_shutdown leaves nothing.                                             *)
LEMMA ShutDownInv == ASSUME Inv, ShutDown PROVE Inv'
<1>1. ConfigTyped' /\ CheckTyped' /\ RunTyped'
  BY DEF ShutDown, CloseWindows, BootSteps, Inv, Justified, MandatoryBlocks, Typed,
     ConfigTyped, CheckTyped, RunTyped, vars, configVars, updateVars, runVars,
     windowVars, endVars
<1>2. WindowsTyped'
  BY DialogsAssumption DEF ShutDown, CloseWindows, BootSteps, Inv, Typed, WindowsTyped,
     vars, configVars, updateVars, runVars, windowVars, endVars
<1>3. BootTyped' /\ EndTyped'
  BY DEF ShutDown, CloseWindows, BootSteps, Inv, Typed, ConfigTyped, BootTyped,
     EndTyped, RunTyped, vars, configVars, updateVars, runVars, windowVars, endVars
<1>4. Justified'
  BY DEF ShutDown, CloseWindows, BootSteps, Inv, Typed, ConfigTyped, CheckTyped,
     RunTyped, EndTyped, Justified, RuntimeJustified, MandatoryBlocks, CycleOwned,
     BootAlone, vars, configVars, updateVars, runVars, windowVars, endVars
<1> QED
  BY <1>1, <1>2, <1>3, <1>4 DEF Inv, Typed

(* Waiting for the run to end before quitting keeps it.                    *)
LEMMA RequestQuitInv == ASSUME Inv, RequestQuit /\ engine = "running" PROVE Inv'
<1>1. ConfigTyped' /\ CheckTyped' /\ RunTyped'
  BY DEF RequestQuit, Inv, Justified, MandatoryBlocks, Typed, ConfigTyped, CheckTyped,
     RunTyped, vars, configVars, updateVars, runVars, windowVars, endVars
<1>2. WindowsTyped'
  BY DialogsAssumption DEF RequestQuit, Inv, Typed, WindowsTyped, vars, configVars,
     updateVars, runVars, windowVars, endVars
<1>3. BootTyped' /\ EndTyped'
  BY DEF RequestQuit, Inv, Typed, ConfigTyped, BootTyped, EndTyped, RunTyped, vars,
     configVars, updateVars, runVars, windowVars, endVars
<1>4. Justified'
  BY DEF RequestQuit, Inv, Typed, ConfigTyped, CheckTyped, RunTyped, EndTyped,
     Justified, RuntimeJustified, MandatoryBlocks, CycleOwned, BootAlone, vars,
     configVars, updateVars, runVars, windowVars, endVars
<1> QED
  BY <1>1, <1>2, <1>3, <1>4 DEF Inv, Typed

-----------------------------------------------------------------------------
(* Quitting shuts down at once or waits for the run.                       *)
LEMMA QuitInv == ASSUME Inv, RequestQuit PROVE Inv'
<1>1. CASE engine = "running"
  BY <1>1, RequestQuitInv
<1>2. CASE engine # "running"
  BY <1>2, ShutDownInv DEF RequestQuit
<1> QED
  BY <1>1, <1>2

(* Every step of the initialization keeps the invariant.                   *)
LEMMA BootWorksInv == ASSUME Inv, BootWorks \/ Apply \/ Restart PROVE Inv'
<1>1. CASE Analyze
  BY <1>1, BootMovesInv DEF Analyze, BootSteps, Commands
<1>2. CASE Analyzed
  BY <1>2, BootMovesInv DEF Analyzed, BootSteps, Commands
<1>3. CASE Apply
  BY <1>3, BootMovesInv DEF Apply, BootSteps, Commands
<1>4. CASE Uploaded
  BY <1>4, BootMovesInv DEF Uploaded, BootSteps, Commands
<1>5. CASE Downloaded
  BY <1>5, BootMovesInv DEF Downloaded, BootSteps, Commands
<1>6. CASE BootFails
  <2>1. PICK from \in {"starting"} \cup Commands : BootMoves(from, "error")
    BY <1>6 DEF BootFails
  <2> QED
    BY <2>1, BootMovesInv DEF BootSteps, Commands
<1>7. CASE Restart
  BY <1>7, BootMovesInv DEF Restart, BootSteps, Commands
<1>8. CASE BootstrapComplete
  BY <1>8, BootstrapCompleteInv
<1> QED
  BY <1>1, <1>2, <1>3, <1>4, <1>5, <1>6, <1>7, <1>8 DEF BootWorks

(* The invariant is inductive.                                             *)
LEMMA NextInv == ASSUME Inv, [Next]_vars PROVE Inv'
<1>1. CASE \E show \in BOOLEAN : Activate(show)
  BY <1>1, ActivateInv
<1>2. CASE PresentUnconfigured
  BY <1>2, ActivateInv DEF PresentUnconfigured
<1>3. CASE \E w \in {"main", "settings"} : Present({w})
  BY <1>3, PresentInv
<1>4. CASE Answered
  BY <1>4, StartupAnsweredInv, ManualAnsweredInv DEF Answered
<1>5. CASE CheckForUpdates \/ CloseUpdate \/ SetupComplete
  BY <1>5, CheckForUpdatesInv, CloseUpdateInv, SetupCompleteInv
<1>6. CASE BootWorks \/ Apply \/ Restart
  BY <1>6, BootWorksInv
<1>7. CASE BootstrapReconnect \/ ReconnectAccount \/ ReconnectComplete
  BY <1>7, BootstrapReconnectInv, ReconnectAccountInv, ReconnectCompleteInv
<1>8. CASE \E w \in windows : UserCloses(w)
  BY <1>8, UserClosesInv
<1>9. CASE Cycle \/ StrayExits
  BY <1>9, CycleInv, StrayExitsInv
<1>10. CASE ReviewSafety \/ Approve \/ KeepPaused \/ Restore
  BY <1>10, ReviewSafetyInv, ApproveInv, KeepPausedInv, RestoreInv
<1>11. CASE \E i \in Removals : RemoveAccount(i) \/ Removes(i)
  BY <1>11, RemoveAccountInv, LookedUpInv, RevokedInv, FinalizeInv DEF Removes
<1>12. CASE RequestQuit \/ QuitWhenReady \/ CloseBootstrap
  BY <1>12, QuitInv, ShutDownInv DEF QuitWhenReady, CloseBootstrap
<1>13. CASE UNCHANGED vars
  BY <1>13, StutterInv
<1> QED
  BY <1>1, <1>2, <1>3, <1>4, <1>5, <1>6, <1>7, <1>8, <1>9, <1>10, <1>11, <1>12, <1>13 DEF Next

(* It holds in every behaviour.                                            *)
LEMMA Invariance == Spec => []Inv
  BY InitInv, NextInv, PTL DEF Spec

(* Every variable of the life cycle keeps its type, and a safety dialog    *)
(* never outlives the main window that it is open on.                      *)
THEOREM LifecycleTypeCorrect == Spec => []TypeOK
<1>1. Inv => TypeOK
  BY TypedIsTypeOK DEF Inv
<1> QED
  BY <1>1, Invariance, PTL

(* Synchronization is set up only with an account whose initialization is  *)
(* complete and not under a mandatory update, with the exceptions named    *)
(* there (_ensure_runtime and the handlers that stop the runtime).         *)
THEOREM RuntimeIsJustified == Spec => []RuntimeJustified
<1>1. Inv => RuntimeJustified
  BY DEF Inv, Justified
<1> QED
  BY <1>1, Invariance, PTL

-----------------------------------------------------------------------------
(* An alert is raised by a check that fails, and holds the cycle until it  *)
(* is approved or the runtime stopped.                                     *)
AlertHeld == alert => engine = "idle"

(* Nothing begins during an alert, and what stops the runtime ends it.     *)
LEMMA AlertStep == ASSUME AlertHeld, [Next]_vars PROVE AlertHeld'
<1> USE DEF AlertHeld, vars, configVars, updateVars, runVars, windowVars, endVars
<1>1. CASE \E show \in BOOLEAN : Activate(show)
  BY <1>1 DEF Activate, Reveal, EnsureRuntime
<1>2. CASE PresentUnconfigured \/ \E w \in {"main", "settings"} : Present({w})
  BY <1>2 DEF PresentUnconfigured, Activate, Present, Reveal, EnsureRuntime
<1>3. CASE Answered
  BY <1>3 DEF Answered, StartupAnswered, ManualAnswered, EnterMandatory, RuntimeStopped,
              StopRuntime, Reveal, EnsureRuntime
<1>4. CASE CheckForUpdates \/ CloseUpdate \/ SetupComplete
  BY <1>4 DEF CheckForUpdates, CloseUpdate, SetupComplete
<1>5. CASE BootWorks \/ Apply \/ Restart
  BY <1>5 DEF BootWorks, Analyze, Analyzed, Apply, Uploaded, Downloaded, BootFails, Restart,
              BootMoves, BootstrapComplete, EnsureRuntime
<1>6. CASE BootstrapReconnect \/ ReconnectAccount \/ ReconnectComplete
  BY <1>6 DEF BootstrapReconnect, ReconnectAccount, ReconnectComplete
<1>7. CASE \E w \in windows : UserCloses(w)
  BY <1>7 DEF UserCloses
<1>8. CASE Cycle \/ StrayExits
  BY <1>8 DEF Cycle, Trigger, SyncNow, Queues, Begin, Checked, Prevented, Alerted, RunEnds, Moves,
              StrayExits
<1>9. CASE ReviewSafety \/ Approve \/ KeepPaused \/ Restore
  BY <1>9 DEF ReviewSafety, Approve, KeepPaused, Restore, StopRuntime
<1>10. CASE \E i \in Removals : RemoveAccount(i) \/ Removes(i)
  BY <1>10 DEF RemoveAccount, Removes, LookedUp, Revoked, Finalize, StopRuntime
<1>11. CASE RequestQuit \/ QuitWhenReady \/ CloseBootstrap
  BY <1>11 DEF RequestQuit, QuitWhenReady, CloseBootstrap, ShutDown
<1>12. CASE UNCHANGED vars
  BY <1>12
<1> QED
  BY <1>1, <1>2, <1>3, <1>4, <1>5, <1>6, <1>7, <1>8, <1>9, <1>10, <1>11, <1>12 DEF Next

(* It holds in every behaviour.                                            *)
LEMMA AlertAlways == Spec => []AlertHeld
<1>1. Init => AlertHeld
  BY DEF Init, AlertHeld
<1> QED
  BY <1>1, AlertStep, PTL DEF Spec

(* What leaves a run ending.                                               *)
Leaves ==
  \/ ~mandatory /\ mandatory'
  \/ \E i \in Removals : Finalize(i)
  \/ Restore /\ ~alert
  \/ down'

(* Whoever signals a run stops the runtime, and starts no other command.   *)
Signals == engine' = "idle" /\ (boot' \in Commands => boot \in Commands /\ engine = "running")

(* Only a runtime that stops, or the application, leaves a run ending.     *)
LEMMA StrayStep ==
  ASSUME Inv, AlertHeld, [Next]_vars, ~stray, stray'
  PROVE  Signals /\ Leaves
<1> USE DEF vars, configVars, updateVars, runVars, windowVars, endVars
<1>1. CASE \E show \in BOOLEAN : Activate(show)
  BY <1>1 DEF Activate
<1>2. CASE PresentUnconfigured \/ \E w \in {"main", "settings"} : Present({w})
  BY <1>2 DEF PresentUnconfigured, Activate, Present
<1>3. CASE Answered
  <2>1. EnterMandatory
    BY <1>3 DEF Answered, StartupAnswered, ManualAnswered
  <2>2. engine = "running" /\ engine' = "idle" /\ boot' = boot /\ mandatory'
    BY <2>1 DEF EnterMandatory, RuntimeStopped, StopRuntime
  <2>3. ~mandatory
    BY <2>2 DEF Inv, Justified, MandatoryBlocks, CycleOwned
  <2> QED
    BY <2>2, <2>3 DEF Signals, Leaves
<1>4. CASE CheckForUpdates \/ CloseUpdate \/ SetupComplete
  BY <1>4 DEF CheckForUpdates, CloseUpdate, SetupComplete
<1>5. CASE BootWorks \/ Apply \/ Restart
  BY <1>5 DEF BootWorks, Analyze, Analyzed, Apply, Uploaded, Downloaded, BootFails, Restart,
              BootMoves, BootstrapComplete
<1>6. CASE BootstrapReconnect \/ ReconnectAccount \/ ReconnectComplete
  BY <1>6 DEF BootstrapReconnect, ReconnectAccount, ReconnectComplete
<1>7. CASE \E w \in windows : UserCloses(w)
  BY <1>7 DEF UserCloses
<1>8. CASE Cycle \/ StrayExits
  BY <1>8 DEF Cycle, Trigger, SyncNow, Queues, Begin, Checked, Prevented, Alerted, RunEnds, Moves,
              StrayExits
<1>9. CASE ReviewSafety \/ Approve \/ KeepPaused
  BY <1>9 DEF ReviewSafety, Approve, KeepPaused
<1>10. CASE Restore
  <2>1. engine = "running" /\ engine' = "idle"
    BY <1>10 DEF Restore, StopRuntime
  <2>2. boot' \in Commands => boot \in Commands
    BY <1>10 DEF Restore, EnsureBootstrap, Commands
  <2>3. ~alert
    BY <2>1 DEF AlertHeld
  <2> QED
    BY <1>10, <2>1, <2>2, <2>3 DEF Signals, Leaves
<1>11. CASE \E i \in Removals : RemoveAccount(i) \/ Removes(i)
  <2>1. PICK i \in Removals : RemoveAccount(i) \/ Removes(i)
    BY <1>11
  <2>2. Finalize(i)
    BY <2>1 DEF RemoveAccount, Removes, LookedUp, Revoked
  <2> QED
    BY <2>2 DEF Finalize, StopRuntime, Signals, Leaves
<1>12. CASE RequestQuit \/ QuitWhenReady \/ CloseBootstrap
  <2>1. ShutDown
    BY <1>12 DEF RequestQuit, QuitWhenReady, CloseBootstrap
  <2> QED
    BY <2>1 DEF ShutDown, Commands, Signals, Leaves
<1>13. CASE UNCHANGED vars
  BY <1>13
<1> QED
  BY <1>1, <1>2, <1>3, <1>4, <1>5, <1>6, <1>7, <1>8, <1>9, <1>10, <1>11, <1>12, <1>13 DEF Next

(* Two nextcloudcmd come to overlap only while one that a stopped runtime  *)
(* signalled is still ending, or with the two exceptions of                *)
(* RuntimeJustified; and one is left ending only by a mandatory update, a  *)
(* removal, a recovery from a dialog that outlived its alert, or shutdown  *)
(* (SyncEngine.cancel, _start_safety_recovery, finalize).                  *)
THEOREM OverlapIsNamed == Spec => OverlapOnlyBy
<1>1. ASSUME Inv, OneActive', AlertHeld, [Next]_vars, ~Overlap, Overlap', ~stray PROVE raced'
  <2>1. CASE stray'
    <3>1. Signals
      BY <1>1, <2>1, StrayStep
    <3>2. boot' \in Commands
      BY <1>1, <3>1 DEF Overlap, Signals
    <3> QED
      BY <1>1, <3>1, <3>2 DEF Overlap, Signals
  <2>2. CASE ~stray'
    <3>1. engine' = "running" /\ boot' \in Commands
      BY <1>1, <2>2 DEF Overlap
    <3> QED
      BY <1>1, <3>1 DEF OneActive
  <2> QED
    BY <2>1, <2>2
<1>2. ASSUME Inv, AlertHeld, [Next]_vars, ~stray, stray' PROVE Leaves
  BY <1>2, StrayStep
<1>3. Inv /\ OneActive' /\ AlertHeld /\ [Next]_vars
        => [/\ ~Overlap /\ Overlap' => stray \/ raced'
            /\ ~stray /\ stray' => \/ ~mandatory /\ mandatory'
                                   \/ \E i \in Removals : Finalize(i)
                                   \/ Restore /\ ~alert
                                   \/ down']_vars
  BY <1>1, <1>2 DEF Leaves
<1> QED
  BY <1>3, InvOneActive, Invariance, AlertAlways, PTL DEF Spec, OverlapOnlyBy

-----------------------------------------------------------------------------
(* What a step may open under a mandatory update.                          *)
OpensWindow == ~(windows' \subseteq windows)

OpensBoot == boot = "none" /\ boot' # "none"

(* Every way to a window asks for the update, but a removal under way; and *)
(* every way to the initialization, but a setup or a reconnection.         *)
LEMMA MandatoryStep ==
  ASSUME Inv, [Next]_vars, mandatory'
  PROVE  /\ OpensWindow => \E i \in Removals : Finalize(i)
         /\ OpensBoot => SetupComplete \/ ReconnectComplete
<1> USE DEF OpensWindow, OpensBoot, vars, configVars, updateVars, runVars, windowVars, endVars
<1>1. CASE \E show \in BOOLEAN : Activate(show)
  BY <1>1 DEF Activate, Reveal, Blocked
<1>2. CASE PresentUnconfigured \/ \E w \in {"main", "settings"} : Present({w})
  BY <1>2 DEF PresentUnconfigured, Activate, Present, Reveal, Blocked
<1>3. CASE Answered
  BY <1>3 DEF Answered, StartupAnswered, ManualAnswered, EnterMandatory, CloseWindows, Reveal,
              Blocked
<1>4. CASE CheckForUpdates \/ CloseUpdate
  BY <1>4 DEF CheckForUpdates, CloseUpdate
<1>5. CASE SetupComplete \/ ReconnectComplete
  BY <1>5 DEF SetupComplete, ReconnectComplete, CloseWindows
<1>6. CASE Analyze \/ Analyzed \/ Apply \/ Uploaded \/ Downloaded \/ BootFails \/ Restart
  BY <1>6 DEF Analyze, Analyzed, Apply, Uploaded, Downloaded, BootFails, Restart, BootMoves,
              Commands
<1>7. CASE BootstrapComplete \/ BootstrapReconnect \/ ReconnectAccount
  BY <1>7 DEF BootstrapComplete, BootstrapReconnect, ReconnectAccount, OpenWindows, Blocked
<1>8. CASE \E w \in windows : UserCloses(w)
  BY <1>8 DEF UserCloses, CloseWindows
<1>9. CASE Cycle \/ StrayExits
  BY <1>9 DEF Cycle, Trigger, SyncNow, Queues, Begin, Checked, Prevented, Alerted, RunEnds, Moves,
              StrayExits
<1>10. CASE ReviewSafety \/ Approve \/ KeepPaused
  BY <1>10 DEF ReviewSafety, Approve, KeepPaused
<1>11. CASE Restore
  <2>1. ~mandatory
    BY <1>11 DEF Restore, Inv, Typed, WindowsTyped, Justified, MandatoryBlocks
  <2> QED
    BY <1>11, <2>1 DEF Restore
<1>12. CASE \E i \in Removals : RemoveAccount(i) \/ Removes(i)
  BY <1>12 DEF RemoveAccount, Removes, LookedUp, Revoked, Finalize, CloseWindows
<1>13. CASE RequestQuit \/ QuitWhenReady \/ CloseBootstrap
  BY <1>13 DEF RequestQuit, QuitWhenReady, CloseBootstrap, ShutDown, CloseWindows
<1>14. CASE UNCHANGED vars
  BY <1>14
<1> QED
  BY <1>1, <1>2, <1>3, <1>4, <1>5, <1>6, <1>7, <1>8, <1>9, <1>10, <1>11, <1>12, <1>13, <1>14
  DEF Next, BootWorks

(* Under a mandatory update its window stays, nothing of the runtime is    *)
(* there, neither main window nor settings are open, no window opens but   *)
(* the setup window of a removal under way, and an initialization begins   *)
(* only when a setup or a reconnection that was open completes; one that   *)
(* was open goes on (_enter_mandatory_update_mode and what asks _blocked). *)
THEOREM MandatoryIsNamed == Spec => MandatoryAllowsOnly
<1>1. ASSUME Inv, Inv', [Next]_vars, mandatory'
      PROVE  /\ update' = "mandatory" /\ runtime' = "none" /\ engine' = "idle"
             /\ windows' \cap {"main", "settings"} = {}
             /\ windows' \subseteq windows \/ \E i \in Removals : Finalize(i)
             /\ boot = "none" /\ boot' # "none" => SetupComplete \/ ReconnectComplete
  <2>1. MandatoryBlocks' /\ CycleOwned'
    BY <1>1 DEF Inv, Justified
  <2> QED
    BY <1>1, <2>1, MandatoryStep DEF MandatoryBlocks, CycleOwned, OpensWindow, OpensBoot
<1>2. Inv /\ Inv' /\ [Next]_vars
        => [mandatory' =>
              /\ update' = "mandatory" /\ runtime' = "none" /\ engine' = "idle"
              /\ windows' \cap {"main", "settings"} = {}
              /\ windows' \subseteq windows \/ \E i \in Removals : Finalize(i)
              /\ boot = "none" /\ boot' # "none" => SetupComplete \/ ReconnectComplete]_vars
  BY <1>1
<1> QED
  BY <1>2, Invariance, PTL DEF Spec, MandatoryAllowsOnly

-----------------------------------------------------------------------------
(* Only finalize ends a removal, and it forgets the account.               *)
Forgets(i) == removals[i] # "none" /\ removals'[i] = "none" => ~account' /\ ~baseline'

(* A step of one removal to a callback leaves the others where they are.   *)
LEMMA OtherRemovals ==
  ASSUME Typed, NEW i \in Removals, NEW j \in Removals, NEW to,
         removals' = [removals EXCEPT ![j] = to], to # "none" \/ (~account' /\ ~baseline')
  PROVE  Forgets(i)
<1>1. CASE i = j
  BY <1>1 DEF Typed, EndTyped, Forgets
<1>2. CASE i # j
  BY <1>2 DEF Typed, EndTyped, Forgets
<1> QED
  BY <1>1, <1>2

(* No other handler touches the removals.                                  *)
LEMMA RemovalsKept ==
  ASSUME [Next]_vars, ~ \E i \in Removals : RemoveAccount(i) \/ Removes(i)
  PROVE  removals' = removals
<1> USE DEF vars, configVars, updateVars, runVars, windowVars, endVars
<1>1. CASE \E show \in BOOLEAN : Activate(show)
  BY <1>1 DEF Activate
<1>2. CASE PresentUnconfigured \/ \E w \in {"main", "settings"} : Present({w})
  BY <1>2 DEF PresentUnconfigured, Activate, Present
<1>3. CASE Answered
  BY <1>3 DEF Answered, StartupAnswered, ManualAnswered
<1>4. CASE CheckForUpdates \/ CloseUpdate \/ SetupComplete
  BY <1>4 DEF CheckForUpdates, CloseUpdate, SetupComplete
<1>5. CASE BootWorks \/ Apply \/ Restart
  BY <1>5 DEF BootWorks, Analyze, Analyzed, Apply, Uploaded, Downloaded, BootFails, Restart,
              BootMoves, BootstrapComplete
<1>6. CASE BootstrapReconnect \/ ReconnectAccount \/ ReconnectComplete
  BY <1>6 DEF BootstrapReconnect, ReconnectAccount, ReconnectComplete
<1>7. CASE \E w \in windows : UserCloses(w)
  BY <1>7 DEF UserCloses
<1>8. CASE Cycle \/ StrayExits
  BY <1>8 DEF Cycle, Trigger, SyncNow, Queues, Begin, Checked, Prevented, Alerted, RunEnds, Moves,
              StrayExits
<1>9. CASE ReviewSafety \/ Approve \/ KeepPaused \/ Restore
  BY <1>9 DEF ReviewSafety, Approve, KeepPaused, Restore
<1>10. CASE RequestQuit \/ QuitWhenReady \/ CloseBootstrap
  BY <1>10 DEF RequestQuit, QuitWhenReady, CloseBootstrap, ShutDown
<1>11. CASE UNCHANGED vars
  BY <1>11
<1> QED
  BY <1>1, <1>2, <1>3, <1>4, <1>5, <1>6, <1>7, <1>8, <1>9, <1>10, <1>11 DEF Next

(* A confirmed removal ends only with the account forgotten, whatever      *)
(* setup, update or other removal goes on meanwhile (remove_account).      *)
THEOREM RemovalIsForgetting == Spec => RemovalForgets
<1>1. ASSUME Inv, [Next]_vars, NEW i \in Removals PROVE Forgets(i)
  <2>1. CASE ~ \E j \in Removals : RemoveAccount(j) \/ Removes(j)
    BY <1>1, <2>1, RemovalsKept DEF Forgets
  <2>2. ASSUME NEW j \in Removals, RemoveAccount(j) \/ Removes(j) PROVE Forgets(i)
    <3>1. \E to : /\ removals' = [removals EXCEPT ![j] = to]
                  /\ to # "none" \/ (~account' /\ ~baseline')
      BY <2>2 DEF RemoveAccount, Removes, LookedUp, Revoked, Finalize, Waits
    <3> QED
      BY <1>1, <3>1, OtherRemovals DEF Inv
  <2> QED
    BY <2>1, <2>2
<1>2. Inv /\ [Next]_vars
        => [\A i \in Removals :
              removals[i] # "none" /\ removals'[i] = "none" => ~account' /\ ~baseline']_vars
  BY <1>1 DEF Forgets
<1> QED
  BY <1>2, Invariance, PTL DEF Spec, RemovalForgets
=============================================================================
