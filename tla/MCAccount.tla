----------------------------- MODULE MCAccount -----------------------------
(***************************************************************************)
(* The parts that deal with the account's credential and details, for TLC: *)
(* Details, Keyring, Reconnect and Setup.  They share no state, so that    *)
(* their composition has every combination of their states and says no     *)
(* more than each alone.  A behaviour is therefore one of a single part,   *)
(* chosen at first, while the others stay as they are.                     *)
(*                                                                         *)
(* The two windows take turns with the variables of one login flow.        *)
(***************************************************************************)
EXTENDS Details, Keyring, Reconnect, Setup

VARIABLE part     \* the part whose behaviour this is

reconnectOnly == <<closed, lookups, old_password, windowVars>>
setupOnly == <<page, server, username, browsing, validating, stores, keyring, configured,
               overtaken>>
allVars == <<part, vars, detailsVars, flowVars, reconnectOnly, setupOnly>>

(* A part that stays as it is has one initial state.                       *)
AllInit ==
  /\ part \in {"details", "keyring", "reconnect", "setup"}
  /\ DetailsInit /\ (part # "details" => ~rejects /\ saved["storage"] = 0)
  /\ Init /\ (part # "keyring" => items["current"] + items["legacy"] = 0 /\ orphans = {}
                                     /\ ~locked)
  /\ ReconnectInit /\ (part # "reconnect" => in_keyring = None)
  /\ SetupInit

AllNext ==
  \/ /\ part = "details" /\ DetailsNext
     /\ UNCHANGED <<part, vars, flowVars, reconnectOnly, setupOnly>>
  \/ /\ part = "keyring" /\ Next
     /\ UNCHANGED <<part, detailsVars, flowVars, reconnectOnly, setupOnly>>
  \/ part = "reconnect" /\ ReconnectNext /\ UNCHANGED <<part, vars, detailsVars, setupOnly>>
  \/ part = "setup" /\ SetupNext /\ UNCHANGED <<part, vars, detailsVars, reconnectOnly>>

(* The lookups of the keyring go on.                                       *)
AllSpec == AllInit /\ [][AllNext]_allVars /\ WF_vars(part = "keyring" /\ Progress)

-----------------------------------------------------------------------------
(* Everything has its type, in the part whose behaviour this is.           *)
PartsTyped ==
  /\ part = "keyring" => TypeOK
  /\ part = "details" => DetailsTypeOK
  /\ part = "reconnect" => ReconnectTypeOK
  /\ part = "setup" => SetupTypeOK
=============================================================================
