----------------------------- MODULE MCTriggers -----------------------------
(***************************************************************************)
(* What asks for synchronizations, for TLC: the controller (Runtime) and   *)
(* the push client that it only starts and stops (NotifyPush).  As in      *)
(* MCAccount a behaviour is one of a single part, and the other stays as it*)
(* is.                                                                     *)
(***************************************************************************)
EXTENDS Runtime, NotifyPush

VARIABLE part     \* the part whose behaviour this is

allVars == <<part, vars, clientVars>>

(* A part that stays as it is has one initial state.                       *)
AllInit ==
  /\ part \in {"runtime", "push"}
  /\ Init /\ (part # "runtime" => 
               settings = [inotify |-> TRUE, excludes |-> 0, interval |-> FALSE,
                           remote |-> FALSE, push |-> TRUE, trust |-> FALSE])
  /\ PushInit

AllNext ==
  \/ part = "runtime" /\ Next /\ UNCHANGED <<part, clientVars>>
  \/ part = "push" /\ PushNext /\ UNCHANGED <<part, vars>>

(* The steps each part is fair to, of the part that moves.                 *)
AllProgress ==
  \/ part = "runtime" /\ Recover /\ UNCHANGED <<part, clientVars>>
  \/ part = "push" /\ Progress /\ UNCHANGED <<part, vars>>

AllSpec ==
  AllInit /\ [][AllNext]_allVars /\ WF_allVars(AllProgress)

-----------------------------------------------------------------------------
(* Everything has its type, in each part.                                  *)
PartsTyped == TypeOK /\ PushTypeOK
=============================================================================
