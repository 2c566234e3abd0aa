--------------------------- MODULE MCApplication ---------------------------
(***************************************************************************)
(* The application's life cycle with two removals under way together,      *)
(* which are alike, and the protected initialization (Bootstrap), whose    *)
(* steps Lifecycle has without its files, for TLC.  As in MCAccount a      *)
(* behaviour is one of a single part, and the other stays as it is.        *)
(***************************************************************************)
EXTENDS Lifecycle, Bootstrap, TLC

CONSTANTS r1, r2      \* the removals

MCRemovals == {r1, r2}

Symmetry == Permutations(MCRemovals)

VARIABLE part     \* the part whose behaviour this is

allVars == <<part, vars, bootstrapVars>>

(* A part that stays as it is has one initial state.                       *)
AllInit ==
  /\ part \in {"lifecycle", "bootstrap"}
  /\ Init /\ (part # "lifecycle" => ~account)
  /\ BootstrapInit /\ (part # "bootstrap" => local = Empty /\ remote = Empty)

(* At most two of the removals, the dialogs, the lost setup windows and the*)
(* user's own update check are under way together.                         *)
Bounded ==
  Cardinality({i \in Removals : removals'[i] # "none"}) + dialogs'
    + (IF requests'["manual"] = "none" THEN 0 ELSE 1) + (IF orphans' THEN 1 ELSE 0) <= 2

AllNext ==
  \/ part = "lifecycle" /\ Next /\ Bounded /\ UNCHANGED <<part, bootstrapVars>>
  \/ part = "bootstrap" /\ BootstrapNext /\ UNCHANGED <<part, vars>>

AllSpec == AllInit /\ [][AllNext]_allVars

-----------------------------------------------------------------------------
(* Everything has its type, in the part whose behaviour this is.           *)
PartsTyped == IF part = "bootstrap" THEN BootstrapTypeOK ELSE TypeOK
=============================================================================
