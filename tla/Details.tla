------------------------------ MODULE Details ------------------------------
(***************************************************************************)
(* The account and server details: RemoteDetailsRefresher                  *)
(* (nextcloud/details_refresher.py), the explicit refresh of the settings  *)
(* window (ui/settings.py), the answers of NextcloudApi (nextcloud/api.py) *)
(* and what the configuration keeps of them (storage/remote_details.py).   *)
(*                                                                         *)
(* A saved detail is abstracted to the account it is about, a password to  *)
(* its number: reconnecting stores the next one.  A generation number is   *)
(* never used twice, also when a new runtime makes a new refresher: the    *)
(* old one stays inactive, which is what its callbacks look at first.      *)
(***************************************************************************)
EXTENDS Naturals

CONSTANTS MaxAccounts, MaxPasswords, MaxAsked     \* bounds

ASSUME BoundsAssumption ==
  MaxAccounts \in Nat \ {0} /\ MaxPasswords \in Nat \ {0} /\ MaxAsked \in Nat \ {0}

VARIABLES
  account,           \* the configured account, or 0
  password,          \* the number of the stored password
  rejects,           \* the server rejects it
  required,          \* scheduler._authentication_required
  open,              \* [asker -> it is active: _active, not _closed]
  generation,        \* [asker -> the refresh whose answer it wants, or 0]
  asked,             \* how many refreshes were asked for
  pending,           \* those that wait for the keyring or the server
  saved,             \* [detail -> the account it is about, or 0]
  latest,            \* history: [asker -> its latest refresh that was saved]
  stale              \* history: the last rejection was of a password that had been replaced

accountVars == <<account, password, rejects>>
askVars == <<open, generation, asked, pending>>
detailsVars == <<accountVars, required, askVars, saved, latest, stale>>

Askers == {"refresher", "settings"}
Kinds == {"full", "storage"}
Fields == {"identity", "storage", "server"}
Requests == [by : Askers, kind : Kinds, gen : 1 .. MaxAsked, account : 1 .. MaxAccounts,
             step : {"lookup", "sent"}, password : 1 .. MaxPasswords]

(* Everything has its type.                                                *)
DetailsTypeOK ==
  /\ account \in 0 .. MaxAccounts /\ password \in 1 .. MaxPasswords
  /\ rejects \in BOOLEAN /\ required \in BOOLEAN /\ stale \in BOOLEAN
  /\ open \in [Askers -> BOOLEAN] /\ generation \in [Askers -> 0 .. MaxAsked]
  /\ asked \in 0 .. MaxAsked /\ pending \subseteq Requests
  /\ saved \in [Fields -> 0 .. MaxAccounts] /\ latest \in [Askers -> 0 .. MaxAsked]

DetailsInit ==
  /\ account = 1 /\ password = 1 /\ rejects \in BOOLEAN /\ required = FALSE /\ stale = FALSE
  /\ open = [a \in Askers |-> FALSE] /\ generation = [a \in Askers |-> 0]
  /\ asked = 0 /\ pending = {} /\ saved \in {[f \in Fields |-> 0], [f \in Fields |-> 1]}
  /\ latest = [a \in Askers |-> 0]

-----------------------------------------------------------------------------
(* refresh_account, and refresh_account_details of the settings window.    *)
Ask(by, kind) ==
  /\ asked < MaxAsked /\ asked' = asked + 1
  /\ generation' = [generation EXCEPT ![by] = asked + 1]
  /\ pending' = pending \cup {[by |-> by, kind |-> kind, gen |-> asked + 1, account |-> account,
                               step |-> "lookup", password |-> password]}

(* What every callback asks first.                                         *)
AnyGeneration(r) == open[r.by]     \* mutant: the generation is not compared

Wanted(r) == open[r.by] /\ generation[r.by] = r.gen

Drop(r) ==
  /\ pending' = pending \ {r}
  /\ UNCHANGED <<accountVars, required, open, generation, asked, saved, latest, stale>>

Ignored(r) == ~Wanted(r) /\ Drop(r)

(* credential_ready: the password is the one that is stored by then.       *)
Send(r) ==
  /\ r.step = "lookup" /\ Wanted(r)
  /\ pending' = (pending \ {r}) \cup {[r EXCEPT !.step = "sent", !.password = password]}
  /\ UNCHANGED <<accountVars, required, open, generation, asked, saved, latest, stale>>

Ends(r) == /\ pending' = pending \ {r}
           /\ UNCHANGED <<accountVars, open, generation, asked>>

NoCredential(r) == /\ r.step = "lookup" /\ Wanted(r) /\ Ends(r)
                   /\ UNCHANGED <<required, saved, latest, stale>>

(* account_ready: only the settings window tells the scheduler of a        *)
(* rejection; a rate limit, another status or a malformed answer says      *)
(* nothing about the credential.                                           *)
RejectedBy(r) == r.password # password \/ rejects

Rejected(r) ==
  /\ r.step = "sent" /\ Wanted(r) /\ RejectedBy(r) /\ Ends(r) /\ UNCHANGED <<saved, latest>>
  /\ IF r.by = "settings" THEN required' = TRUE /\ stale' = (r.password # password)
     ELSE UNCHANGED <<required, stale>>

UnavailableRejects(r) ==     \* mutant: any status but 200 counts as a rejection
  /\ r.step = "sent" /\ Wanted(r) /\ Ends(r) /\ UNCHANGED <<saved, latest, stale>>
  /\ required' = (required \/ r.by = "settings")

Unavailable(r) == /\ r.step = "sent" /\ Wanted(r) /\ Ends(r)
                  /\ UNCHANGED <<required, saved, latest, stale>>

(* The refresher compares the account again; the settings window does not. *)
SameAccount(r) == r.by = "settings" \/ (account # 0 /\ r.account = account)

Stores(r) == [saved EXCEPT !["storage"] = r.account,
                           !["identity"] = IF r.kind = "full" THEN r.account ELSE @]

Read(r) ==
  /\ r.step = "sent" /\ Wanted(r) /\ SameAccount(r) /\ Ends(r)
  /\ saved' = Stores(r) /\ latest' = [latest EXCEPT ![r.by] = r.gen]
  /\ UNCHANGED <<required, stale>>

(* status.php needs no credential; its generation moves only with stop.    *)
ServerRead(by) ==
  /\ open[by] /\ account # 0 /\ saved' = [saved EXCEPT !["server"] = account]
  /\ UNCHANGED <<accountVars, required, askVars, latest, stale>>

-----------------------------------------------------------------------------
(* The application.                                                        *)
Start ==
  /\ account # 0 /\ ~open["refresher"] /\ open' = [open EXCEPT !["refresher"] = TRUE]
  /\ Ask("refresher", "full")
  /\ UNCHANGED <<accountVars, required, saved, latest, stale>>

(* _sync_completed, after a successful run.                                *)
SyncCompleted ==
  /\ open["refresher"] /\ Ask("refresher", "storage")
  /\ UNCHANGED <<accountVars, required, open, saved, latest, stale>>

OpenSettings ==
  /\ open["refresher"] /\ ~open["settings"] /\ open' = [open EXCEPT !["settings"] = TRUE]
  /\ UNCHANGED <<accountVars, required, generation, asked, pending, saved, latest, stale>>

RefreshInSettings ==
  /\ open["settings"] /\ Ask("settings", "full")
  /\ UNCHANGED <<accountVars, required, open, saved, latest, stale>>

CloseSettings ==
  /\ open["settings"] /\ open' = [open EXCEPT !["settings"] = FALSE]
  /\ generation' = [generation EXCEPT !["settings"] = 0]
  /\ UNCHANGED <<accountVars, required, asked, pending, saved, latest, stale>>

Revoke ==
  /\ rejects' = TRUE
  /\ UNCHANGED <<account, password, required, askVars, saved, latest, stale>>

(* _reconnect_complete: the details came with the new password.            *)
Reconnect ==
  /\ account # 0 /\ password < MaxPasswords /\ password' = password + 1 /\ rejects' = FALSE
  /\ required' = FALSE /\ stale' = FALSE
  /\ saved' = [saved EXCEPT !["identity"] = account, !["storage"] = account]
  /\ UNCHANGED <<account, askVars, latest>>

(* remove_account's finalize: settings window, runtime, reset_account.     *)
SettingsLeft == [open EXCEPT !["refresher"] = FALSE]     \* mutant: the window is not closed

AllClosed == [a \in Askers |-> FALSE]

RemoveAccount ==
  /\ account # 0 /\ account' = 0 /\ open' = AllClosed /\ required' = FALSE /\ stale' = FALSE
  /\ generation' = [a \in Askers |-> IF open'[a] THEN generation[a] ELSE 0]
  /\ saved' = [f \in Fields |-> 0]
  /\ UNCHANGED <<password, rejects, asked, pending, latest>>

(* SetupWindow._finish_setup clears what an earlier account left.          *)
SetUp ==
  /\ account = 0 /\ account' \in 1 .. MaxAccounts /\ saved' = [f \in Fields |-> 0]
  /\ rejects' = FALSE
  /\ UNCHANGED <<password, required, askVars, latest, stale>>

-----------------------------------------------------------------------------
Answer(r) == Ignored(r) \/ Send(r) \/ NoCredential(r) \/ Rejected(r) \/ Unavailable(r) \/ Read(r)

DetailsNext ==
  \/ \E r \in pending : Answer(r)
  \/ \E a \in Askers : ServerRead(a)
  \/ Start \/ SyncCompleted \/ OpenSettings \/ RefreshInSettings \/ CloseSettings
  \/ Revoke \/ Reconnect \/ RemoveAccount \/ SetUp

DetailsSpec == DetailsInit /\ [][DetailsNext]_detailsVars

-----------------------------------------------------------------------------
(* What is saved is about the account that is configured, whatever answers *)
(* were under way when the account was removed and set up again            *)
(* (account_ready's checks, clear_remote_details).                         *)
SavedOfAccount == \A f \in Fields : saved[f] \in {0, account}

(* The answer of an earlier refresh never replaces that of a later one of  *)
(* the same asker (_account_generation, _account_refresh_generation).      *)
OlderNeverReplaces == [][\A a \in Askers : latest'[a] >= latest[a]]_detailsVars

(* Synchronization waits for a reconnection only if the server rejects the *)
(* stored password, or the answer to a request that was sent with the one  *)
(* before came late; a rate limit, an outage or a malformed answer never   *)
(* makes it wait (account_ready, authentication_rejected).                 *)
RequiredOnlyBy == required => rejects \/ stale
=============================================================================
