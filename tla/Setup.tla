------------------------------- MODULE Setup -------------------------------
(***************************************************************************)
(* The setup assistant (ui/setup.py): the server page, browser or manual   *)
(* sign-in, the keyring write, the folder and the summary.  The assistant  *)
(* keeps one server and one user name, which its pages and the answers to  *)
(* earlier requests all write.                                             *)
(***************************************************************************)
EXTENDS LoginFlow

CONSTANTS Server, User, Nobody     \* Nobody: no name yet, unequal to all of them

ASSUME NobodyAssumption == Nobody \notin Server \cup User

VARIABLES
  page,
  server, username,   \* self.server, self.username
  browsing,           \* the server the browser flow was started at
  validating,         \* the account whose validation is in flight; one at a time
  stores,             \* keyring writes under way
  keyring,            \* the accounts with a verified credential
  configured,         \* the account saved at the end
  overtaken           \* history: a step was taken while an earlier one was under way

setupVars == <<flowVars, page, server, username, browsing, validating, stores, keyring,
              configured, overtaken>>

Account == [server : Server, user : User]
NoAccount == [server |-> Nobody, user |-> Nobody]

(* Everything has its type.                                                *)
SetupTypeOK ==
  /\ FlowTypeOK
  /\ page \in {"welcome", "server", "authentication", "folder", "summary", "done"}
  /\ server \in Server \cup {Nobody} /\ username \in User \cup {Nobody}
  /\ browsing \in Server \cup {Nobody}
  /\ validating \in Account \cup {NoAccount}
  /\ stores \subseteq Account /\ keyring \subseteq Account
  /\ configured \in Account \cup {NoAccount} /\ overtaken \in BOOLEAN

SetupInit ==
  /\ FlowInit /\ page = "welcome" /\ server = Nobody /\ username = Nobody
  /\ browsing = Nobody /\ validating = NoAccount /\ stores = {} /\ keyring = {}
  /\ configured = NoAccount /\ overtaken = FALSE

-----------------------------------------------------------------------------
Pending == FlowActive \/ validating # NoAccount \/ stores # {}

(* Moving between the pages; the buttons stay in place while requests run. *)
Turn ==
  \/ page \in {"welcome", "authentication"} /\ page' = "server"
  \/ page = "server" /\ page' = "welcome"
  \/ page = "folder" /\ page' \in {"authentication", "summary"}
  \/ page = "summary" /\ page' = "folder"

TurnPage ==
  /\ Turn
  /\ UNCHANGED <<flowVars, server, username, browsing, validating, stores, keyring,
                 configured, overtaken>>

ServerContinue(s) ==
  /\ page = "server" /\ page' = "authentication" /\ server' = s
  /\ overtaken' = (overtaken \/ Pending)
  /\ UNCHANGED <<flowVars, username, browsing, validating, stores, keyring, configured>>

BrowserLogin ==
  /\ page = "authentication" /\ StartFlow /\ browsing' = server
  /\ overtaken' = (overtaken \/ Pending)
  /\ UNCHANGED <<page, server, username, validating, stores, keyring, configured>>

CancelBrowser ==
  /\ page = "authentication" /\ CancelFlow
  /\ UNCHANGED <<page, server, username, browsing, validating, stores, keyring,
                 configured, overtaken>>

SetupBrowserFails ==
  /\ FlowError
  /\ UNCHANGED <<page, server, username, browsing, validating, stores, keyring,
                 configured, overtaken>>

(* _store_secret, under the names the assistant has now.                   *)
StoreUnder(s, u) == stores' = stores \cup {[server |-> s, user |-> u]}

(* _browser_finished                                                       *)
SetupBrowserFinished(u) ==
  /\ PolledResult
  /\ server' = browsing /\ username' = u /\ StoreUnder(browsing, u)
  /\ UNCHANGED <<page, browsing, validating, keyring, configured, overtaken>>

(* _manual_login: the button is insensitive until the answer.              *)
ManualLogin(u) ==
  /\ page = "authentication" /\ validating = NoAccount
  /\ validating' = [server |-> server, user |-> u]
  /\ overtaken' = (overtaken \/ Pending)
  /\ UNCHANGED <<flowVars, page, server, username, browsing, stores, keyring, configured>>

NameTaken == username' = validating.user

SetupValidated ==
  /\ validating # NoAccount /\ validating' = NoAccount
  /\ \/ UNCHANGED <<username, stores>>
     \/ NameTaken /\ StoreUnder(server, validating.user)
  /\ UNCHANGED <<flowVars, page, server, browsing, keyring, configured, overtaken>>

StoreAlwaysContinues(a) ==     \* mutant: a failed write continues as well
  keyring' \in {keyring, keyring \cup {a}} /\ page' = "folder"

(* stored: verified, and the folder page is shown, or an error.            *)
StoreEnds(a) ==
  \/ keyring' = keyring \cup {a} /\ page' = "folder"
  \/ UNCHANGED <<keyring, page>>

SetupStored(a) ==
  /\ a \in stores /\ stores' = stores \ {a}
  /\ page # "done" /\ StoreEnds(a)
  /\ UNCHANGED <<flowVars, server, username, browsing, validating, configured, overtaken>>

(* _start_syncing                                                          *)
FinishSetup ==
  /\ page = "summary" /\ page' = "done"
  /\ configured' = [server |-> server, user |-> username]
  /\ UNCHANGED <<flowVars, server, username, browsing, validating, stores, keyring,
                 overtaken>>

SetupNext ==
  \/ TurnPage \/ FinishSetup \/ BrowserLogin \/ CancelBrowser \/ SetupBrowserFails
  \/ \E s \in Server : ServerContinue(s)
  \/ \E u \in User : SetupBrowserFinished(u) \/ ManualLogin(u)
  \/ SetupValidated
  \/ \E a \in stores : SetupStored(a)
  \/ FlowSilent /\ UNCHANGED <<page, server, username, browsing, validating, stores,
                               keyring, configured, overtaken>>

SetupSpec == SetupInit /\ [][SetupNext]_setupVars

-----------------------------------------------------------------------------
(* "The setup assistant still refuses to continue when a fresh connection  *)
(* cannot read back the exact stored credential" (CHANGELOG): the account  *)
(* that it saves has a verified credential, unless a page was continued or *)
(* a sign-in begun while an earlier one was under way (_store_secret's     *)
(* stored goes on with the names the window has by then).                  *)
FinishedIsStoredInOrder ==
  configured \notin keyring \cup {NoAccount} => overtaken
=============================================================================
