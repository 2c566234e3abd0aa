------------------------------ MODULE Keyring ------------------------------
(***************************************************************************)
(* CredentialStore (nextcloud/credentials.py): lookups that join one       *)
(* another, the verified write, the removal, and the reading of the Secret *)
(* Service they are made of.  Each runs on a thread of its own, one D-Bus  *)
(* call after another, and reports on the main loop.  Passwords are        *)
(* numbered in the order they are stored.                                  *)
(***************************************************************************)
EXTENDS Naturals, Sequences

CONSTANTS
  Client,       \* who looks the password up
  Raising,      \* the clients whose callback may raise
  MaxStores,    \* bound: passwords stored
  MaxWaiting    \* bound: callbacks waiting for one lookup

ASSUME KeyringAssumption ==
  MaxStores \in Nat \ {0} /\ MaxWaiting \in Nat /\ Raising \subseteq Client

VARIABLES
  items,        \* the healthy item of each schema: its password, 0 when there is none
  orphans,      \* the schemas that also have an item path nothing stands behind
  locked,       \* the collection is locked
  waiting,      \* _pending_lookups: the callbacks, in order
  reader,       \* what the thread of the lookup and the thread of the store read
  storing,      \* the password being stored, 0 for none
  clearing      \* the schemas a removal has still to clear

VARIABLE      \* history, read by the properties only
  reported      \* the last password whose write was reported verified

keyringVars == <<items, orphans, locked>>
vars == <<items, orphans, locked, waiting, reader, storing, clearing, reported>>

Schema == {"current", "legacy"}
Password == 0 .. MaxStores
Result == {"locked", "error", "none", "password"}
Idle == [stage |-> "idle", schema |-> "current", attempt |-> 1,
         zero |-> FALSE,       \* unlock_count = 0
         found |-> FALSE,      \* the search listed the healthy item
         hidden |-> FALSE,     \* it listed locked paths
         result |-> "none", password |-> 0]

(* Everything has its type.                                                *)
TypeOK ==
  /\ items \in [Schema -> Password] /\ orphans \subseteq Schema /\ locked \in BOOLEAN
  /\ waiting \in Seq([client : Client, joined : BOOLEAN, due : Password])
  /\ reader \in [{"lookup", "store"} ->
       [stage : {"idle", "write", "unlock", "search", "load", "done"}, schema : Schema,
        attempt : {1, 2}, zero : BOOLEAN, found : BOOLEAN, hidden : BOOLEAN,
        result : Result, password : Password]]
  /\ storing \in Password /\ clearing \subseteq Schema
  /\ reported \in Password

(* A password of an earlier version, or none; orphans may lie about.       *)
Init ==
  /\ items \in [Schema -> {0, 1}] /\ orphans \in SUBSET Schema /\ locked \in BOOLEAN
  /\ waiting = <<>> /\ reader = [w \in {"lookup", "store"} |-> Idle]
  /\ storing = 0 /\ clearing = {}
  /\ reported = 0

-----------------------------------------------------------------------------
(* _lookup_once: unlock the collection, search, load item by item.         *)

Step(w, r) == reader' = [reader EXCEPT ![w] = r]

(* The native prompt: the user unlocks or dismisses.  The count may be zero*)
(* although the keyring is open now, and Locked may lag behind.            *)
Unlock(w) ==
  /\ reader[w].stage = "unlock"
  /\ \E zero \in BOOLEAN :
       /\ locked' \in IF zero THEN {locked, FALSE} ELSE {FALSE}
       /\ Step(w, [reader[w] EXCEPT !.stage = "search", !.zero = zero])
  /\ UNCHANGED <<items, orphans, waiting, storing, clearing, reported>>

(* A finished reading; a lookup without a result tries the legacy schema.  *)
Ended(w, result, password) ==
  LET r == reader[w] IN
  IF w = "lookup" /\ r.schema = "current" /\ result = "none"
  THEN [Idle EXCEPT !.stage = "unlock", !.schema = "legacy"]
  ELSE [Idle EXCEPT !.stage = "done", !.schema = r.schema,
                    !.result = result, !.password = password]

(* SearchItems by exact attributes.  A locked collection may hide items.   *)
Search(w) ==
  LET r == reader[w] IN
  /\ r.stage = "search"
  /\ \E shown \in BOOLEAN :
       /\ shown \/ locked
       /\ LET found == shown /\ items[r.schema] # 0 IN
          Step(w, IF found \/ r.schema \in orphans
                  THEN [r EXCEPT !.stage = "load", !.found = found,
                                 !.hidden = locked]
                  ELSE Ended(w, IF r.zero THEN "locked" ELSE "none", 0))
  /\ UNCHANGED <<keyringVars, waiting, storing, clearing, reported>>

StaleForever(w) ==     \* mutant: the retry is not bounded
  [Idle EXCEPT !.stage = "unlock", !.schema = reader[w].schema,
               !.attempt = reader[w].attempt + 1]

(* Only stale paths: once more with a new connection, then no password.    *)
Stale(w) ==
  IF reader[w].attempt = 1
  THEN [Idle EXCEPT !.stage = "unlock", !.schema = reader[w].schema, !.attempt = 2]
  ELSE Ended(w, "none", 0)

Loaded(w) ==
  LET r == reader[w] IN
  IF r.found /\ items[r.schema] # 0 /\ ~locked THEN Ended(w, "password", items[r.schema])
  ELSE IF r.zero \/ r.hidden THEN Ended(w, "locked", 0)
  ELSE IF r.schema \in orphans \/ (r.found /\ items[r.schema] = 0) THEN Stale(w)
  ELSE Ended(w, "error", 0)

Load(w) ==
  /\ reader[w].stage = "load" /\ Step(w, Loaded(w))
  /\ UNCHANGED <<keyringVars, waiting, storing, clearing, reported>>

(* Any call may fail: the service is not there, or a prompt is canceled.   *)
CallFails(w) ==
  /\ reader[w].stage \in {"unlock", "search", "load"}
  /\ \E e \in {"locked", "error"} :
       Step(w, [Idle EXCEPT !.stage = "done", !.result = e])
  /\ UNCHANGED <<keyringVars, waiting, storing, clearing, reported>>

-----------------------------------------------------------------------------
(* lookup: start a reading or join the one in progress.                    *)
Lookup(c) ==
  /\ Len(waiting) < MaxWaiting
  /\ waiting' = Append(waiting, [client |-> c, joined |-> waiting # <<>>, due |-> reported])
  /\ IF waiting = <<>> THEN Step("lookup", [Idle EXCEPT !.stage = "unlock"])
                       ELSE UNCHANGED reader
  /\ UNCHANGED <<keyringVars, storing, clearing, reported>>

(* deliver: the callbacks are called in order, up to one that raises.      *)
KeyKept(n) == SubSeq(waiting, n + 1, Len(waiting))     \* mutant: only the called are popped

Popped(n) == <<>>

Deliver(n) ==
  /\ reader["lookup"].stage = "done"
  /\ n = Len(waiting) \/ (n \in DOMAIN waiting /\ waiting[n].client \in Raising)
  /\ waiting' = Popped(n)
  /\ Step("lookup", Idle)
  /\ UNCHANGED <<keyringVars, storing, clearing, reported>>

(* store: the write replaces the item of the current schema.  It may report*)
(* success although nothing readable was kept.                             *)
Store ==
  /\ storing = 0 /\ storing' \in Password \ (0 .. 1) /\ storing' > items["current"]
  /\ storing' > reported
  /\ Step("store", [Idle EXCEPT !.stage = "write"])
  /\ UNCHANGED <<keyringVars, waiting, clearing, reported>>

Write ==
  /\ reader["store"].stage = "write"
  /\ \/ /\ \E kept \in BOOLEAN :
             items' = IF kept THEN [items EXCEPT !["current"] = storing] ELSE items
        /\ locked' = FALSE
        /\ Step("store", [Idle EXCEPT !.stage = "unlock"])
     \/ /\ \E e \in {"locked", "error"} :
             Step("store", [Idle EXCEPT !.stage = "done", !.result = e])
        /\ UNCHANGED <<items, locked>>
  /\ UNCHANGED <<orphans, waiting, storing, clearing, reported>>

VerifiedByAnything ==     \* mutant: any password read back will do
  reader["store"].result = "password"

Verified == reader["store"].result = "password" /\ reader["store"].password = storing

(* The callback of store, on the main loop.                                *)
StoreReported ==
  /\ reader["store"].stage = "done"
  /\ reported' = IF Verified THEN storing ELSE reported
  /\ storing' = 0 /\ Step("store", Idle)
  /\ UNCHANGED <<keyringVars, waiting, clearing>>

(* clear: one schema after the other.                                      *)
Clear ==
  /\ clearing = {} /\ clearing' = Schema
  /\ UNCHANGED <<keyringVars, waiting, reader, storing, reported>>

ClearStep ==
  /\ clearing # {}
  /\ LET s == IF "current" \in clearing THEN "current" ELSE "legacy" IN
     \/ /\ clearing' = clearing \ {s}
        /\ items' = [items EXCEPT ![s] = 0]
     \/ clearing' = {} /\ UNCHANGED items
  /\ UNCHANGED <<orphans, locked, waiting, reader, storing, reported>>

(* The desktop locks the keyring, at any time.                             *)
Lock == locked' = TRUE /\ UNCHANGED <<items, orphans, waiting, reader, storing,
                                      clearing, reported>>

-----------------------------------------------------------------------------
Worker == {"lookup", "store"}

Next ==
  \/ \E w \in Worker : Unlock(w) \/ Search(w) \/ Load(w) \/ CallFails(w)
  \/ \E c \in Client : Lookup(c)
  \/ (\E n \in 1 .. MaxWaiting : Deliver(n))
  \/ Store \/ Write \/ StoreReported \/ Clear \/ ClearStep \/ Lock

Spec == Init /\ [][Next]_vars

(* A lookup's thread goes on, its prompts are answered, and the idle source*)
(* that delivers its result runs.                                          *)
Progress ==
  \/ Unlock("lookup") \/ Search("lookup") \/ Load("lookup")
  \/ \E n \in 1 .. MaxWaiting : Deliver(n)

FairSpec == Spec /\ WF_vars(Progress)

-----------------------------------------------------------------------------
(* An answer is older than the last verified password only for a callback  *)
(* that joined a lookup already in progress, or when it comes from the     *)
(* legacy schema (lookup, deliver).                                        *)
StaleOnlyByJoining ==
  LET r == reader["lookup"] IN
  r.stage = "done" /\ r.schema = "current" /\ r.result = "password" =>
    \A i \in DOMAIN waiting : r.password < waiting[i].due => waiting[i].joined

(* Every lookup ends, and with it the waiting of everyone who joined it,   *)
(* so that the next lookup reads the keyring again.                        *)
LookupsEnd == waiting # <<>> ~> waiting = <<>>
=============================================================================
