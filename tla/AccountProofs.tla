--------------------------- MODULE AccountProofs ----------------------------
(***************************************************************************)
(* Proofs about the keyring and the account details, for any clients,      *)
(* passwords, windows that ask, and numbers of callbacks, questions and    *)
(* account changes.  An answer of the keyring older than the last verified *)
(* password goes only to callbacks that joined the lookup.  What an answer *)
(* of the server leaves in the account is of the account it was asked      *)
(* about, and never replaces a newer answer.                               *)
(***************************************************************************)
EXTENDS Details, Keyring, SequenceTheorems, TLAPS

-----------------------------------------------------------------------------
(* The keyring.                                                            *)

Reading == [stage : {"idle", "write", "unlock", "search", "load", "done"}, schema : Schema,
            attempt : {1, 2}, zero : BOOLEAN, found : BOOLEAN, hidden : BOOLEAN,
            result : Result, password : Password]

Entry == [client : Client, joined : BOOLEAN, due : Password]

(* The part of TypeOK that the safety rests on.                            *)
KeyringTyped ==
  /\ MaxStores \in Nat
  /\ items \in [Schema -> Password] /\ reader \in [Worker -> Reading]
  /\ waiting \in Seq(Entry)
  /\ storing \in Password /\ reported \in Password /\ locked \in BOOLEAN

(* The item is never older than the last write reported as verified, and a *)
(* store that has read a password back has read the item.                  *)
ItemIsLatest == items["current"] # 0 => items["current"] >= reported

StoreReads ==
  /\ reader["store"].schema = "current"
  /\ reader["store"].stage # "idle" => storing > reported
  /\ reader["store"].stage = "done" /\ reader["store"].result = "password" =>
       items["current"] = 0 \/ items["current"] = reader["store"].password

(* Nobody is owed more than what was reported.                             *)
DueIsReported == \A i \in DOMAIN waiting : waiting[i].due <= reported

KeyringInv == KeyringTyped /\ ItemIsLatest /\ StoreReads /\ DueIsReported /\ StaleOnlyByJoining

(* What a callback is owed is the number of a password.                    *)
LEMMA DueType == ASSUME KeyringTyped, NEW i \in DOMAIN waiting PROVE waiting[i].due \in Nat
<1>1. waiting \in Seq(Entry) /\ DOMAIN waiting = 1 .. Len(waiting)
  BY LenProperties DEF KeyringTyped
<1>2. waiting[i] \in Entry
  BY <1>1, ElementOfSeq
<1> QED
  BY <1>2 DEF Entry, Password

(* The beginnings of a reading.                                            *)
LEMMA Begins ==
  ASSUME KeyringTyped
  PROVE  /\ Idle \in Reading /\ [Idle EXCEPT !.stage = "unlock"] \in Reading
         /\ [Idle EXCEPT !.stage = "write"] \in Reading
         /\ \A e \in {"locked", "error"} :
              [Idle EXCEPT !.stage = "done", !.result = e] \in Reading
<1>1. 0 \in Password
  BY DEF KeyringTyped, Password
<1> QED
  BY <1>1 DEF Idle, Reading, Schema, Result

(* What a reading ends with, and its type.                                 *)
LEMMA EndedType ==
  ASSUME KeyringTyped, NEW w \in Worker, NEW result \in Result, NEW p \in Password
  PROVE  Ended(w, result, p) \in Reading
<1>1. reader[w].schema \in Schema
  BY DEF KeyringTyped, Reading
<1>2. 0 \in Password /\ "legacy" \in Schema
  BY DEF KeyringTyped, Password, Schema
<1>3. [Idle EXCEPT !.stage = "unlock", !.schema = "legacy"] \in Reading
  BY <1>2 DEF Idle, Reading, Result
<1>4. [Idle EXCEPT !.stage = "done", !.schema = reader[w].schema, !.result = result,
                   !.password = p] \in Reading
  BY <1>1, <1>2 DEF Idle, Reading
<1> QED
  BY <1>3, <1>4 DEF Ended

(* A stale path is tried once more, and then read as no password.          *)
LEMMA StaleType == ASSUME KeyringTyped, NEW w \in Worker PROVE Stale(w) \in Reading
<1>1. reader[w].schema \in Schema /\ 0 \in Password
  BY DEF KeyringTyped, Reading, Password
<1>2. [Idle EXCEPT !.stage = "unlock", !.schema = reader[w].schema, !.attempt = 2] \in Reading
  BY <1>1 DEF Idle, Reading, Result
<1>3. Ended(w, "none", 0) \in Reading
  BY <1>1, EndedType DEF Result
<1> QED
  BY <1>2, <1>3 DEF Stale

(* What loading ends with.                                                 *)
LEMMA LoadedType == ASSUME KeyringTyped, NEW w \in Worker PROVE Loaded(w) \in Reading
<1>1. items[reader[w].schema] \in Password /\ 0 \in Password
  BY DEF KeyringTyped, Reading, Password
<1>2. "password" \in Result /\ "locked" \in Result /\ "error" \in Result
  BY DEF Result
<1> QED
  BY <1>1, <1>2, StaleType, EndedType DEF Loaded

(* Only a loaded password is a result: the item of the schema read.        *)
LEMMA LoadedPassword ==
  ASSUME KeyringTyped, NEW w \in Worker, Loaded(w).stage = "done", Loaded(w).result = "password"
  PROVE  /\ Loaded(w).schema = reader[w].schema
         /\ Loaded(w).password = items[reader[w].schema] /\ items[reader[w].schema] # 0
  BY DEF Loaded, Ended, Stale, Idle

(* A reading for the store stays in the schema it writes.                  *)
LEMMA StoreSchema ==
  ASSUME KeyringTyped, StoreReads, NEW result, NEW p
  PROVE  Ended("store", result, p).schema = "current" /\ Loaded("store").schema = "current"
  BY DEF Ended, StoreReads, Loaded, Stale, Idle

-----------------------------------------------------------------------------
(* Nothing is stored, read or owed at first.                               *)
LEMMA KeyringInitInv == ASSUME Init PROVE KeyringInv
<1>1. MaxStores \in Nat /\ 0 \in Password /\ 1 \in Password
  BY KeyringAssumption DEF Password
<1>2. Idle \in Reading
  BY <1>1 DEF Idle, Reading, Schema, Result
<1>3. items \in [Schema -> Password]
  BY <1>1 DEF Init
<1>4. reader \in [Worker -> Reading] /\ reader["store"] = Idle /\ reader["lookup"] = Idle
  BY <1>2 DEF Init, Worker
<1>5. KeyringTyped
  BY <1>1, <1>3, <1>4 DEF Init, KeyringTyped
<1>6. items["current"] \in Nat /\ reported = 0
  BY <1>3 DEF Init, Schema, Password
<1>7. ItemIsLatest
  BY <1>6 DEF ItemIsLatest
<1>8. StoreReads /\ StaleOnlyByJoining
  BY <1>4 DEF StoreReads, StaleOnlyByJoining, Idle
<1>9. DueIsReported
  BY DEF Init, DueIsReported
<1> QED
  BY <1>5, <1>7, <1>8, <1>9 DEF KeyringInv

(* A reading goes on without a result, and the rest stays.                 *)
LEMMA ReadOn ==
  ASSUME KeyringInv, NEW w \in Worker, NEW r \in Reading, Step(w, r),
         w = "store" => r.schema = "current" /\ reader["store"].stage # "idle",
         r.stage = "done" => r.result # "password",
         UNCHANGED <<items, waiting, storing, reported>>, locked' \in BOOLEAN
  PROVE  KeyringInv'
<1>1. reader' \in [Worker -> Reading]
  BY DEF KeyringInv, KeyringTyped, Step
<1>2. KeyringTyped'
  BY <1>1 DEF KeyringInv, KeyringTyped
<1>3. \A v \in Worker : reader'[v] = IF v = w THEN r ELSE reader[v]
  BY DEF KeyringInv, KeyringTyped, Step
<1>4. ItemIsLatest' /\ DueIsReported'
  BY DEF KeyringInv, ItemIsLatest, DueIsReported
<1>5. StoreReads'
  BY <1>3 DEF KeyringInv, StoreReads, Worker
<1>6. StaleOnlyByJoining'
  BY <1>3 DEF KeyringInv, StaleOnlyByJoining, Worker
<1> QED
  BY <1>2, <1>4, <1>5, <1>6 DEF KeyringInv

(* A reading ends without a password.                                      *)
LEMMA EndsWithout ==
  ASSUME KeyringTyped, NEW w \in Worker, NEW result \in Result \ {"password"}, NEW p \in Password
  PROVE  LET r == Ended(w, result, p) IN r.stage = "done" => r.result # "password"
  BY DEF Ended, Idle

(* The prompt was answered.                                                *)
LEMMA UnlockInv == ASSUME KeyringInv, NEW w \in Worker, Unlock(w) PROVE KeyringInv'
<1>1. PICK zero \in BOOLEAN :
        Step(w, [reader[w] EXCEPT !.stage = "search", !.zero = zero])
  BY DEF Unlock
<1> DEFINE r == [reader[w] EXCEPT !.stage = "search", !.zero = zero]
<1>2. reader[w] \in Reading /\ reader[w].stage = "unlock"
  BY DEF Unlock, KeyringInv, KeyringTyped
<1>3. r \in Reading /\ r.stage = "search" /\ r.schema = reader[w].schema
  BY <1>2 DEF Reading
<1>4. w = "store" => r.schema = "current" /\ reader["store"].stage # "idle"
  BY <1>2, <1>3 DEF KeyringInv, StoreReads
<1>5. locked' \in BOOLEAN /\ UNCHANGED <<items, waiting, storing, reported>>
  BY DEF Unlock, KeyringInv, KeyringTyped
<1> HIDE DEF r
<1> QED
  BY <1>1, <1>3, <1>4, <1>5, ReadOn DEF r

(* The search listed the item, other paths or nothing.                     *)
LEMMA SearchInv == ASSUME KeyringInv, NEW w \in Worker, Search(w) PROVE KeyringInv'
<1>1. reader[w] \in Reading /\ reader[w].stage = "search" /\ reader[w].schema \in Schema
  BY DEF Search, KeyringInv, KeyringTyped, Reading
<1>2. 0 \in Password
  BY DEF KeyringInv, KeyringTyped, Password
<1>3. PICK shown \in BOOLEAN : LET found == shown /\ items[reader[w].schema] # 0 IN
        Step(w, IF found \/ reader[w].schema \in orphans
                THEN [reader[w] EXCEPT !.stage = "load", !.found = found, !.hidden = locked]
                ELSE Ended(w, IF reader[w].zero THEN "locked" ELSE "none", 0))
  BY DEF Search
<1>4. UNCHANGED <<items, waiting, storing, reported>> /\ locked' \in BOOLEAN
  BY DEF Search, keyringVars, KeyringInv, KeyringTyped
<1> DEFINE found == shown /\ items[reader[w].schema] # 0
           loads == [reader[w] EXCEPT !.stage = "load", !.found = found, !.hidden = locked]
           result == IF reader[w].zero THEN "locked" ELSE "none"
<1>5. CASE found \/ reader[w].schema \in orphans
  <2>1. Step(w, loads)
    BY <1>3, <1>5
  <2>2. loads \in Reading /\ loads.stage = "load" /\ loads.schema = reader[w].schema
    BY <1>1 DEF KeyringInv, KeyringTyped, Reading
  <2>3. w = "store" => loads.schema = "current" /\ reader["store"].stage # "idle"
    BY <1>1, <2>2 DEF KeyringInv, StoreReads
  <2> HIDE DEF loads
  <2> QED
    BY <1>4, <2>1, <2>2, <2>3, ReadOn
<1>6. CASE ~(found \/ reader[w].schema \in orphans)
  <2>1. Step(w, Ended(w, result, 0))
    BY <1>3, <1>6
  <2>2. result \in Result \ {"password"}
    BY DEF Result
  <2>3. Ended(w, result, 0) \in Reading
    BY <1>2, <2>2, EndedType DEF KeyringInv
  <2>4. w = "store" => Ended(w, result, 0).schema = "current" /\ reader["store"].stage # "idle"
    BY <1>1, StoreSchema DEF KeyringInv
  <2> HIDE DEF result
  <2> QED
    BY <1>2, <1>4, <2>1, <2>2, <2>3, <2>4, EndsWithout, ReadOn DEF KeyringInv
<1> QED
  BY <1>5, <1>6

(* The item loaded is what the lookup's own callbacks may expect.          *)
LEMMA LoadInv == ASSUME KeyringInv, NEW w \in Worker, Load(w) PROVE KeyringInv'
<1> DEFINE r == Loaded(w)
<1>1. Step(w, r) /\ reader[w].stage = "load" /\ UNCHANGED <<items, waiting, storing, reported>>
  BY DEF Load, keyringVars
<1>2. r \in Reading
  BY LoadedType DEF KeyringInv
<1>3. r.stage = "done" /\ r.result = "password" /\ r.schema = "current"
        => r.password = items["current"] /\ items["current"] # 0
  BY LoadedPassword DEF KeyringInv
<1>4. w = "store" => r.schema = "current"
  BY StoreSchema DEF KeyringInv
<1> HIDE DEF r
<1>5. reader' \in [Worker -> Reading]
  BY <1>1, <1>2 DEF KeyringInv, KeyringTyped, Step
<1>6. \A v \in Worker : reader'[v] = IF v = w THEN r ELSE reader[v]
  BY <1>1 DEF KeyringInv, KeyringTyped, Step
<1>7. KeyringTyped'
  BY <1>1, <1>5 DEF KeyringInv, KeyringTyped, Load, keyringVars
<1>8. ItemIsLatest' /\ DueIsReported'
  BY <1>1 DEF KeyringInv, ItemIsLatest, DueIsReported
<1>9. StoreReads'
  BY <1>1, <1>3, <1>4, <1>6 DEF KeyringInv, StoreReads, Worker
<1>10. StaleOnlyByJoining'
  <2>1. CASE w = "store"
    BY <1>1, <1>6, <2>1 DEF KeyringInv, StaleOnlyByJoining, Worker
  <2>2. CASE w = "lookup"
    <3>1. reader'["lookup"] = r
      BY <1>6, <2>2 DEF Worker
    <3>2. items["current"] \in Nat /\ reported \in Nat
      BY DEF KeyringInv, KeyringTyped, Password, Schema
    <3>3. ASSUME r.stage = "done", r.result = "password", r.schema = "current",
                 NEW i \in DOMAIN waiting
          PROVE  ~(r.password < waiting[i].due)
      <4>1. waiting[i].due \in Nat /\ waiting[i].due <= reported
        BY DueType DEF KeyringInv, DueIsReported
      <4> QED
        BY <1>3, <3>2, <3>3, <4>1 DEF KeyringInv, ItemIsLatest
    <3> QED
      BY <1>1, <3>1, <3>3 DEF StaleOnlyByJoining
  <2> QED
    BY <2>1, <2>2 DEF Worker
<1> QED
  BY <1>7, <1>8, <1>9, <1>10 DEF KeyringInv

(* A failed call leaves no password.                                       *)
LEMMA CallFailsInv == ASSUME KeyringInv, NEW w \in Worker, CallFails(w) PROVE KeyringInv'
<1>1. PICK e \in {"locked", "error"} : Step(w, [Idle EXCEPT !.stage = "done", !.result = e])
  BY DEF CallFails
<1> DEFINE r == [Idle EXCEPT !.stage = "done", !.result = e]
<1>2. r \in Reading /\ r.schema = "current" /\ r.result # "password"
  BY Begins DEF Idle, KeyringInv
<1>3. UNCHANGED <<items, waiting, storing, reported>> /\ locked' \in BOOLEAN
  BY DEF CallFails, keyringVars, KeyringInv, KeyringTyped
<1>4. w = "store" => reader["store"].stage # "idle"
  BY DEF CallFails
<1> HIDE DEF r
<1> QED
  BY <1>1, <1>2, <1>3, <1>4, ReadOn DEF r

(* A new lookup has read nothing yet; one that is joined is marked.        *)
LEMMA LookupInv == ASSUME KeyringInv, NEW c \in Client, Lookup(c) PROVE KeyringInv'
<1> DEFINE entry == [client |-> c, joined |-> waiting # <<>>, due |-> reported]
<1>1. waiting' = Append(waiting, entry) /\ entry \in Entry /\ waiting \in Seq(Entry)
  BY DEF Lookup, KeyringInv, KeyringTyped, Entry
<1>2. /\ waiting' \in Seq(Entry) /\ DOMAIN waiting' = 1 .. Len(waiting) + 1
      /\ Len(waiting) \in Nat /\ DOMAIN waiting = 1 .. Len(waiting)
      /\ waiting'[Len(waiting) + 1] = entry
      /\ \A i \in DOMAIN waiting : waiting'[i] = waiting[i]
  BY <1>1
<1>3. UNCHANGED <<items, storing, reported, locked>>
  BY DEF Lookup, keyringVars
<1>4. /\ reader' \in [Worker -> Reading] /\ reader'["store"] = reader["store"]
      /\ reader'["lookup"] = reader["lookup"] \/ reader'["lookup"].stage = "unlock"
      /\ waiting = <<>> => reader'["lookup"].stage = "unlock"
  <2>1. [Idle EXCEPT !.stage = "unlock"] \in Reading
    BY Begins DEF KeyringInv
  <2>2. CASE waiting = <<>>
    <3>1. reader' = [reader EXCEPT !["lookup"] = [Idle EXCEPT !.stage = "unlock"]]
      BY <2>2 DEF Lookup, Step
    <3> QED
      BY <2>1, <3>1 DEF KeyringInv, KeyringTyped, Worker, Idle
  <2>3. CASE waiting # <<>>
    BY <2>3 DEF Lookup, KeyringInv, KeyringTyped
  <2> QED
    BY <2>2, <2>3
<1>5. KeyringTyped'
  BY <1>2, <1>3, <1>4 DEF KeyringInv, KeyringTyped
<1>6. ItemIsLatest' /\ StoreReads'
  BY <1>3, <1>4 DEF KeyringInv, ItemIsLatest, StoreReads
<1>7. DueIsReported'
  <2>1. reported \in Nat
    BY DEF KeyringInv, KeyringTyped, Password
  <2> QED
    BY <1>2, <1>3, <2>1 DEF KeyringInv, DueIsReported
<1>8. StaleOnlyByJoining'
  <2>1. CASE waiting = <<>>
    BY <1>4, <2>1 DEF StaleOnlyByJoining
  <2>2. CASE waiting # <<>>
    <3>1. reader'["lookup"] = reader["lookup"]
      BY <2>2 DEF Lookup
    <3>2. entry.joined
      BY <2>2
    <3> HIDE DEF entry
    <3> QED
      BY <1>2, <3>1, <3>2 DEF KeyringInv, StaleOnlyByJoining
  <2> QED
    BY <2>1, <2>2
<1> QED
  BY <1>5, <1>6, <1>7, <1>8 DEF KeyringInv

(* Nobody waits for a delivered answer.                                    *)
LEMMA DeliverInv == ASSUME KeyringInv, NEW n, Deliver(n) PROVE KeyringInv'
<1>1. Idle \in Reading /\ Idle.stage = "idle"
  BY Begins DEF Idle, KeyringInv
<1>2. reader' = [reader EXCEPT !["lookup"] = Idle] /\ waiting' = <<>>
  BY DEF Deliver, Step, Popped
<1>3. UNCHANGED <<items, storing, reported, locked>>
  BY DEF Deliver, keyringVars
<1>4. /\ reader' \in [Worker -> Reading] /\ reader'["store"] = reader["store"]
      /\ reader'["lookup"].stage = "idle"
  BY <1>1, <1>2 DEF KeyringInv, KeyringTyped, Worker
<1> QED
  BY <1>2, <1>3, <1>4 DEF KeyringInv, KeyringTyped, ItemIsLatest, StoreReads, DueIsReported,
     StaleOnlyByJoining

(* A store begins.                                                         *)
LEMMA StoreInv == ASSUME KeyringInv, Store PROVE KeyringInv'
<1>1. /\ storing' \in Password /\ storing' > reported
      /\ reader' = [reader EXCEPT !["store"] = [Idle EXCEPT !.stage = "write"]]
      /\ UNCHANGED <<items, waiting, reported, locked>>
  BY DEF Store, Step, keyringVars
<1>2. /\ [Idle EXCEPT !.stage = "write"] \in Reading
      /\ [Idle EXCEPT !.stage = "write"].stage = "write"
      /\ [Idle EXCEPT !.stage = "write"].schema = "current"
  BY Begins DEF KeyringInv, Idle
<1>3. /\ reader' \in [Worker -> Reading] /\ reader'["lookup"] = reader["lookup"]
      /\ reader'["store"].stage = "write" /\ reader'["store"].schema = "current"
  BY <1>1, <1>2 DEF KeyringInv, KeyringTyped, Worker
<1>4. KeyringTyped'
  BY <1>1, <1>3 DEF KeyringInv, KeyringTyped
<1> QED
  BY <1>1, <1>3, <1>4 DEF KeyringInv, ItemIsLatest, StoreReads, DueIsReported, StaleOnlyByJoining

(* A write, kept or not, or failed.                                        *)
LEMMA WriteInv == ASSUME KeyringInv, Write PROVE KeyringInv'
<1>1. UNCHANGED <<waiting, storing, reported>>
  BY DEF Write
<1>2. reader["store"].stage = "write" /\ storing > reported /\ storing \in Nat /\ reported \in Nat
  BY DEF Write, KeyringInv, StoreReads, KeyringTyped, Password
<1>3. ASSUME NEW r \in Reading, reader' = [reader EXCEPT !["store"] = r], r.schema = "current",
             r.stage = "done" => r.result # "password", locked' \in BOOLEAN,
             items' = items \/ items' = [items EXCEPT !["current"] = storing]
      PROVE  KeyringInv'
  <2>1. /\ reader' \in [Worker -> Reading] /\ reader'["lookup"] = reader["lookup"]
        /\ reader'["store"] = r
    BY <1>3 DEF KeyringInv, KeyringTyped, Worker
  <2>2. items' \in [Schema -> Password]
    BY <1>3 DEF KeyringInv, KeyringTyped
  <2>3. items'["current"] = items["current"] \/ items'["current"] = storing
    BY <1>3 DEF KeyringInv, KeyringTyped, Schema
  <2>4. KeyringTyped'
    BY <1>1, <1>3, <2>1, <2>2 DEF KeyringInv, KeyringTyped
  <2>5. ItemIsLatest'
    BY <1>1, <1>2, <2>3 DEF KeyringInv, ItemIsLatest
  <2>6. StoreReads'
    BY <1>1, <1>2, <1>3, <2>1 DEF KeyringInv, StoreReads
  <2> QED
    BY <1>1, <2>1, <2>4, <2>5, <2>6 DEF KeyringInv, DueIsReported, StaleOnlyByJoining
<1>4. ASSUME NEW kept \in BOOLEAN,
             items' = IF kept THEN [items EXCEPT !["current"] = storing] ELSE items,
             locked' = FALSE, Step("store", [Idle EXCEPT !.stage = "unlock"])
      PROVE  KeyringInv'
  <2> DEFINE r == [Idle EXCEPT !.stage = "unlock"]
  <2>1. r \in Reading /\ r.schema = "current" /\ r.stage = "unlock"
    BY Begins DEF KeyringInv, Idle
  <2>2. items' = items \/ items' = [items EXCEPT !["current"] = storing]
    BY <1>4
  <2>3. reader' = [reader EXCEPT !["store"] = r]
    BY <1>4 DEF Step
  <2> HIDE DEF r
  <2> QED
    BY <1>3, <1>4, <2>1, <2>2, <2>3
<1>5. ASSUME NEW e \in {"locked", "error"}, UNCHANGED <<items, locked>>,
             Step("store", [Idle EXCEPT !.stage = "done", !.result = e])
      PROVE  KeyringInv'
  <2> DEFINE r == [Idle EXCEPT !.stage = "done", !.result = e]
  <2>1. r \in Reading /\ r.schema = "current" /\ r.result # "password"
    BY Begins DEF KeyringInv, Idle
  <2>2. reader' = [reader EXCEPT !["store"] = r] /\ locked' \in BOOLEAN
    BY <1>5 DEF Step, KeyringInv, KeyringTyped
  <2> HIDE DEF r
  <2> QED
    BY <1>3, <1>5, <2>1, <2>2
<1> QED
  BY <1>4, <1>5, Zenon DEF Write

(* A write is reported as verified only when the item was read back.       *)
LEMMA StoreReportedInv == ASSUME KeyringInv, StoreReported PROVE KeyringInv'
<1>1. /\ reported' = IF Verified THEN storing ELSE reported
      /\ storing' = 0 /\ reader' = [reader EXCEPT !["store"] = Idle]
      /\ reader["store"].stage = "done" /\ UNCHANGED <<items, locked, waiting>>
  BY DEF StoreReported, Step, keyringVars
<1>2. Idle \in Reading /\ Idle.stage = "idle" /\ Idle.schema = "current" /\ 0 \in Password
  BY Begins DEF Idle, KeyringInv, KeyringTyped, Password
<1>3. /\ reader' \in [Worker -> Reading] /\ reader'["lookup"] = reader["lookup"]
      /\ reader'["store"] = Idle
  BY <1>1, <1>2 DEF KeyringInv, KeyringTyped, Worker
<1>4. KeyringTyped'
  BY <1>1, <1>2, <1>3 DEF KeyringInv, KeyringTyped
<1>5. /\ storing \in Nat /\ reported \in Nat /\ storing > reported /\ items["current"] \in Nat
      /\ Verified => items["current"] = 0 \/ items["current"] = storing
  BY <1>1 DEF KeyringInv, KeyringTyped, StoreReads, Verified, Password, Schema
<1>6. ItemIsLatest' /\ reported <= reported'
  BY <1>1, <1>5 DEF KeyringInv, ItemIsLatest
<1>7. DueIsReported'
  <2>2. \A i \in DOMAIN waiting : waiting[i].due \in Nat
    BY DueType DEF KeyringInv
  <2>3. reported' \in Nat
    BY <1>1, <1>5
  <2> QED
    BY <1>1, <1>5, <1>6, <2>2, <2>3 DEF KeyringInv, DueIsReported
<1>8. StoreReads' /\ StaleOnlyByJoining'
  BY <1>1, <1>2, <1>3 DEF KeyringInv, StoreReads, StaleOnlyByJoining
<1> QED
  BY <1>4, <1>6, <1>7, <1>8 DEF KeyringInv

(* A removed item is no older one.                                         *)
LEMMA ClearStepInv == ASSUME KeyringInv, ClearStep PROVE KeyringInv'
<1>1. UNCHANGED <<locked, waiting, reader, storing, reported>>
  BY DEF ClearStep
<1>2. items' = items \/ \E s \in Schema : items' = [items EXCEPT ![s] = 0]
  BY DEF ClearStep, Schema
<1>3. 0 \in Password
  BY DEF KeyringInv, KeyringTyped, Password
<1>4. items' \in [Schema -> Password]
  BY <1>2, <1>3 DEF KeyringInv, KeyringTyped
<1>5. items'["current"] = items["current"] \/ items'["current"] = 0
  BY <1>2 DEF KeyringInv, KeyringTyped, Schema
<1> QED
  BY <1>1, <1>4, <1>5 DEF KeyringInv, KeyringTyped, ItemIsLatest, StoreReads, DueIsReported,
     StaleOnlyByJoining

(* What concerns neither a reading nor the item keeps the invariant.       *)
LEMMA OthersInv == ASSUME KeyringInv, Clear \/ Lock \/ UNCHANGED vars PROVE KeyringInv'
<1>1. UNCHANGED <<items, waiting, reader, storing, reported>> /\ locked' \in BOOLEAN
  BY DEF Clear, Lock, vars, keyringVars, KeyringInv, KeyringTyped
<1> QED
  BY <1>1 DEF KeyringInv, KeyringTyped, ItemIsLatest, StoreReads, DueIsReported, StaleOnlyByJoining

-----------------------------------------------------------------------------
(* The invariant is inductive.                                             *)
LEMMA KeyringNextInv == ASSUME KeyringInv, [Next]_vars PROVE KeyringInv'
<1>1. CASE \E w \in Worker : Unlock(w) \/ Search(w) \/ Load(w) \/ CallFails(w)
  BY <1>1, UnlockInv, SearchInv, LoadInv, CallFailsInv
<1>2. CASE \E c \in Client : Lookup(c)
  BY <1>2, LookupInv
<1>3. CASE \E n \in 1 .. MaxWaiting : Deliver(n)
  BY <1>3, DeliverInv
<1>4. CASE Store \/ Write \/ StoreReported
  BY <1>4, StoreInv, WriteInv, StoreReportedInv
<1>5. CASE ClearStep
  BY <1>5, ClearStepInv
<1>6. CASE Clear \/ Lock \/ UNCHANGED vars
  BY <1>6, OthersInv
<1> QED
  BY <1>1, <1>2, <1>3, <1>4, <1>5, <1>6 DEF Next

(* Whoever looks the password up after its write was reported verified, and*)
(* starts a reading, is not answered with an older one, whatever stores,   *)
(* removals and locks go on meanwhile (CredentialStore.lookup and store).  *)
THEOREM FreshUnlessJoined ==
  Spec => []StaleOnlyByJoining
<1>1. KeyringInv => StaleOnlyByJoining
  BY DEF KeyringInv
<1> QED
  BY <1>1, KeyringInitInv, KeyringNextInv, PTL DEF Spec

(* Every variable of the keyring keeps its type, for any clients and any   *)
(* number of stores and lookups.                                           *)
THEOREM KeyringTypeCorrect == Spec => []TypeOK
<1> DEFINE SchemasTyped == orphans \subseteq Schema /\ clearing \subseteq Schema
<1>1. Init => SchemasTyped
  BY DEF Init
<1>2. SchemasTyped /\ [Next]_vars => SchemasTyped'
  <2> SUFFICES ASSUME SchemasTyped, [Next]_vars PROVE SchemasTyped'
    OBVIOUS
  <2>1. CASE \E w \in Worker : Unlock(w) \/ Search(w) \/ Load(w) \/ CallFails(w)
    BY <2>1 DEF Unlock, Search, Load, CallFails, keyringVars
  <2>2. CASE (\E c \in Client : Lookup(c)) \/ (\E n \in 1 .. MaxWaiting : Deliver(n))
    BY <2>2 DEF Lookup, Deliver, keyringVars
  <2>3. CASE Store \/ Write \/ StoreReported
    BY <2>3 DEF Store, Write, StoreReported, keyringVars
  <2>4. CASE Clear \/ ClearStep \/ Lock \/ UNCHANGED vars
    BY <2>4 DEF Clear, ClearStep, Lock, keyringVars, vars
  <2> QED
    BY <2>1, <2>2, <2>3, <2>4 DEF Next
<1>3. KeyringInv /\ SchemasTyped => TypeOK
  BY DEF KeyringInv, KeyringTyped, TypeOK, Reading, Entry, Worker
<1> QED
  BY <1>1, <1>2, <1>3, KeyringInitInv, KeyringNextInv, PTL DEF Spec

-----------------------------------------------------------------------------
(* The account details.                                                    *)

(* The part of the types that the safety rests on.                         *)
DetailsTyped ==
  /\ account \in 0 .. MaxAccounts
  /\ required \in BOOLEAN /\ rejects \in BOOLEAN /\ stale \in BOOLEAN
  /\ open \in [Askers -> BOOLEAN] /\ generation \in [Askers -> Nat]
  /\ asked \in Nat /\ saved \in [Fields -> Nat] /\ latest \in [Askers -> Nat]
  /\ \A r \in pending :
       r.by \in Askers /\ r.kind \in Kinds /\ r.gen \in Nat \ {0} /\ r.account \in Nat

(* Who is active asks about the configured account; who is not wants no    *)
(* answer.                                                                 *)
ActiveOfAccount ==
  \A a \in Askers : IF open[a] THEN account # 0 ELSE generation[a] = 0

(* Generations are given out in order, and none is above the last.         *)
Ordered ==
  /\ \A r \in pending : r.gen <= asked
  /\ \A a \in Askers :
       /\ generation[a] <= asked /\ latest[a] <= asked
       /\ generation[a] # 0 => latest[a] <= generation[a]

(* An answer that is wanted is about the configured account.               *)
WantedOfAccount == \A r \in pending : Wanted(r) => r.account = account

(* Without an account nobody waits for a reconnection.                     *)
NoneRequired == account = 0 => ~required

DetailsInv ==
  /\ DetailsTyped /\ ActiveOfAccount /\ Ordered /\ WantedOfAccount /\ NoneRequired
  /\ SavedOfAccount /\ RequiredOnlyBy

(* At first nothing is asked and what is saved is of the account.          *)
LEMMA DetailsInitInv == ASSUME DetailsInit PROVE DetailsInv
<1> USE DEF DetailsInit
<1>1. DetailsTyped
  <2>1. account \in 0 .. MaxAccounts /\ asked \in Nat
    BY BoundsAssumption
  <2>2. /\ open \in [Askers -> BOOLEAN] /\ generation \in [Askers -> Nat]
        /\ saved \in [Fields -> Nat] /\ latest \in [Askers -> Nat]
    OBVIOUS
  <2> QED
    BY <2>1, <2>2 DEF DetailsTyped
<1>2. ActiveOfAccount /\ Ordered /\ WantedOfAccount
  BY DEF ActiveOfAccount, Ordered, WantedOfAccount
<1>3. NoneRequired /\ SavedOfAccount /\ RequiredOnlyBy
  BY DEF NoneRequired, SavedOfAccount, RequiredOnlyBy
<1> QED
  BY <1>1, <1>2, <1>3 DEF DetailsInv

(* Asking supersedes what the same asker asked before.                     *)
LEMMA AskInv ==
  ASSUME DetailsInv, NEW by \in Askers, NEW kind \in Kinds, Ask(by, kind), account # 0,
         open' = [open EXCEPT ![by] = TRUE],
         UNCHANGED <<accountVars, required, saved, latest, stale>>
  PROVE  DetailsInv' /\ (\A a \in Askers : latest'[a] >= latest[a])
<1> USE DEF accountVars
<1> DEFINE r == [by |-> by, kind |-> kind, gen |-> asked + 1, account |-> account,
                 step |-> "lookup", password |-> password]
<1>1. /\ asked \in Nat /\ account \in Nat /\ generation \in [Askers -> Nat]
      /\ open \in [Askers -> BOOLEAN] /\ latest \in [Askers -> Nat]
  BY BoundsAssumption DEF DetailsInv, DetailsTyped
<1>2. /\ asked' = asked + 1 /\ generation' = [generation EXCEPT ![by] = asked + 1]
      /\ pending' = pending \cup {r}
  BY DEF Ask
<1>3. r.by = by /\ r.kind = kind /\ r.gen = asked + 1 /\ r.account = account
  OBVIOUS
<1>4. DetailsTyped'
  <2>1. generation' \in [Askers -> Nat] /\ open' \in [Askers -> BOOLEAN] /\ asked' \in Nat
    BY <1>1, <1>2
  <2>2. \A q \in pending' : q.by \in Askers /\ q.kind \in Kinds /\ q.gen \in Nat \ {0}
                              /\ q.account \in Nat
    BY <1>1, <1>2, <1>3 DEF DetailsInv, DetailsTyped
  <2> QED
    BY <2>1, <2>2 DEF DetailsInv, DetailsTyped
<1>5. ActiveOfAccount'
  BY <1>1, <1>2 DEF DetailsInv, ActiveOfAccount
<1>6. Ordered'
  <2>1. \A q \in pending' : q.gen <= asked'
    <3>1. \A q \in pending : q.gen \in Nat /\ q.gen <= asked
      BY DEF DetailsInv, DetailsTyped, Ordered
    <3> QED
      BY <1>1, <1>2, <1>3, <3>1
  <2>2. ASSUME NEW a \in Askers
        PROVE  /\ generation'[a] <= asked' /\ latest'[a] <= asked'
               /\ generation'[a] # 0 => latest'[a] <= generation'[a]
    <3>1. /\ generation[a] <= asked /\ latest[a] <= asked
          /\ generation[a] # 0 => latest[a] <= generation[a]
      BY DEF DetailsInv, Ordered
    <3>2. generation[a] \in Nat /\ latest[a] \in Nat
      BY <1>1
    <3>3. generation'[a] = IF a = by THEN asked + 1 ELSE generation[a]
      BY <1>1, <1>2
    <3> QED
      BY <1>1, <1>2, <3>1, <3>2, <3>3
  <2> QED
    BY <2>1, <2>2 DEF Ordered
<1>7. WantedOfAccount'
  <2> SUFFICES ASSUME NEW q \in pending', Wanted(q)' PROVE q.account = account
    BY DEF WantedOfAccount
  <2>1. CASE q = r
    BY <2>1, <1>3
  <2>2. CASE q # r
    <3>1. q \in pending /\ q.gen \in Nat /\ q.gen <= asked /\ q.by \in Askers
      BY <1>2, <2>2 DEF DetailsInv, DetailsTyped, Ordered
    <3>2. q.by # by
      BY <1>1, <1>2, <3>1 DEF Wanted
    <3>3. Wanted(q)
      BY <1>1, <1>2, <3>1, <3>2 DEF Wanted
    <3> QED
      BY <3>1, <3>3 DEF DetailsInv, WantedOfAccount
  <2> QED
    BY <2>1, <2>2
<1>8. NoneRequired' /\ SavedOfAccount' /\ RequiredOnlyBy'
  BY DEF DetailsInv, NoneRequired, SavedOfAccount, RequiredOnlyBy
<1> QED
  BY <1>1, <1>4, <1>5, <1>6, <1>7, <1>8 DEF DetailsInv

(* What a wanted answer is about.                                          *)
LEMMA WantedAccount ==
  ASSUME DetailsInv, NEW r \in pending, Wanted(r)
  PROVE  /\ r.account = account /\ account # 0 /\ r.by \in Askers
         /\ r.gen = generation[r.by] /\ r.gen # 0
  BY DEF DetailsInv, DetailsTyped, ActiveOfAccount, WantedOfAccount, Wanted

(* An answer that changes neither who asks nor what is saved.              *)
LEMMA TakenInv ==
  ASSUME DetailsInv, NEW r \in pending,
         \/ pending' = pending \ {r}
         \/ pending' = (pending \ {r}) \cup {[r EXCEPT !.step = "sent", !.password = password]},
         UNCHANGED <<accountVars, open, generation, asked, saved, latest>>,
         required' \in BOOLEAN, stale' \in BOOLEAN, RequiredOnlyBy', account = 0 => ~required'
  PROVE  DetailsInv' /\ (\A a \in Askers : latest'[a] >= latest[a])
<1> USE DEF accountVars
<1> DEFINE s == [r EXCEPT !.step = "sent", !.password = password]
<1>1. s.by = r.by /\ s.kind = r.kind /\ s.gen = r.gen /\ s.account = r.account
  OBVIOUS
<1>2. \A q \in pending' : \E p \in pending :
        q.by = p.by /\ q.kind = p.kind /\ q.gen = p.gen /\ q.account = p.account
  BY <1>1
<1>3. DetailsTyped'
  BY <1>2 DEF DetailsInv, DetailsTyped
<1>4. ActiveOfAccount' /\ SavedOfAccount' /\ NoneRequired'
  BY DEF DetailsInv, ActiveOfAccount, SavedOfAccount, NoneRequired
<1>5. Ordered'
  BY <1>2 DEF DetailsInv, Ordered
<1>6. WantedOfAccount'
  BY <1>2 DEF DetailsInv, WantedOfAccount, Wanted
<1>7. \A a \in Askers : latest'[a] >= latest[a]
  BY DEF DetailsInv, DetailsTyped
<1> QED
  BY <1>3, <1>4, <1>5, <1>6, <1>7 DEF DetailsInv

(* Reading an answer saves what it says of the configured account, and is  *)
(* the latest of its asker.                                                *)
LEMMA ReadInv ==
  ASSUME DetailsInv, NEW r \in pending, Read(r)
  PROVE  DetailsInv' /\ (\A a \in Askers : latest'[a] >= latest[a])
<1> USE DEF accountVars
<1>1. /\ r.account = account /\ account # 0 /\ r.by \in Askers
      /\ r.gen = generation[r.by] /\ r.gen # 0
  BY WantedAccount DEF Read
<1>2. /\ pending' = pending \ {r} /\ saved' = Stores(r)
      /\ latest' = [latest EXCEPT ![r.by] = r.gen]
      /\ UNCHANGED <<account, rejects, open, generation, asked, required, stale>>
  BY DEF Read, Ends
<1>3. /\ account \in Nat /\ saved \in [Fields -> Nat] /\ latest \in [Askers -> Nat]
      /\ generation \in [Askers -> Nat] /\ asked \in Nat
  BY BoundsAssumption DEF DetailsInv, DetailsTyped
<1>4. saved' \in [Fields -> Nat] /\ latest' \in [Askers -> Nat]
  BY <1>1, <1>2, <1>3 DEF Stores
<1>5. DetailsTyped'
  BY <1>2, <1>4 DEF DetailsInv, DetailsTyped
<1>6. \A f \in Fields : saved'[f] = saved[f] \/ saved'[f] = account
  BY <1>1, <1>2, <1>3 DEF Stores
<1>7. SavedOfAccount'
  BY <1>2, <1>6 DEF DetailsInv, SavedOfAccount
<1>8. ASSUME NEW a \in Askers
      PROVE  latest'[a] >= latest[a] /\ latest'[a] <= asked
             /\ (generation[a] # 0 => latest'[a] <= generation[a])
  <2>1. latest[a] \in Nat /\ generation[a] \in Nat /\ latest[a] <= asked
          /\ generation[a] <= asked /\ (generation[a] # 0 => latest[a] <= generation[a])
    BY <1>3 DEF DetailsInv, Ordered
  <2>2. latest'[a] = IF a = r.by THEN generation[a] ELSE latest[a]
    BY <1>1, <1>2, <1>3
  <2> QED
    BY <1>1, <1>3, <2>1, <2>2
<1>9. Ordered'
  BY <1>2, <1>8 DEF DetailsInv, Ordered
<1>10. ActiveOfAccount' /\ WantedOfAccount' /\ NoneRequired' /\ RequiredOnlyBy'
  BY <1>2 DEF DetailsInv, ActiveOfAccount, WantedOfAccount, Wanted, NoneRequired, RequiredOnlyBy
<1> QED
  BY <1>5, <1>7, <1>8, <1>9, <1>10 DEF DetailsInv

(* What becomes of an answer, or of none.                                  *)
LEMMA AnswerInv ==
  ASSUME DetailsInv, NEW r \in pending, Answer(r)
  PROVE  DetailsInv' /\ (\A a \in Askers : latest'[a] >= latest[a])
<1> USE DEF accountVars
<1>1. CASE Read(r)
  BY <1>1, ReadInv
<1>2. CASE Rejected(r)
  <2>1. account # 0
    BY <1>2, WantedAccount DEF Rejected
  <2>2. required' \in BOOLEAN /\ stale' \in BOOLEAN
    BY <1>2 DEF Rejected, DetailsInv, DetailsTyped
  <2>3. RequiredOnlyBy'
    <3>1. CASE r.by = "settings"
      BY <1>2, <3>1 DEF Rejected, RejectedBy, Ends, RequiredOnlyBy
    <3>2. CASE r.by # "settings"
      BY <1>2, <3>2 DEF Rejected, Ends, RequiredOnlyBy, DetailsInv
    <3> QED
      BY <3>1, <3>2
  <2>4. /\ pending' = pending \ {r}
        /\ UNCHANGED <<accountVars, open, generation, asked, saved, latest>>
    BY <1>2 DEF Rejected, Ends
  <2> QED
    BY <2>1, <2>2, <2>3, <2>4, TakenInv
<1>3. CASE Ignored(r) \/ NoCredential(r) \/ Unavailable(r) \/ Send(r)
  <2>1. /\ \/ pending' = pending \ {r}
           \/ pending' = (pending \ {r})
                           \cup {[r EXCEPT !.step = "sent", !.password = password]}
        /\ UNCHANGED <<accountVars, open, generation, asked, saved, latest>>
        /\ required' = required /\ stale' = stale
    BY <1>3 DEF Ignored, Drop, NoCredential, Unavailable, Send, Ends
  <2>2. /\ required' \in BOOLEAN /\ stale' \in BOOLEAN /\ RequiredOnlyBy'
        /\ account = 0 => ~required'
    BY <2>1 DEF DetailsInv, DetailsTyped, RequiredOnlyBy, NoneRequired
  <2> QED
    BY <2>1, <2>2, TakenInv
<1> QED
  BY <1>1, <1>2, <1>3 DEF Answer

(* The refreshes of the application and of the settings window.            *)
LEMMA AskingInv ==
  ASSUME DetailsInv, Start \/ SyncCompleted \/ RefreshInSettings
  PROVE  DetailsInv' /\ (\A a \in Askers : latest'[a] >= latest[a])
<1>1. open \in [Askers -> BOOLEAN] /\ (\A a \in Askers : open[a] => account # 0)
  BY DEF DetailsInv, DetailsTyped, ActiveOfAccount
<1>2. "refresher" \in Askers /\ "settings" \in Askers /\ "full" \in Kinds /\ "storage" \in Kinds
  BY DEF Askers, Kinds
<1>3. CASE Start
  BY <1>2, <1>3, AskInv DEF Start
<1>4. CASE SyncCompleted
  <2>1. account # 0 /\ open' = [open EXCEPT !["refresher"] = TRUE]
    BY <1>1, <1>2, <1>4 DEF SyncCompleted
  <2> QED
    BY <1>2, <1>4, <2>1, AskInv DEF SyncCompleted
<1>5. CASE RefreshInSettings
  <2>1. account # 0 /\ open' = [open EXCEPT !["settings"] = TRUE]
    BY <1>1, <1>2, <1>5 DEF RefreshInSettings
  <2> QED
    BY <1>2, <1>5, <2>1, AskInv DEF RefreshInSettings
<1> QED
  BY <1>3, <1>4, <1>5

(* Opening and closing the settings window, which closed wants no answer.  *)
LEMMA AskersWindowInv ==
  ASSUME DetailsInv, OpenSettings \/ CloseSettings
  PROVE  DetailsInv' /\ UNCHANGED latest
<1> USE DEF accountVars
<1>1. /\ open \in [Askers -> BOOLEAN] /\ generation \in [Askers -> Nat]
      /\ \A a \in Askers : IF open[a] THEN account # 0 ELSE generation[a] = 0
      /\ "settings" \in Askers /\ "refresher" \in Askers
  BY DEF DetailsInv, DetailsTyped, ActiveOfAccount, Askers
<1>2. UNCHANGED <<account, rejects, required, asked, pending, saved, latest, stale>>
  BY DEF OpenSettings, CloseSettings
<1>3. /\ open' \in [Askers -> BOOLEAN] /\ generation' \in [Askers -> Nat]
      /\ \A a \in Askers : IF open'[a] THEN account # 0 ELSE generation'[a] = 0
      /\ \A a \in Askers : generation'[a] \in {0, generation[a]}
  <2>1. CASE OpenSettings
    <3>1. open' = [open EXCEPT !["settings"] = TRUE] /\ generation' = generation /\ account # 0
      BY <1>1, <2>1 DEF OpenSettings
    <3> QED
      BY <1>1, <3>1
  <2>2. CASE CloseSettings
    <3>1. /\ open' = [open EXCEPT !["settings"] = FALSE]
          /\ generation' = [generation EXCEPT !["settings"] = 0]
      BY <2>2 DEF CloseSettings
    <3>2. \A a \in Askers : /\ open'[a] = IF a = "settings" THEN FALSE ELSE open[a]
                            /\ generation'[a] = IF a = "settings" THEN 0 ELSE generation[a]
      BY <1>1, <3>1
    <3>3. open' \in [Askers -> BOOLEAN] /\ generation' \in [Askers -> Nat]
      BY <1>1, <3>1
    <3> QED
      BY <1>1, <3>2, <3>3
  <2> QED
    BY <2>1, <2>2
<1>4. DetailsTyped'
  BY <1>2, <1>3 DEF DetailsInv, DetailsTyped
<1>5. Ordered'
  <2>1. \A a \in Askers :
          generation'[a] <= asked /\ (generation'[a] # 0 => latest[a] <= generation'[a])
    BY <1>3 DEF DetailsInv, DetailsTyped, Ordered
  <2> QED
    BY <1>2, <2>1 DEF DetailsInv, Ordered
<1>6. WantedOfAccount'
  <2> SUFFICES ASSUME NEW q \in pending, Wanted(q)' PROVE q.account = account
    BY <1>2 DEF WantedOfAccount
  <2>1. q.gen # 0 /\ q.by \in Askers /\ generation'[q.by] = q.gen
    BY DEF DetailsInv, DetailsTyped, Wanted
  <2>2. generation[q.by] = q.gen /\ open[q.by]
    BY <1>1, <1>3, <2>1
  <2> QED
    BY <2>2 DEF DetailsInv, WantedOfAccount, Wanted
<1>7. ActiveOfAccount' /\ NoneRequired' /\ SavedOfAccount' /\ RequiredOnlyBy'
  BY <1>2, <1>3 DEF DetailsInv, ActiveOfAccount, NoneRequired, SavedOfAccount, RequiredOnlyBy
<1> QED
  BY <1>2, <1>4, <1>5, <1>6, <1>7 DEF DetailsInv

(* What the server's status says, and a renewed password's details, are of *)
(* the account there is.                                                   *)
LEMMA SavingInv ==
  ASSUME DetailsInv, (\E a \in Askers : ServerRead(a)) \/ Revoke \/ Reconnect
  PROVE  DetailsInv' /\ UNCHANGED latest
<1> USE DEF accountVars, askVars
<1>1. /\ UNCHANGED <<account, open, generation, asked, pending, latest>>
      /\ required' \in BOOLEAN /\ rejects' \in BOOLEAN /\ stale' \in BOOLEAN
      /\ required' = required \/ required' = FALSE
  BY DEF ServerRead, Revoke, Reconnect, DetailsInv, DetailsTyped
<1>2. account \in Nat /\ saved \in [Fields -> Nat]
  BY BoundsAssumption DEF DetailsInv, DetailsTyped
<1>3. /\ saved' \in [Fields -> Nat]
      /\ \A f \in Fields : saved'[f] = saved[f] \/ saved'[f] = account
  <2>1. CASE \E a \in Askers : ServerRead(a)
    BY <1>2, <2>1 DEF ServerRead
  <2>2. CASE Revoke
    BY <1>2, <2>2 DEF Revoke
  <2>3. CASE Reconnect
    BY <1>2, <2>3 DEF Reconnect
  <2> QED
    BY <2>1, <2>2, <2>3
<1>4. RequiredOnlyBy'
  BY DEF ServerRead, Revoke, Reconnect, DetailsInv, RequiredOnlyBy
<1>5. DetailsTyped' /\ SavedOfAccount'
  BY <1>1, <1>3 DEF DetailsInv, DetailsTyped, SavedOfAccount
<1>6. ActiveOfAccount' /\ Ordered' /\ WantedOfAccount' /\ NoneRequired'
  BY <1>1 DEF DetailsInv, ActiveOfAccount, Ordered, WantedOfAccount, Wanted, NoneRequired
<1> QED
  BY <1>1, <1>4, <1>5, <1>6 DEF DetailsInv

(* The account is removed and set up with nobody active and nothing saved. *)
LEMMA AccountInv ==
  ASSUME DetailsInv, RemoveAccount \/ SetUp
  PROVE  DetailsInv' /\ UNCHANGED latest
<1> USE DEF accountVars, askVars
<1>1. /\ UNCHANGED <<asked, pending, latest>> /\ saved' = [f \in Fields |-> 0]
      /\ account' \in 0 .. MaxAccounts /\ rejects' \in BOOLEAN
  <2>1. rejects \in BOOLEAN
    BY DEF DetailsInv, DetailsTyped
  <2>2. CASE RemoveAccount
    BY <2>1, <2>2, BoundsAssumption DEF RemoveAccount
  <2>3. CASE SetUp
    <3>1. /\ account' \in 1 .. MaxAccounts /\ rejects' = FALSE
          /\ UNCHANGED <<asked, pending, latest>> /\ saved' = [f \in Fields |-> 0]
      BY <2>3 DEF SetUp
    <3>2. account' \in 0 .. MaxAccounts
      BY <3>1, BoundsAssumption
    <3> QED
      BY <3>1, <3>2
  <2> QED
    BY <2>2, <2>3
<1>2. ~required' /\ required' \in BOOLEAN /\ stale' \in BOOLEAN
  <2>1. required \in BOOLEAN /\ stale \in BOOLEAN /\ (account = 0 => ~required)
    BY DEF DetailsInv, DetailsTyped, NoneRequired
  <2>2. CASE RemoveAccount
    BY <2>2 DEF RemoveAccount
  <2>3. CASE SetUp
    <3>1. account = 0 /\ required' = required /\ stale' = stale
      BY <2>3 DEF SetUp
    <3> QED
      BY <2>1, <3>1
  <2> QED
    BY <2>2, <2>3
<1>3. /\ open' \in [Askers -> BOOLEAN] /\ generation' \in [Askers -> Nat]
      /\ \A a \in Askers : ~open'[a] /\ generation'[a] = 0
  <2>1. CASE RemoveAccount
    BY <2>1 DEF RemoveAccount, AllClosed
  <2>2. CASE SetUp
    BY <2>2 DEF SetUp, DetailsInv, DetailsTyped, ActiveOfAccount
  <2> QED
    BY <2>1, <2>2
<1>4. DetailsTyped'
  BY <1>1, <1>2, <1>3 DEF DetailsInv, DetailsTyped
<1>5. Ordered'
  BY <1>1, <1>3 DEF DetailsInv, DetailsTyped, Ordered
<1>6. WantedOfAccount'
  BY <1>1, <1>3 DEF DetailsInv, DetailsTyped, WantedOfAccount, Wanted
<1>7. ActiveOfAccount' /\ NoneRequired' /\ SavedOfAccount' /\ RequiredOnlyBy'
  BY <1>1, <1>2, <1>3 DEF ActiveOfAccount, NoneRequired, SavedOfAccount, RequiredOnlyBy
<1> QED
  BY <1>1, <1>4, <1>5, <1>6, <1>7 DEF DetailsInv

(* Every step keeps the invariant and replaces nothing by an older answer. *)
LEMMA DetailsNextInv ==
  ASSUME DetailsInv, DetailsNext
  PROVE  DetailsInv' /\ (\A a \in Askers : latest'[a] >= latest[a])
<1>1. UNCHANGED latest => \A a \in Askers : latest'[a] >= latest[a]
  BY DEF DetailsInv, DetailsTyped
<1> QED
  BY <1>1, AnswerInv, AskingInv, AskersWindowInv, SavingInv, AccountInv DEF DetailsNext

(* So it holds of every state that is reached.                             *)
LEMMA DetailsAlways == DetailsSpec => []DetailsInv
<1>1. DetailsInv /\ UNCHANGED detailsVars => DetailsInv'
  BY DEF detailsVars, accountVars, askVars, DetailsInv, DetailsTyped, ActiveOfAccount, Ordered,
         WantedOfAccount, Wanted, NoneRequired, SavedOfAccount, RequiredOnlyBy
<1> QED
  BY <1>1, DetailsInitInv, DetailsNextInv, PTL DEF DetailsSpec

(* What is saved is about the configured account, for any number of        *)
(* accounts, passwords and refreshes.                                      *)
THEOREM SavedIsOfAccount == DetailsSpec => []SavedOfAccount
<1>1. DetailsInv => SavedOfAccount
  BY DEF DetailsInv
<1> QED
  BY <1>1, DetailsAlways, PTL

(* Only a rejection makes synchronization wait for a reconnection.         *)
THEOREM RequiredIsJustified == DetailsSpec => []RequiredOnlyBy
<1>1. DetailsInv => RequiredOnlyBy
  BY DEF DetailsInv
<1> QED
  BY <1>1, DetailsAlways, PTL

(* An older refresh never replaces a later one of the same asker.          *)
THEOREM NewestIsKept == DetailsSpec => OlderNeverReplaces
<1>1. DetailsInv /\ [DetailsNext]_detailsVars
        => [\A a \in Askers : latest'[a] >= latest[a]]_detailsVars
  BY DetailsNextInv
<1> QED
  BY <1>1, DetailsAlways, PTL DEF DetailsSpec, OlderNeverReplaces

-----------------------------------------------------------------------------
(* The types of the details.                                               *)

(* A refresh that is asked for is one of the requests.                     *)
LEMMA AskTyped ==
  ASSUME DetailsTypeOK, DetailsInv, NEW by \in Askers, NEW kind \in Kinds, Ask(by, kind),
         account # 0, open' \in [Askers -> BOOLEAN],
         UNCHANGED <<accountVars, required, saved, latest, stale>>
  PROVE  DetailsTypeOK'
<1>1. asked + 1 \in 1 .. MaxAsked /\ asked + 1 \in 0 .. MaxAsked /\ account \in 1 .. MaxAccounts
  <2>1. asked \in 0 .. MaxAsked /\ account \in 0 .. MaxAccounts
    BY DEF DetailsTypeOK
  <2>2. asked < MaxAsked
    BY DEF Ask
  <2> QED
    BY <2>1, <2>2, BoundsAssumption
<1>2. pending' \subseteq Requests
  BY <1>1 DEF Ask, Requests, DetailsTypeOK
<1>3. generation' \in [Askers -> 0 .. MaxAsked] /\ asked' \in 0 .. MaxAsked
  BY <1>1 DEF Ask, DetailsTypeOK
<1> QED
  BY <1>2, <1>3, Zenon DEF DetailsTypeOK, accountVars

(* An answer is sent on as a request, or dropped.                          *)
LEMMA AnswerTyped ==
  ASSUME DetailsTypeOK, NEW r \in pending, Answer(r) PROVE DetailsTypeOK'
<1>1. r \in Requests /\ password \in 1 .. MaxPasswords
  BY DEF DetailsTypeOK
<1>2. /\ r.by \in Askers /\ r.gen \in 0 .. MaxAsked /\ r.account \in 0 .. MaxAccounts
      /\ [r EXCEPT !.step = "sent", !.password = password] \in Requests
  <2>1. r.by \in Askers /\ r.gen \in 1 .. MaxAsked /\ r.account \in 1 .. MaxAccounts
    BY <1>1 DEF Requests
  <2>2. r.gen \in 0 .. MaxAsked /\ r.account \in 0 .. MaxAccounts
    BY <2>1, BoundsAssumption
  <2>3. [r EXCEPT !.step = "sent", !.password = password] \in Requests
    BY <1>1 DEF Requests
  <2> QED
    BY <2>1, <2>2, <2>3
<1>3. /\ UNCHANGED <<account, password, rejects, open, generation, asked>>
      /\ pending' \subseteq Requests
      /\ required' \in BOOLEAN /\ stale' \in BOOLEAN
  BY <1>2
     DEF Answer, Ignored, Drop, Send, NoCredential, Rejected, Unavailable, Read, Ends,
         accountVars, DetailsTypeOK
<1>4. saved' \in [Fields -> 0 .. MaxAccounts] /\ latest' \in [Askers -> 0 .. MaxAsked]
  <2>1. CASE Read(r)
    BY <1>2, <2>1 DEF Read, Stores, Fields, DetailsTypeOK
  <2>2. CASE ~Read(r)
    <3>1. saved' = saved /\ latest' = latest
      BY <2>2 DEF Answer, Ignored, Drop, Send, NoCredential, Rejected, Unavailable
    <3> QED
      BY <3>1 DEF DetailsTypeOK
  <2> QED
    BY <2>1, <2>2
<1> QED
  BY <1>3, <1>4, Zenon DEF DetailsTypeOK

(* The application and its windows.                                        *)
LEMMA ApplicationTyped ==
  ASSUME DetailsTypeOK, DetailsInv,
         \/ \E a \in Askers : ServerRead(a)
         \/ OpenSettings \/ CloseSettings \/ Revoke \/ Reconnect \/ RemoveAccount \/ SetUp
  PROVE  DetailsTypeOK'
<1>1. /\ account' \in 0 .. MaxAccounts /\ password' \in 1 .. MaxPasswords
      /\ rejects' \in BOOLEAN /\ required' \in BOOLEAN /\ stale' \in BOOLEAN
  <2>1. DetailsTyped'
    BY AskersWindowInv, SavingInv, AccountInv DEF DetailsInv
  <2>2. password' = password \/ (password < MaxPasswords /\ password' = password + 1)
    BY DEF ServerRead, OpenSettings, CloseSettings, Revoke, Reconnect, RemoveAccount, SetUp,
           accountVars
  <2>3. password \in 1 .. MaxPasswords
    BY DEF DetailsTypeOK
  <2>4. password' \in 1 .. MaxPasswords
    BY <2>2, <2>3, BoundsAssumption
  <2> QED
    BY <2>1, <2>4 DEF DetailsTyped
<1>2. 0 \in 0 .. MaxAsked /\ 0 \in 0 .. MaxAccounts
  BY BoundsAssumption
<1>3. UNCHANGED <<asked, pending, latest>>
  BY DEF ServerRead, OpenSettings, CloseSettings, Revoke, Reconnect, RemoveAccount, SetUp, askVars
<1>4. open' \in [Askers -> BOOLEAN] /\ generation' \in [Askers -> 0 .. MaxAsked]
  BY <1>2
     DEF ServerRead, OpenSettings, CloseSettings, Revoke, Reconnect, RemoveAccount, AllClosed,
         SetUp, askVars, DetailsTypeOK, Askers
<1>5. saved' \in [Fields -> 0 .. MaxAccounts]
  BY <1>2
     DEF ServerRead, OpenSettings, CloseSettings, Revoke, Reconnect, RemoveAccount, SetUp,
         DetailsTypeOK, Fields
<1> QED
  BY <1>1, <1>3, <1>4, <1>5, Zenon DEF DetailsTypeOK

(* Every variable of the details keeps its type, for any number of         *)
(* accounts, passwords and refreshes.                                      *)
THEOREM DetailsTypeCorrect == DetailsSpec => []DetailsTypeOK
<1>1. DetailsInit => DetailsTypeOK
  <2>1. 0 \in 0 .. MaxAsked /\ {0, 1} \subseteq 0 .. MaxAccounts /\ 1 \in 1 .. MaxPasswords
    BY BoundsAssumption
  <2> QED
    BY <2>1 DEF DetailsInit, DetailsTypeOK
<1>2. DetailsTypeOK /\ DetailsInv /\ [DetailsNext]_detailsVars => DetailsTypeOK'
  <2> SUFFICES ASSUME DetailsTypeOK, DetailsInv, [DetailsNext]_detailsVars PROVE DetailsTypeOK'
    OBVIOUS
  <2>1. CASE Start \/ SyncCompleted \/ RefreshInSettings
    <3>1. /\ account # 0 /\ open' \in [Askers -> BOOLEAN]
          /\ UNCHANGED <<accountVars, required, saved, latest, stale>>
      BY <2>1
         DEF Start, SyncCompleted, RefreshInSettings, DetailsTypeOK, DetailsInv, ActiveOfAccount,
             Askers
    <3>2. \E by \in Askers, kind \in Kinds : Ask(by, kind)
      BY <2>1 DEF Start, SyncCompleted, RefreshInSettings, Askers, Kinds
    <3> QED
      BY <3>1, <3>2, AskTyped
  <2>2. CASE UNCHANGED detailsVars
    BY <2>2, Zenon DEF detailsVars, accountVars, askVars, DetailsTypeOK
  <2> QED
    BY <2>1, <2>2, AnswerTyped, ApplicationTyped DEF DetailsNext
<1> QED
  BY <1>1, <1>2, DetailsAlways, PTL DEF DetailsSpec
=============================================================================
