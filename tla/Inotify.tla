------------------------------ MODULE Inotify ------------------------------
(***************************************************************************)
(* The recursive watcher (core/inotify.py) over a tree that changes while  *)
(* it is scanned and while its events wait in the kernel's queue, and the  *)
(* recovery from an overflowed queue (core/runtime.py).                    *)
(*                                                                         *)
(* A directory is an inode.  The kernel's watch descriptor is the inode's, *)
(* so a directory that is already watched gets the descriptor it had.      *)
(***************************************************************************)
EXTENDS Naturals, Sequences, FiniteSets

CONSTANTS
  Dir,          \* directories that may exist below the root
  Name,         \* the names they may have
  Root,
  Initial,      \* the directories there are at first, below the root
  QueueLimit,   \* events the kernel holds; the next one overflows the queue
  WatchLimit,   \* watches the system allows
  MaxChanges    \* bound: changes of the tree

ASSUME DirAssumption == Root \notin Dir /\ Initial \subseteq Dir
ASSUME LimitsAssumption == QueueLimit \in Nat /\ WatchLimit \in Nat /\ MaxChanges \in Nat

VARIABLES
  parent, name,   \* where each directory is; parent[d] = d: nowhere
  kernel,         \* the directories the kernel watches
  queue,          \* events the watcher has not read
  watches,        \* self.watches, from descriptor to path
  todo,           \* paths os.walk has still to scan
  scanned,        \* the path scanned whose watch is not added yet, with its subdirectories
  due,            \* a request follows the walk under way
  status,         \* "up", "overflowed" (recovery scheduled) or "degraded"
  unreported,     \* history: directories with changes no request has followed
  moved, raced,   \* history: directories renamed; that appeared between scan and watch
  changes

vars == <<parent, name, kernel, queue, watches, todo, scanned, due, status,
          unreported, moved, raced, changes>>
tree == <<parent, name>>
history == <<moved, raced, changes>>

Node == Dir \cup {Root}
Path == {<<>>} \cup UNION {[1 .. n -> Name] : n \in 1 .. Cardinality(Dir)}
Event == [wd : Node, dir : BOOLEAN, name : Name \cup {Root},
          kind : {"appeared", "removed", "changed", "selfGone", "ignored", "overflow"}]
Nowhere == [path |-> <<>>, found |-> {}, on |-> FALSE]

(* Everything has its type.                                                *)
TypeOK ==
  /\ parent \in [Dir -> Node] /\ name \in [Dir -> Name]
  /\ kernel \subseteq Node
  /\ queue \in Seq(Event) /\ Len(queue) <= QueueLimit + 1
  /\ DOMAIN watches \subseteq Node /\ \A d \in DOMAIN watches : watches[d] \in Path
  /\ todo \subseteq Path
  /\ scanned \in [path : Path, found : SUBSET Name, on : BOOLEAN] /\ due \in BOOLEAN
  /\ status \in {"up", "overflowed", "degraded"}
  /\ unreported \subseteq Node /\ moved \subseteq Dir /\ raced \subseteq Dir
  /\ changes \in 0 .. MaxChanges

Exists(d) == d = Root \/ parent[d] # d
Children(d) == {e \in Dir : parent[e] = d /\ e # d}
(* The directory at a path now, as a set with at most one element: where a *)
(* chain of directories with these names leads.                            *)
Chains(p) ==
  {c \in [0 .. Len(p) -> Node] :
     c[0] = Root /\ \A i \in 1 .. Len(p) : c[i] \in Children(c[i - 1]) /\ name[c[i]] = p[i]}
At(p) == {c[Len(p)] : c \in Chains(p)}
(* A directory and everything below it: what every set has that has the    *)
(* directory, and the children of what it has.                             *)
Closed(S) == \A d \in S : Children(d) \subseteq S
Below(d) == {e \in Node : \A S \in SUBSET Node : d \in S /\ Closed(S) => e \in S}

InTree(d) == d \in Below(Root)

Init ==
  /\ parent = [d \in Dir |-> IF d \in Initial THEN Root ELSE d]
  /\ name \in [Dir -> Name]
  /\ \A d, e \in Initial : d # e => name[d] # name[e]
  /\ kernel = {} /\ queue = <<>> /\ watches = <<>>
  /\ todo = {<<>>} /\ scanned = Nowhere /\ status = "up" /\ due = TRUE
  /\ unreported = {} /\ moved = {} /\ raced = {} /\ changes = 0

-----------------------------------------------------------------------------
(* The user's changes.  The kernel queues what the watched directories see.*)
Ev(d, kind, isDir, n) == [wd |-> d, dir |-> isDir, name |-> n, kind |-> kind]
Seen(d, kind, isDir, n) == IF d \in kernel THEN <<Ev(d, kind, isDir, n)>> ELSE <<>>

Happens(seen) ==
  queue' = IF Len(queue) + Len(seen) <= QueueLimit THEN queue \o seen
           ELSE IF Len(queue) > QueueLimit THEN queue
           ELSE SubSeq(queue \o seen, 1, QueueLimit) \o <<Ev(Root, "overflow", FALSE, Root)>>

Changes ==
  /\ changes < MaxChanges /\ changes' = changes + 1
  /\ UNCHANGED <<watches, todo, scanned, due, status>>

Free(p, n) == \A e \in Children(p) : name[e] # n
(* A directory appears where a scan has looked already and not yet watches.*)
Races(p) == scanned.on /\ p \in At(scanned.path) /\ p \notin kernel

WriteFile(d) ==
  /\ Changes /\ InTree(d)
  /\ Happens(Seen(d, "changed", FALSE, Root))
  /\ unreported' = unreported \cup {d}
  /\ UNCHANGED <<tree, kernel, moved, raced>>

MakeDir(d, p, n) ==
  /\ Changes /\ ~Exists(d) /\ d \notin moved /\ Free(p, n) /\ InTree(p)
  /\ parent' = [parent EXCEPT ![d] = p] /\ name' = [name EXCEPT ![d] = n]
  /\ Happens(Seen(p, "appeared", TRUE, n))
  /\ unreported' = unreported \cup {p}
  /\ raced' = IF Races(p) THEN raced \cup {d} ELSE raced
  /\ UNCHANGED <<kernel, moved>>

Rename(d, p, n) ==
  /\ Changes /\ d \in Dir /\ <<p, n>> # <<parent[d], name[d]>> /\ Free(p, n)
  /\ InTree(d) /\ InTree(p) /\ p \notin Below(d)
  /\ parent' = [parent EXCEPT ![d] = p] /\ name' = [name EXCEPT ![d] = n]
  /\ Happens(Seen(parent[d], "removed", TRUE, name[d]) \o Seen(p, "appeared", TRUE, n)
               \o Seen(d, "selfGone", FALSE, Root))
  /\ unreported' = unreported \cup {p, parent[d]}
  /\ moved' = moved \cup {d}
  /\ raced' = IF Races(p) THEN raced \cup {d} ELSE raced
  /\ UNCHANGED kernel

(* An inode that is gone does not come back: it is kept in "moved".        *)
RemoveDir(d) ==
  /\ Changes /\ InTree(d) /\ Children(d) = {}
  /\ parent' = [parent EXCEPT ![d] = d] /\ moved' = moved \cup {d}
  /\ Happens(Seen(parent[d], "removed", TRUE, name[d]) \o Seen(d, "selfGone", FALSE, Root)
               \o Seen(d, "ignored", FALSE, Root))
  /\ kernel' = kernel \ {d}
  /\ unreported' = (unreported \ {d}) \cup {parent[d]}
  /\ UNCHANGED <<name, raced>>

-----------------------------------------------------------------------------
(* _add_tree: os.walk lists a directory, and only then is it watched.      *)
Walking == scanned.on \/ todo # {}

Scan(p) ==
  /\ status = "up" /\ ~scanned.on /\ p \in todo /\ todo' = todo \ {p}
  /\ scanned' = IF At(p) = {} THEN Nowhere
                ELSE [path |-> p, on |-> TRUE,
                      found |-> {name[e] : e \in UNION {Children(d) : d \in At(p)}}]
  /\ UNCHANGED <<tree, kernel, queue, watches, due, status, unreported, history>>

Stopped == kernel' = {} /\ queue' = <<>> /\ watches' = <<>> /\ todo' = {} /\ scanned' = Nowhere

(* _add_watch: a path that is gone is passed over, but walked into; at the *)
(* limit on_degraded stops the watcher for good.                           *)
Below1(p, ns) == {Append(p, n) : n \in ns}
AddWatch ==
  /\ scanned.on /\ scanned' = Nowhere
  /\ todo' = todo \cup Below1(scanned.path, scanned.found)
  /\ kernel' = kernel \cup At(scanned.path) /\ Cardinality(kernel') <= WatchLimit
  /\ watches' = [d \in DOMAIN watches \cup At(scanned.path) |->
                   IF d \in At(scanned.path) THEN scanned.path ELSE watches[d]]
  /\ UNCHANGED <<tree, queue, due, status, unreported, history>>

(* The walk is over, and the handler or start() it was part of requests.   *)
Reports == unreported' = {}     \* a request synchronizes everything
Walked ==
  /\ due /\ ~Walking /\ due' = FALSE /\ Reports
  /\ UNCHANGED <<tree, kernel, queue, watches, todo, scanned, status, history>>

LimitReached ==
  /\ scanned.on /\ Cardinality(kernel \cup At(scanned.path)) > WatchLimit
  /\ Stopped /\ status' = "degraded"
  /\ due' = FALSE /\ Reports
  /\ UNCHANGED <<tree, history>>

(* _parse, one event; an event is skipped when its directory is unknown.   *)
Forgets(d) == watches' = [e \in DOMAIN watches \ {d} |-> watches[e]]
Dropped(d) == Forgets(d)

NotWalked(e) == UNCHANGED <<todo, due>> /\ Reports     \* mutant: a new directory is not added

Extended(e) ==
  IF e.dir /\ e.kind = "appeared"
  THEN todo' = {Append(watches[e.wd], e.name)} /\ due' = TRUE /\ UNCHANGED unreported
  ELSE UNCHANGED <<todo, due>> /\ Reports

Handle ==
  /\ status = "up" /\ ~Walking /\ ~due /\ queue # <<>> /\ queue' = Tail(queue)
  /\ LET e == Head(queue)
         known == e.wd \in DOMAIN watches
     IN \/ /\ ~known /\ e.kind # "overflow"
           /\ UNCHANGED <<watches, todo, due, unreported>>
        \/ /\ known /\ e.kind = "ignored" /\ Dropped(e.wd)
           /\ UNCHANGED <<todo, due, unreported>>
        \/ /\ known /\ e.kind = "selfGone" /\ Dropped(e.wd) /\ Reports
           /\ UNCHANGED <<todo, due>>
        \/ /\ known /\ e.kind \in {"appeared", "removed", "changed"}
           /\ watches' = watches /\ Extended(e)
  /\ UNCHANGED <<tree, kernel, scanned, status, history>>

(* IN_Q_OVERFLOW: _inotify_degraded stops the watcher and schedules the    *)
(* recovery.                                                               *)
Overflow ==
  /\ status = "up" /\ ~Walking /\ ~due /\ queue # <<>> /\ Head(queue).kind = "overflow"
  /\ Stopped /\ status' = "overflowed"
  /\ UNCHANGED <<tree, due, unreported, history>>

NothingRequested == due' = FALSE    \* mutant: the watcher is only rebuilt

Requested == due' = TRUE

(* _recover_inotify_overflow: the watcher is rebuilt and a protected       *)
(* reconciliation requested.                                               *)
Recover ==
  /\ status = "overflowed" /\ status' = "up" /\ todo' = {<<>>} /\ Requested
  /\ UNCHANGED <<tree, kernel, queue, watches, scanned, unreported, history>>

(* The local safety interval that replaces a degraded watcher.             *)
Fallback ==
  /\ status = "degraded" /\ unreported # {} /\ unreported' = {}
  /\ UNCHANGED <<tree, kernel, queue, watches, todo, scanned, due, status, history>>

UserNext ==
  \/ \E d \in Dir, p \in Node, n \in Name : MakeDir(d, p, n) \/ Rename(d, p, n)
  \/ \E d \in Node : WriteFile(d)
  \/ \E d \in Dir : RemoveDir(d)
WatcherNext ==
  \/ \E p \in todo : Scan(p)
  \/ AddWatch \/ Walked \/ LimitReached \/ Handle \/ Overflow \/ Recover \/ Fallback

Next == UserNext \/ WatcherNext
Spec == Init /\ [][Next]_vars
FairSpec == Spec /\ WF_vars(WatcherNext)

-----------------------------------------------------------------------------
Idle == status = "up" /\ ~Walking /\ ~due /\ queue = <<>>

(* "Recursive Linux inotify monitoring" (CHANGELOG): when the watcher has  *)
(* nothing left to do, and no directory appeared between a scan and its    *)
(* watch, it watches every directory of the tree.                          *)
EveryDirectoryWatched == Idle /\ raced = {} => Below(Root) \subseteq DOMAIN watches

(* A directory escapes an idle watcher only when it, or one above it, was  *)
(* renamed, or appeared between the scan and the watch.                    *)
UnwatchedOnlyBy ==
  Idle => \A d \in Below(Root) \ DOMAIN watches : \E r \in moved \cup raced : d \in Below(r)

(* A change below a watched directory is followed by a request, also when  *)
(* the queue overflows or the watcher reaches its limit on the way.        *)
ChangesReported ==
  \A d \in Node :
    (d \in unreported /\ d \in DOMAIN watches) ~> (d \notin unreported)
=============================================================================
