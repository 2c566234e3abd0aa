---------------------------- MODULE FolderProofs ----------------------------
(***************************************************************************)
(* Proofs about the folder, for every tree, name, limit and bookmark.      *)
(*                                                                         *)
(* The recursive watcher: an idle one misses only what was renamed, or     *)
(* appeared between a scan and its watch.  The invariant, WatchInv, says of*)
(* every other directory of the tree (Settled) that it is watched, or that *)
(* something leads to it still (Coming): the walk, the end of a scan, an   *)
(* event that waits, or the recovery from an overflow.  What is below a    *)
(* directory is the least closed set that has it (Below), so facts about it*)
(* need no induction; those about paths use that a set of numbers has a    *)
(* least one (Least).                                                      *)
(*                                                                         *)
(* The Desktop: the application leaves the user's entries alone.           *)
(***************************************************************************)
EXTENDS Inotify, Desktop, WellFoundedInduction, TLAPS

(* A set of natural numbers has a least one.                               *)
LEMMA Least ==
  ASSUME NEW S \in SUBSET Nat, S # {}
  PROVE  \E m \in S : \A k \in S : m <= k
<1> DEFINE R == OpToRel(<, Nat)
<1>1. IsWellFoundedOn(R, Nat)
  BY NatLessThanWellFounded
<1>2. \A a, b \in Nat : a < b => <<a, b>> \in R
  BY DEF OpToRel
<1> HIDE DEF R
<1>3. PICK m \in S : \A k \in S : <<k, m>> \notin R
  BY <1>1, WFMin
<1>4. \A k \in S : k \in Nat /\ m \in Nat /\ ~(k < m)
  BY <1>2, <1>3
<1>5. \A k \in S : m <= k
  BY <1>4
<1> QED
  BY <1>5

-----------------------------------------------------------------------------
(* What is below a directory.                                              *)
LEMMA BelowSelf == ASSUME NEW d \in Node PROVE d \in Below(d)
BY DEF Below

(* Below(d) is closed under children, and has only directories.            *)
LEMMA BelowClosed == ASSUME NEW d PROVE Below(d) \subseteq Node /\ Closed(Below(d))
BY DEF Below, Closed, Children, Node

(* No closed set with the directory in it is smaller.                      *)
LEMMA BelowLeast ==
  ASSUME NEW d, NEW S \in SUBSET Node, d \in S, Closed(S)
  PROVE  Below(d) \subseteq S
BY DEF Below

(* What is below what is below a directory is below it, too.               *)
LEMMA BelowTrans ==
  ASSUME NEW a \in Node, NEW b \in Below(a)
  PROVE  Below(b) \subseteq Below(a)
BY BelowClosed, BelowLeast

(* From the top: it is the directory, or below one of its children.        *)
LEMMA BelowDown ==
  ASSUME NEW a \in Node, NEW d \in Below(a), d # a
  PROVE  \E c \in Children(a) : d \in Below(c)
<1> DEFINE S == {a} \cup {x \in Node : \E c \in Children(a) : x \in Below(c)}
<1>1. S \in SUBSET Node /\ a \in S
  OBVIOUS
<1>2. Closed(S)
  <2> SUFFICES ASSUME NEW x \in S, NEW e \in Children(x) PROVE e \in S
    BY DEF Closed
  <2>1. e \in Node
    BY DEF Children, Node
  <2>2. CASE x = a
    BY <2>1, <2>2, BelowSelf
  <2>3. CASE \E c \in Children(a) : x \in Below(c)
    BY <2>1, <2>3, BelowClosed DEF Closed
  <2> QED
    BY <2>2, <2>3
<1> HIDE DEF S
<1>3. d \in S
  BY <1>1, <1>2, BelowLeast
<1> QED
  BY <1>3 DEF S

(* From below: it is the directory, or its parent is below it, too.        *)
LEMMA BelowUp ==
  ASSUME NEW a \in Node, NEW d \in Below(a), d # a
  PROVE  d \in Dir /\ parent[d] \in Below(a) /\ d \in Children(parent[d])
<1> DEFINE S == {x \in Below(a) :
                   x = a \/ (x \in Dir /\ parent[x] \in Below(a) /\ x \in Children(parent[x]))}
<1>1. S \in SUBSET Node /\ a \in S
  BY BelowSelf, BelowClosed
<1>2. Closed(S)
  <2> SUFFICES ASSUME NEW x \in S, NEW e \in Children(x) PROVE e \in S
    BY DEF Closed
  <2>1. e \in Below(a)
    BY BelowClosed DEF Closed
  <2>2. e \in Dir /\ parent[e] = x
    BY DEF Children
  <2> QED
    BY <2>1, <2>2
<1> HIDE DEF S
<1>3. d \in S
  BY <1>1, <1>2, BelowLeast
<1> QED
  BY <1>3 DEF S

(* Of two directories that one is below, one is below the other.           *)
LEMMA BelowBoth ==
  ASSUME NEW a \in Node, NEW b \in Node, NEW d \in Below(a), d \in Below(b)
  PROVE  a \in Below(b) \/ b \in Below(a)
<1> DEFINE S == {x \in Below(a) : x \in Below(b) => a \in Below(b) \/ b \in Below(a)}
<1>1. S \in SUBSET Node /\ a \in S
  BY BelowSelf, BelowClosed
<1>2. Closed(S)
  <2> SUFFICES ASSUME NEW x \in S, NEW e \in Children(x), e \in Below(b), e # b
               PROVE  a \in Below(b) \/ b \in Below(a)
    <3>1. \A x \in S : Children(x) \subseteq Below(a)
      BY BelowClosed DEF Closed
    <3> QED
      BY <3>1 DEF Closed
  <2>1. x \in Below(b)
    BY BelowUp DEF Children
  <2> QED
    BY <2>1
<1> HIDE DEF S
<1>3. d \in S
  BY <1>1, <1>2, BelowLeast
<1> QED
  BY <1>3 DEF S

(* What a directory of the tree is below is in the tree.                   *)
LEMMA InTreeUp ==
  ASSUME NEW a \in Node, NEW d \in Below(a), InTree(d)
  PROVE  InTree(a)
<1>1. Root \in Node /\ Root \notin Dir
  BY DirAssumption DEF Node
<1>2. Root \in Below(a) => a = Root
  BY <1>1, BelowUp
<1> QED
  BY <1>1, <1>2, BelowBoth, BelowSelf DEF InTree

(* Settled: nothing on the way to it was renamed, or appeared behind a scan.*)
Settled(d) == InTree(d) /\ \A r \in moved \cup raced : d \notin Below(r)

(* What a settled directory is below is settled.                           *)
LEMMA SettledUp ==
  ASSUME moved \cup raced \subseteq Dir, NEW a \in Node, NEW d \in Below(a), Settled(d)
  PROVE  Settled(a)
<1>1. \A r \in Dir : a \in Below(r) => d \in Below(r)
  BY BelowTrans DEF Node
<1> QED
  BY <1>1, InTreeUp DEF Settled

(* The root is settled: nothing renames it.                                *)
LEMMA SettledRoot == ASSUME moved \cup raced \subseteq Dir PROVE Root \in Node /\ Settled(Root)
<1>1. Root \in Node /\ Root \notin Dir
  BY DirAssumption DEF Node
<1>2. \A r \in Dir : Root \notin Below(r)
  BY <1>1, BelowUp DEF Node
<1> QED
  BY <1>1, <1>2, BelowSelf DEF Settled, InTree

-----------------------------------------------------------------------------
(* What is at a path.                                                      *)
LEMMA AtRoot == Root \in At(<<>>)
<1> DEFINE c == [i \in 0 .. 0 |-> Root]
<1>1. Len(<<>>) = 0 /\ Root \in Node
  BY DEF Node
<1>2. c \in [0 .. Len(<<>>) -> Node] /\ c[0] = Root /\ c[Len(<<>>)] = Root
  BY <1>1
<1>3. c \in Chains(<<>>)
  BY <1>1, <1>2 DEF Chains
<1> QED
  BY <1>2, <1>3 DEF At

Word == Seq(Name \cup {Root})

(* A child of what is at a path is at the path with its name.              *)
LEMMA AtAppend ==
  ASSUME NEW p \in Word, NEW n \in Name \cup {Root}, NEW a \in At(p),
         NEW e \in Children(a), name[e] = n
  PROVE  e \in At(Append(p, n))
<1>1. PICK c \in Chains(p) : c[Len(p)] = a
  BY DEF At
<1> DEFINE q == Append(p, n)
           f == [i \in 0 .. Len(q) |-> IF i <= Len(p) THEN c[i] ELSE e]
<1>2. Len(p) \in Nat /\ Len(q) = Len(p) + 1 /\ q[Len(q)] = n /\ \A i \in 1 .. Len(p) : q[i] = p[i]
  BY DEF Word
<1>3. /\ c \in [0 .. Len(p) -> Node] /\ c[0] = Root
      /\ \A i \in 1 .. Len(p) : c[i] \in Children(c[i - 1]) /\ name[c[i]] = p[i]
  BY <1>1 DEF Chains
<1>4. e \in Node
  BY DEF Children, Node
<1>5. /\ \A i \in 0 .. Len(p) : f[i] = c[i]
      /\ f[Len(q)] = e /\ f \in [0 .. Len(q) -> Node]
  BY <1>2, <1>3, <1>4
<1> HIDE DEF q, f
<1>6. f[0] = Root
  BY <1>2, <1>3, <1>5
<1>7. \A i \in 1 .. Len(p) : f[i] \in Children(f[i - 1]) /\ name[f[i]] = q[i]
  <2> SUFFICES ASSUME NEW i \in 1 .. Len(p) PROVE f[i] \in Children(f[i - 1]) /\ name[f[i]] = q[i]
    OBVIOUS
  <2>1. i - 1 \in 0 .. Len(p) /\ i \in 0 .. Len(p)
    BY <1>2
  <2> QED
    BY <1>2, <1>3, <1>5, <2>1
<1>8. f[Len(q)] \in Children(f[Len(q) - 1]) /\ name[f[Len(q)]] = q[Len(q)]
  <2>1. Len(q) - 1 = Len(p) /\ Len(p) \in 0 .. Len(p)
    BY <1>2
  <2> QED
    BY <1>1, <1>2, <1>5, <2>1
<1>9. \A i \in 1 .. Len(q) : f[i] \in Children(f[i - 1]) /\ name[f[i]] = q[i]
  <2>1. \A i \in 1 .. Len(q) : i \in 1 .. Len(p) \/ i = Len(q)
    BY <1>2
  <2> QED
    BY <2>1, <1>7, <1>8
<1>10. f \in Chains(q)
  BY <1>5, <1>6, <1>9 DEF Chains
<1> QED
  BY <1>5, <1>10 DEF At, q

(* What is at a path is in the tree.                                       *)
LEMMA AtExists ==
  ASSUME NEW p \in Word, NEW a \in At(p)
  PROVE  a \in Node /\ Exists(a)
<1>1. PICK c \in Chains(p) : c[Len(p)] = a
  BY DEF At
<1>2. Len(p) \in Nat
  BY DEF Word
<1>3. /\ c \in [0 .. Len(p) -> Node] /\ c[0] = Root
      /\ \A i \in 1 .. Len(p) : c[i] \in Children(c[i - 1])
  BY <1>1 DEF Chains
<1>4. CASE Len(p) = 0
  BY <1>1, <1>3, <1>4 DEF Exists, Node
<1>5. CASE Len(p) # 0
  <2>1. Len(p) \in 1 .. Len(p) /\ Len(p) \in 0 .. Len(p)
    BY <1>2, <1>5
  <2>2. a \in Node /\ a \in Children(c[Len(p) - 1])
    BY <1>1, <1>3, <2>1
  <2> QED
    BY <2>2 DEF Children, Exists
<1> QED
  BY <1>4, <1>5

(* The end of a chain is below each of its directories.                    *)
LEMMA ChainBelow ==
  ASSUME NEW p \in Word, NEW c \in Chains(p)
  PROVE  \A i \in 0 .. Len(p) : c[i] \in Node /\ c[Len(p)] \in Below(c[i])
<1>1. Len(p) \in Nat
  BY DEF Word
<1>2. /\ c \in [0 .. Len(p) -> Node]
      /\ \A i \in 1 .. Len(p) : c[i] \in Children(c[i - 1])
  BY DEF Chains
<1>3. \A i \in 0 .. Len(p) : c[i] \in Node
  BY <1>2
<1> DEFINE S == {k \in 0 .. Len(p) : c[Len(p)] \notin Below(c[Len(p) - k])}
<1>4. S = {}
  <2> SUFFICES ASSUME S # {} PROVE FALSE
    OBVIOUS
  <2>1. S \in SUBSET Nat
    BY <1>1
  <2>2. \A k \in 0 .. Len(p) : k \in S <=> c[Len(p)] \notin Below(c[Len(p) - k])
    OBVIOUS
  <2>3. S \subseteq 0 .. Len(p)
    OBVIOUS
  <2> HIDE DEF S
  <2>4. PICK m \in S : \A k \in S : m <= k
    BY <2>1, Least
  <2>5. m # 0
    <3>1. Len(p) - 0 = Len(p) /\ Len(p) \in 0 .. Len(p) /\ 0 \in 0 .. Len(p)
      BY <1>1
    <3> QED
      BY <1>3, <2>2, <2>4, <3>1, BelowSelf
  <2> DEFINE j == Len(p) - m
  <2>6. /\ m - 1 \in 0 .. Len(p) /\ m - 1 \notin S /\ m \in 0 .. Len(p)
        /\ Len(p) - (m - 1) = j + 1 /\ j + 1 \in 1 .. Len(p) /\ (j + 1) - 1 = j
        /\ j \in 0 .. Len(p)
    BY <1>1, <2>3, <2>4, <2>5
  <2>7. c[Len(p)] \in Below(c[j + 1]) /\ c[Len(p)] \notin Below(c[j])
    BY <2>2, <2>4, <2>6
  <2>8. c[j + 1] \in Children(c[j])
    BY <1>2, <2>6
  <2>9. c[j + 1] \in Below(c[j])
    BY <1>3, <2>6, <2>8, BelowSelf, BelowClosed DEF Closed
  <2> QED
    BY <1>3, <2>6, <2>7, <2>9, BelowTrans
<1>5. \A i \in 0 .. Len(p) : c[Len(p)] \in Below(c[i])
  <2> SUFFICES ASSUME NEW i \in 0 .. Len(p) PROVE c[Len(p)] \in Below(c[i])
    OBVIOUS
  <2>1. Len(p) - i \in 0 .. Len(p) /\ Len(p) - (Len(p) - i) = i
    BY <1>1
  <2> QED
    BY <1>4, <2>1
<1> QED
  BY <1>3, <1>5

-----------------------------------------------------------------------------
(* A change of the tree concerns one directory: what is below it stays     *)
(* below it, and the others stay where they are.                           *)
Changed(x) ==
  \A e \in Dir \ {x} : parent'[e] = parent[e] /\ name'[e] = name[e]

(* Who is a child of whom changes for one directory only.                  *)
LEMMA ChildrenChanged ==
  ASSUME NEW x \in Dir, Changed(x), NEW d, NEW e \in Dir \ {x}
  PROVE  e \in Children(d)' <=> e \in Children(d)
BY DEF Children, Changed

(* When one directory changes its place, what is below it does not change, *)
(* and who else is below what does not, either.                            *)
LEMMA BelowChanged ==
  ASSUME NEW x \in Dir, Changed(x)
  PROVE  /\ Below(x)' = Below(x)
         /\ \A a \in Node, d \in Node \ Below(x) : d \in Below(a)' <=> d \in Below(a)
<1>1. x \in Node /\ \A d : Children(d) \subseteq Dir /\ Children(d)' \subseteq Dir
  BY DEF Children, Node
<1>2. \A d : /\ Below(d) \subseteq Node
             /\ \A y \in Below(d) : Children(y) \subseteq Below(d)
             /\ \A S \in SUBSET Node :
                  d \in S /\ (\A y \in S : Children(y) \subseteq S) => Below(d) \subseteq S
             /\ d \in Node => d \in Below(d)
  BY DEF Below, Closed, Children, Node
<1>3. \A d : /\ Below(d)' \subseteq Node
             /\ \A y \in Below(d)' : Children(y)' \subseteq Below(d)'
             /\ \A S \in SUBSET Node :
                  d \in S /\ (\A y \in S : Children(y)' \subseteq S) => Below(d)' \subseteq S
             /\ d \in Node => d \in Below(d)'
  BY DEF Below, Closed, Children, Node
<1>4. Below(x) \subseteq Below(x)'
  <2>1. \A y \in Below(x)' : Children(y) \subseteq Below(x)'
    <3> SUFFICES ASSUME NEW y \in Below(x)', NEW e \in Children(y), e # x PROVE e \in Below(x)'
      BY <1>1, <1>3
    <3> QED
      BY <1>1, <1>3, ChildrenChanged
  <2> QED
    BY <1>1, <1>2, <1>3, <2>1
<1>5. Below(x)' \subseteq Below(x)
  <2>1. \A y \in Below(x) : Children(y)' \subseteq Below(x)
    <3> SUFFICES ASSUME NEW y \in Below(x), NEW e \in Children(y)', e # x PROVE e \in Below(x)
      BY <1>1, <1>2
    <3> QED
      BY <1>1, <1>2, ChildrenChanged
  <2> QED
    BY <1>1, <1>2, <1>3, <2>1
<1>6. ASSUME NEW a \in Node PROVE Below(a)' \subseteq Below(a) \cup Below(x)
  <2> DEFINE S == Below(a) \cup Below(x)
  <2>1. a \in S /\ S \in SUBSET Node /\ x \in S
    BY <1>1, <1>2
  <2>2. ASSUME NEW y \in S, NEW e \in Children(y)' PROVE e \in S
    BY <1>1, <1>2, <2>1, <2>2, ChildrenChanged
  <2> HIDE DEF S
  <2>3. Below(a)' \subseteq S
    BY <1>3, <2>1, <2>2
  <2> QED
    BY <2>3 DEF S
<1>7. ASSUME NEW a \in Node PROVE Below(a) \subseteq Below(a)' \cup Below(x)'
  <2> DEFINE S == Below(a)' \cup Below(x)'
  <2>1. a \in S /\ S \in SUBSET Node /\ x \in S
    BY <1>1, <1>3
  <2>2. ASSUME NEW y \in S, NEW e \in Children(y) PROVE e \in S
    BY <1>1, <1>3, <2>1, <2>2, ChildrenChanged
  <2> HIDE DEF S
  <2>3. Below(a) \subseteq S
    BY <1>2, <2>1, <2>2
  <2> QED
    BY <2>3 DEF S
<1> QED
  BY <1>4, <1>5, <1>6, <1>7

(* Nor does a path to one of the others lead elsewhere.                    *)
LEMMA AtChanged ==
  ASSUME NEW x \in Dir, Changed(x), NEW p \in Word, NEW d \in At(p), d \notin Below(x)
  PROVE  d \in At(p)'
<1>1. PICK c \in Chains(p) : c[Len(p)] = d
  BY DEF At
<1>2. Len(p) \in Nat
  BY DEF Word
<1>3. \A i \in 0 .. Len(p) : c[i] # x
  BY <1>1, ChainBelow
<1>4. /\ c \in [0 .. Len(p) -> Node] /\ c[0] = Root
      /\ \A i \in 1 .. Len(p) : c[i] \in Children(c[i - 1]) /\ name[c[i]] = p[i]
  BY DEF Chains
<1>5. ASSUME NEW i \in 1 .. Len(p)
      PROVE  c[i] \in Children(c[i - 1])' /\ name'[c[i]] = p[i]
  <2>1. c[i] \in Dir \ {x}
    <3>1. i \in 0 .. Len(p)
      BY <1>2
    <3>2. c[i] \in Children(c[i - 1])
      BY <1>4
    <3> QED
      BY <1>3, <3>1, <3>2 DEF Children
  <2>2. c[i] \in Children(c[i - 1])'
    BY <1>4, <2>1, ChildrenChanged
  <2> QED
    BY <1>4, <2>1, <2>2 DEF Changed
<1>6. c \in Chains(p)'
  BY <1>4, <1>5 DEF Chains
<1> QED
  BY <1>1, <1>6 DEF At

-----------------------------------------------------------------------------
(* The kernel's queue as a set.                                            *)
Elements(s) == {s[i] : i \in 1 .. Len(s)}
Queued == Elements(queue)
Overflowed == \E e \in Queued : e.kind = "overflow"

(* A queue that is too long ends with an overflow.                         *)
LongOverflows == queue \in Seq(Event) /\ (Len(queue) > QueueLimit => Overflowed)

(* What a joined sequence has.                                             *)
LEMMA ElementsJoined ==
  ASSUME NEW s \in Seq(Event), NEW t \in Seq(Event)
  PROVE  s \o t \in Seq(Event) /\ Elements(s \o t) = Elements(s) \cup Elements(t)
<1>1. /\ s \o t \in Seq(Event) /\ Len(s) \in Nat /\ Len(t) \in Nat
      /\ Len(s \o t) = Len(s) + Len(t)
      /\ \A i \in 1 .. Len(s) + Len(t) : (s \o t)[i] = IF i <= Len(s) THEN s[i] ELSE t[i - Len(s)]
  OBVIOUS
<1>2. \A i \in 1 .. Len(s) + Len(t) : i \in 1 .. Len(s) \/ i - Len(s) \in 1 .. Len(t)
  BY <1>1
<1>3. Elements(s \o t) \subseteq Elements(s) \cup Elements(t)
  BY <1>1, <1>2 DEF Elements
<1>4. \A i \in 1 .. Len(s) : i \in 1 .. Len(s) + Len(t) /\ (s \o t)[i] = s[i]
  BY <1>1
<1>5. \A i \in 1 .. Len(t) :
        Len(s) + i \in 1 .. Len(s) + Len(t) /\ (s \o t)[Len(s) + i] = t[i]
  <2>1. \A i \in 1 .. Len(t) : /\ Len(s) + i \in 1 .. Len(s) + Len(t)
                               /\ ~(Len(s) + i <= Len(s)) /\ (Len(s) + i) - Len(s) = i
    BY <1>1
  <2> QED
    BY <1>1, <2>1
<1>6. Elements(s) \subseteq Elements(s \o t)
  BY <1>1, <1>4 DEF Elements
<1>7. Elements(t) \subseteq Elements(s \o t)
  <2> SUFFICES ASSUME NEW i \in 1 .. Len(t) PROVE t[i] \in Elements(s \o t)
    BY DEF Elements
  <2>1. Len(s) + i \in 1 .. Len(s \o t) /\ (s \o t)[Len(s) + i] = t[i]
    BY <1>1, <1>5
  <2> QED
    BY <2>1 DEF Elements
<1> QED
  BY <1>1, <1>3, <1>6, <1>7

(* What happens is queued, unless the queue overflows.                     *)
LEMMA HappensQueued ==
  ASSUME LongOverflows, NEW seen \in Seq(Event), Happens(seen)
  PROVE  /\ LongOverflows'
         /\ Overflowed' \/ Queued' = Queued \cup Elements(seen)
         /\ Overflowed => Overflowed'
         /\ \A e \in Queued' : e.kind = "overflow" \/ e \in Queued \cup Elements(seen)
<1> DEFINE ov == Ev(Root, "overflow", FALSE, Root)
           t == SubSeq(queue \o seen, 1, QueueLimit)
<1>1. /\ queue \in Seq(Event) /\ Len(queue) \in Nat /\ Len(seen) \in Nat /\ QueueLimit \in Nat
      /\ queue \o seen \in Seq(Event) /\ Len(queue \o seen) = Len(queue) + Len(seen)
      /\ Elements(queue \o seen) = Queued \cup Elements(seen)
  BY LimitsAssumption, ElementsJoined DEF LongOverflows, Queued
<1>2. CASE Len(queue) + Len(seen) <= QueueLimit
  <2>1. queue' = queue \o seen
    BY <1>2 DEF Happens
  <2>2. ~(Len(queue') > QueueLimit)
    BY <1>1, <1>2, <2>1
  <2>3. Queued' = Queued \cup Elements(seen)
    BY <1>1, <2>1 DEF Queued
  <2> QED
    BY <1>1, <2>1, <2>2, <2>3 DEF LongOverflows, Overflowed
<1>3. CASE ~(Len(queue) + Len(seen) <= QueueLimit) /\ Len(queue) > QueueLimit
  <2>1. queue' = queue
    BY <1>3 DEF Happens
  <2> QED
    BY <1>3, <2>1 DEF LongOverflows, Overflowed, Queued, Elements
<1>4. CASE ~(Len(queue) + Len(seen) <= QueueLimit) /\ ~(Len(queue) > QueueLimit)
  <2>1. queue' = t \o <<ov>>
    BY <1>4 DEF Happens
  <2>2. ov \in Event /\ ov.kind = "overflow"
    BY DEF Ev, Event, Node
  <2>3. QueueLimit \in 0 .. Len(queue \o seen)
    BY <1>1, <1>4
  <2>4. /\ t \in Seq(Event) /\ Len(t) = QueueLimit
        /\ \A i \in 1 .. QueueLimit : t[i] = (queue \o seen)[i]
    BY <1>1, <2>3
  <2>5. \A i \in 1 .. QueueLimit : i \in 1 .. Len(queue \o seen)
    BY <2>3
  <2>6. Elements(t) \subseteq Queued \cup Elements(seen)
    BY <1>1, <2>4, <2>5 DEF Elements
  <2> HIDE DEF t, ov
  <2>7. <<ov>> \in Seq(Event) /\ Elements(<<ov>>) = {ov}
    BY <2>2 DEF Elements
  <2>8. t \o <<ov>> \in Seq(Event) /\ Elements(t \o <<ov>>) = Elements(t) \cup {ov}
    BY <2>4, <2>7, ElementsJoined
  <2>9. queue' \in Seq(Event) /\ Queued' = Elements(t) \cup {ov}
    BY <2>1, <2>8 DEF Queued
  <2> QED
    BY <2>2, <2>6, <2>9 DEF LongOverflows, Overflowed
<1> QED
  BY <1>2, <1>3, <1>4

-----------------------------------------------------------------------------
(* How a directory that is not watched yet will be found: by the walk, by  *)
(* the end of a scan, by a rebuilt watcher, or by an event that waits.     *)
ByWalk(d) == \E p \in todo : \E a \in At(p) : d \in Below(a)

ByScan(d) ==
  /\ scanned.on
  /\ \E a \in At(scanned.path) :
       d = a \/ \E c \in Children(a) : name[c] \in scanned.found /\ d \in Below(c)

ByEvent(d) ==
  \E e \in Queued : /\ e.kind = "appeared" /\ e.dir
                    /\ \E c \in Children(e.wd) : name[c] = e.name /\ d \in Below(c)

Coming(d) == ByWalk(d) \/ ByScan(d) \/ Overflowed \/ ByEvent(d)

WatchTyped ==
  /\ parent \in [Dir -> Node] /\ name \in [Dir -> Name]
  /\ kernel \subseteq Node /\ moved \subseteq Dir /\ raced \subseteq Dir
  /\ DOMAIN watches \subseteq Node /\ \A d \in DOMAIN watches : watches[d] \in Word
  /\ todo \subseteq Word /\ scanned \in [path : Word, found : SUBSET Name, on : BOOLEAN]

(* A settled directory that is watched has its watch and its path.         *)
RightlyWatched ==
  \A d \in Node : Settled(d) => /\ (d \in kernel <=> d \in DOMAIN watches)
                               /\ (d \in DOMAIN watches => d \in At(watches[d]))

(* Only what was renamed or removed loses its watch, and what appears in a *)
(* settled directory appears in a watched one.                             *)
EventsKnown ==
  \A e \in Queued : /\ (e.kind \in {"selfGone", "ignored"} => e.wd \in moved)
                    /\ (e.kind = "appeared" => Exists(e.wd) \/ e.wd \in moved)
                    /\ (e.kind = "appeared" /\ Settled(e.wd) => e.wd \in DOMAIN watches)

(* A directory that does not exist is new.                                 *)
NewIsNew ==
  \A d \in Dir : ~Exists(d) => /\ Children(d) = {}
                              /\ (d \in moved \/ d \notin kernel \cup DOMAIN watches)

Silent == kernel = {} /\ DOMAIN watches = {} /\ queue = <<>> /\ ~scanned.on

FoundOrComing == \A d \in Node : Settled(d) => d \in DOMAIN watches \/ Coming(d)

WatchInv ==
  /\ WatchTyped /\ LongOverflows /\ RightlyWatched /\ EventsKnown /\ NewIsNew
  /\ IF status = "up" THEN FoundOrComing ELSE Silent

(* What is queued is an event of a directory.                              *)
LEMMA QueuedType == ASSUME LongOverflows PROVE \A e \in Queued : e \in Event /\ e.wd \in Node
<1>1. \A i \in 1 .. Len(queue) : queue[i] \in Event
  BY DEF LongOverflows
<1> QED
  BY <1>1 DEF Queued, Elements, Event

(* What a directory sees is queued for it when it is watched.              *)
LEMMA SeenType ==
  ASSUME NEW d \in Node, NEW isDir \in BOOLEAN, NEW n \in Name \cup {Root},
         NEW kind \in {"appeared", "removed", "changed", "selfGone", "ignored", "overflow"}
  PROVE  /\ Seen(d, kind, isDir, n) \in Seq(Event)
         /\ Elements(Seen(d, kind, isDir, n)) =
              IF d \in kernel THEN {Ev(d, kind, isDir, n)} ELSE {}
         /\ kernel = {} => Seen(d, kind, isDir, n) = <<>>
<1>1. Ev(d, kind, isDir, n) \in Event
  BY DEF Ev, Event
<1>2. CASE d \in kernel
  <2> DEFINE e == Ev(d, kind, isDir, n)
  <2>1. e \in Event
    BY <1>1
  <2> HIDE DEF e
  <2>2. <<e>> \in Seq(Event) /\ Elements(<<e>>) = {e}
    BY <2>1 DEF Elements
  <2> QED
    BY <1>2, <2>2 DEF Seen, e
<1>3. CASE d \notin kernel
  <2>1. <<>> \in Seq(Event) /\ Elements(<<>>) = {}
    BY DEF Elements
  <2> QED
    BY <1>3, <2>1 DEF Seen
<1> QED
  BY <1>2, <1>3

-----------------------------------------------------------------------------
(* Who is settled after a change elsewhere was settled before it.          *)
LEMMA SettledChanged ==
  ASSUME NEW x \in Dir, Changed(x), moved \subseteq moved', raced \subseteq raced',
         moved \cup raced \subseteq Dir, NEW d \in Node, d \notin Below(x), Settled(d)'
  PROVE  Settled(d)
<1>1. Root \in Node /\ Dir \subseteq Node
  BY DEF Node
<1>2. d \in Below(Root)' /\ \A r \in moved' \cup raced' : d \notin Below(r)'
  BY DEF Settled, InTree
<1>3. d \in Below(Root)
  BY <1>1, <1>2, BelowChanged
<1>4. \A r \in moved \cup raced : r \in Node /\ d \notin Below(r)'
  BY <1>1, <1>2
<1>5. \A r \in moved \cup raced : d \notin Below(r)
  BY <1>4, BelowChanged
<1> QED
  BY <1>3, <1>5 DEF Settled, InTree

(* What leads to it leads to it after a change elsewhere.                  *)
LEMMA ComingChanged ==
  ASSUME WatchTyped, LongOverflows, NEW x \in Dir, Changed(x), UNCHANGED <<todo, scanned>>,
         Overflowed => Overflowed', Overflowed' \/ Queued \subseteq Queued',
         NEW d \in Node, d \notin Below(x), Coming(d)
  PROVE  Coming(d)'
<1>1. x \in Node /\ \A a : Children(a) \subseteq Dir
  BY DEF Node, Children
<1>2. \A a \in Node : d \in Below(a) => a \notin Below(x) /\ d \in Below(a)'
  <2> SUFFICES ASSUME NEW a \in Node, d \in Below(a) PROVE a \notin Below(x) /\ d \in Below(a)'
    OBVIOUS
  <2>1. d \in Below(a)'
    BY BelowChanged
  <2>2. a \in Below(x) => d \in Below(x)
    BY <1>1, BelowTrans
  <2> QED
    BY <2>1, <2>2
<1>3. ASSUME NEW p \in Word, NEW a \in At(p), d \in Below(a)
      PROVE  a \in At(p)' /\ d \in Below(a)'
  BY <1>2, <1>3, AtExists, AtChanged
<1>4. ASSUME NEW a, NEW c \in Children(a), d \in Below(c)
      PROVE  c \in Children(a)' /\ name'[c] = name[c] /\ d \in Below(c)'
  <2>1. c # x /\ c \in Dir /\ c \in Node
    BY <1>1, <1>4 DEF Node
  <2> QED
    BY <1>2, <1>4, <2>1, ChildrenChanged DEF Changed
<1>5. CASE ByWalk(d)
  <2>1. todo \subseteq Word /\ todo' = todo
    BY DEF WatchTyped
  <2>2. PICK p \in todo : \E a \in At(p) : d \in Below(a)
    BY <1>5 DEF ByWalk
  <2>3. ByWalk(d)'
    BY <2>1, <2>2, <1>3 DEF ByWalk
  <2> QED
    BY <2>3 DEF Coming
<1>6. CASE ByScan(d)
  <2>1. scanned.path \in Word /\ scanned' = scanned
    BY DEF WatchTyped
  <2>2. PICK a \in At(scanned.path) :
          d = a \/ \E c \in Children(a) : name[c] \in scanned.found /\ d \in Below(c)
    BY <1>6 DEF ByScan
  <2>3. a \in Node
    BY <2>1, AtExists
  <2>4. d \in Below(a)
    <3>1. d = a => d \in Below(a)
      BY BelowSelf
    <3>2. ASSUME NEW c \in Children(a), d \in Below(c) PROVE d \in Below(a)
      <4>1. c \in Below(a)
        BY <2>3, BelowSelf, BelowClosed DEF Closed
      <4> QED
        BY <2>3, <3>2, <4>1, BelowTrans
    <3> QED
      BY <2>2, <3>1, <3>2
  <2>5. a \in At(scanned.path)'
    BY <1>3, <2>1, <2>4
  <2>6. d = a \/ \E c \in Children(a)' : name'[c] \in scanned.found /\ d \in Below(c)'
    BY <1>4, <2>2
  <2>7. ByScan(d)'
    BY <1>6, <2>1, <2>5, <2>6 DEF ByScan
  <2> QED
    BY <2>7 DEF Coming
<1>7. CASE ByEvent(d) /\ ~Overflowed'
  <2>1. PICK e \in Queued :
          /\ e.kind = "appeared" /\ e.dir
          /\ \E c \in Children(e.wd) : name[c] = e.name /\ d \in Below(c)
    BY <1>7 DEF ByEvent
  <2>2. \E c \in Children(e.wd)' : name'[c] = e.name /\ d \in Below(c)'
    BY <1>4, <2>1
  <2>3. e \in Queued'
    BY <1>7
  <2>4. ByEvent(d)'
    BY <2>1, <2>2, <2>3 DEF ByEvent
  <2> QED
    BY <2>4 DEF Coming
<1> QED
  BY <1>5, <1>6, <1>7 DEF Coming

(* A user's change of one directory keeps the invariant for the others.    *)
(* What it leads to must be found, or not be settled.                      *)
LEMMA UserChange ==
  ASSUME WatchInv, WatchTyped', NewIsNew', NEW x \in Dir, Changed(x),
         moved \subseteq moved', raced \subseteq raced', kernel' \in {kernel, kernel \ {x}},
         UNCHANGED <<watches, todo, scanned, status>>,
         NEW seen \in Seq(Event), Happens(seen), kernel = {} => seen = <<>>,
         \A e \in Elements(seen) :
           /\ (e.kind \in {"selfGone", "ignored"} => e.wd \in moved')
           /\ (e.kind = "appeared" => e.wd \in kernel \ Below(x) /\ Exists(e.wd)'),
         \A d \in Node : Exists(d) => Exists(d)' \/ d \in moved',
         \A d \in Below(x) : Settled(d)' =>
           ~Exists(d) /\ d \notin moved /\ (status = "up" => Coming(d)')
  PROVE  WatchInv'
<1>1. moved \cup raced \subseteq Dir /\ Below(x) \subseteq Node /\ x \in Below(x)
  BY BelowClosed, BelowSelf DEF WatchInv, WatchTyped, Node
<1>2. /\ LongOverflows' /\ (Overflowed => Overflowed')
      /\ Overflowed' \/ Queued' = Queued \cup Elements(seen)
      /\ \A e \in Queued' : e.kind = "overflow" \/ e \in Queued \cup Elements(seen)
  BY HappensQueued DEF WatchInv
<1>3. \A d \in Node \ Below(x) : Settled(d)' => Settled(d)
  BY <1>1, SettledChanged
<1>4. \A d \in Below(x) : Settled(d)' => d \in Dir /\ d \notin kernel \cup DOMAIN watches
  BY <1>1 DEF WatchInv, NewIsNew, Exists, Node
<1>5. RightlyWatched'
  <2> SUFFICES ASSUME NEW d \in Node, Settled(d)'
               PROVE  /\ (d \in kernel' <=> d \in DOMAIN watches)
                      /\ (d \in DOMAIN watches => d \in At(watches[d])')
    BY DEF RightlyWatched
  <2>1. CASE d \in Below(x)
    BY <1>4, <2>1
  <2>2. CASE d \notin Below(x)
    <3>1. Settled(d) /\ d # x
      BY <1>1, <1>3, <2>2
    <3>2. /\ (d \in kernel <=> d \in DOMAIN watches)
          /\ (d \in DOMAIN watches => d \in At(watches[d]) /\ watches[d] \in Word)
      BY <3>1 DEF WatchInv, RightlyWatched, WatchTyped
    <3> QED
      BY <2>2, <3>1, <3>2, AtChanged
  <2> QED
    BY <2>1, <2>2
<1>6. EventsKnown'
  <2> SUFFICES ASSUME NEW e \in Queued'
               PROVE  /\ (e.kind \in {"selfGone", "ignored"} => e.wd \in moved')
                      /\ (e.kind = "appeared" => Exists(e.wd)' \/ e.wd \in moved')
                      /\ (e.kind = "appeared" /\ Settled(e.wd)' => e.wd \in DOMAIN watches)
    BY DEF EventsKnown
  <2>1. CASE e.kind = "overflow"
    BY <2>1
  <2>2. CASE e \in Queued
    <3>1. /\ (e.kind \in {"selfGone", "ignored"} => e.wd \in moved)
          /\ (e.kind = "appeared" => Exists(e.wd) \/ e.wd \in moved)
          /\ (e.kind = "appeared" /\ Settled(e.wd) => e.wd \in DOMAIN watches)
          /\ e.wd \in Node
      BY <2>2, QueuedType DEF WatchInv, EventsKnown
    <3> QED
      BY <1>3, <3>1
  <2>3. CASE e \in Elements(seen)
    <3>1. kernel \subseteq Node
      BY DEF WatchInv, WatchTyped
    <3>2. \A d \in kernel : Settled(d) => d \in DOMAIN watches
      BY <3>1 DEF WatchInv, RightlyWatched
    <3> QED
      BY <1>3, <2>3, <3>1, <3>2
  <2> QED
    BY <1>2, <2>1, <2>2, <2>3
<1>7. CASE status = "up"
  <2>1. FoundOrComing'
    <3> SUFFICES ASSUME NEW d \in Node, Settled(d)', d \notin DOMAIN watches
                 PROVE  Coming(d)'
      BY DEF FoundOrComing
    <3>1. CASE d \in Below(x)
      BY <1>7, <3>1
    <3>2. CASE d \notin Below(x)
      <4>1. Coming(d)
        BY <1>3, <1>7, <3>2 DEF WatchInv, FoundOrComing
      <4>2. Overflowed' \/ Queued \subseteq Queued'
        BY <1>2
      <4> QED
        BY <1>2, <3>2, <4>1, <4>2, ComingChanged DEF WatchInv
    <3> QED
      BY <3>1, <3>2
  <2> QED
    BY <1>2, <1>5, <1>6, <1>7, <2>1 DEF WatchInv
<1>8. CASE status # "up"
  <2>1. Silent
    BY <1>8 DEF WatchInv
  <2>2. kernel' = {} /\ seen = <<>> /\ queue = <<>>
    BY <2>1 DEF Silent
  <2>3. queue' = <<>>
    BY <2>2, LimitsAssumption DEF Happens
  <2>4. Silent'
    BY <2>1, <2>2, <2>3 DEF Silent
  <2> QED
    BY <1>2, <1>5, <1>6, <1>8, <2>4 DEF WatchInv
<1> QED
  BY <1>7, <1>8

(* What is in the tree exists.                                             *)
LEMMA InTreeExists == ASSUME NEW d, InTree(d) PROVE d \in Node /\ Exists(d)
<1>1. d \in Node /\ Root \in Node
  BY BelowClosed DEF InTree, Node
<1>2. CASE d = Root
  BY <1>1, <1>2 DEF Exists
<1>3. CASE d # Root
  <2>1. d \in Children(parent[d])
    BY <1>1, <1>3, BelowUp DEF InTree
  <2> QED
    BY <1>1, <2>1 DEF Children, Exists
<1> QED
  BY <1>2, <1>3

(* A new directory: its parent's event leads to it, or the scan or the     *)
(* walk that its parent waits for does.                                    *)
LEMMA MakeDirInv ==
  ASSUME WatchInv, NEW x \in Dir, NEW p \in Node, NEW n \in Name, MakeDir(x, p, n)
  PROVE  WatchInv'
<1> DEFINE seen == Seen(p, "appeared", TRUE, n)
<1>1. /\ ~Exists(x) /\ x \notin moved /\ InTree(p)
      /\ parent' = [parent EXCEPT ![x] = p] /\ name' = [name EXCEPT ![x] = n]
      /\ Happens(seen)
      /\ raced' = (IF Races(p) THEN raced \cup {x} ELSE raced)
      /\ UNCHANGED <<kernel, moved, watches, todo, scanned, due, status>>
  BY DEF MakeDir, Changes
<1>2. /\ parent \in [Dir -> Node] /\ name \in [Dir -> Name] /\ x \in Node
      /\ Children(x) = {} /\ x \notin kernel \cup DOMAIN watches
  BY <1>1 DEF WatchInv, WatchTyped, NewIsNew, Node
<1>3. p # x /\ Exists(p)
  BY <1>1, InTreeExists
<1>4. /\ parent' \in [Dir -> Node] /\ name' \in [Dir -> Name]
      /\ parent'[x] = p /\ name'[x] = n /\ Changed(x)
  BY <1>1, <1>2 DEF Changed
<1>5. WatchTyped'
  BY <1>1, <1>4 DEF WatchInv, WatchTyped
<1>6. \A d \in Node : Exists(d) => Exists(d)'
  BY <1>1, <1>4 DEF Exists, Changed, Node
<1>7. NewIsNew'
  <2> SUFFICES ASSUME NEW d \in Dir, ~Exists(d)'
               PROVE  /\ Children(d)' = {}
                      /\ d \in moved' \/ d \notin kernel' \cup DOMAIN watches'
    BY DEF NewIsNew
  <2>1. d # p /\ ~Exists(d)
    BY <1>3, <1>6 DEF Node
  <2>2. x \notin Children(d)'
    BY <1>4, <2>1 DEF Children
  <2>3. Children(d)' \subseteq Dir /\ Children(d) = {}
    BY <2>1 DEF Children, WatchInv, NewIsNew
  <2>4. Children(d)' = {}
    BY <1>4, <2>2, <2>3, ChildrenChanged
  <2> QED
    BY <1>1, <2>1, <2>4 DEF WatchInv, NewIsNew
<1>8. Below(x) = {x}
  <2>1. Closed({x})
    BY <1>2 DEF Closed
  <2> QED
    BY <1>2, <2>1, BelowSelf, BelowLeast
<1>9. /\ seen \in Seq(Event) /\ (kernel = {} => seen = <<>>)
      /\ Elements(seen) = IF p \in kernel THEN {Ev(p, "appeared", TRUE, n)} ELSE {}
  BY SeenType
<1>10. Ev(p, "appeared", TRUE, n).kind = "appeared" /\ Ev(p, "appeared", TRUE, n).wd = p
       /\ Ev(p, "appeared", TRUE, n).dir /\ Ev(p, "appeared", TRUE, n).name = n
  BY DEF Ev
<1> HIDE DEF seen
<1>11. /\ Overflowed => Overflowed'
       /\ Overflowed' \/ Queued' = Queued \cup Elements(seen)
  BY <1>1, <1>9, HappensQueued DEF WatchInv
<1>12. ASSUME status = "up", Settled(x)' PROVE Coming(x)'
  <2>1. p \notin Below(x) /\ Root \in Node
    BY <1>3, <1>8 DEF Node
  <2>2. x \in Children(p)'
    BY <1>3, <1>4 DEF Children
  <2>3. \A a \in Node : p \in Below(a)' => x \in Below(a)'
    BY <2>2, <1>2 DEF Below, Closed
  <2>4. x \in Below(x)'
    BY <1>2 DEF Below
  <2>5. \A r \in moved' \cup raced' : r \in Node /\ x \notin Below(r)'
    BY <1>5, <1>12 DEF Settled, WatchTyped, Node
  <2>6. \A r \in moved \cup raced : r \in moved' \cup raced' /\ r \in Node /\ p \notin Below(r)'
    BY <1>1, <2>3, <2>5
  <2>7. \A r \in moved \cup raced : p \notin Below(r)
    BY <1>4, <2>1, <2>6, BelowChanged
  <2>8. Settled(p)
    BY <1>1, <2>7 DEF Settled
  <2>9. ~Races(p)
    BY <1>1, <2>4, <2>5
  <2>10. CASE p \in kernel
    <3>1. CASE Overflowed'
      BY <3>1 DEF Coming
    <3>2. CASE ~Overflowed'
      <4>1. Ev(p, "appeared", TRUE, n) \in Queued'
        BY <1>9, <1>11, <2>10, <3>2
      <4>2. ByEvent(x)'
        BY <1>4, <1>10, <2>2, <2>4, <4>1 DEF ByEvent
      <4> QED
        BY <4>2 DEF Coming
    <3> QED
      BY <3>1, <3>2
  <2>11. CASE p \notin kernel
    <3>1. Coming(p)
      BY <1>12, <2>8, <2>11 DEF WatchInv, RightlyWatched, FoundOrComing
    <3>2. x \notin Children(x) /\ \A a : x \notin Children(a)
      BY <1>1 DEF Children, Exists
    <3>3. ASSUME NEW q \in Word, NEW a \in At(q)
          PROVE  a \in Node /\ a \in At(q)' /\ (p \in Below(a) => x \in Below(a)')
      <4>1. a \in Node /\ a # x
        BY <1>1, AtExists
      <4> QED
        BY <1>4, <1>8, <2>1, <2>3, <4>1, AtChanged, BelowChanged
    <3>4. ASSUME NEW a, NEW c \in Children(a), p \in Below(c)
          PROVE  c \in Children(a)' /\ name'[c] = name[c] /\ x \in Below(c)'
      <4>1. c \in Dir \ {x} /\ c \in Node
        BY <3>2 DEF Children, Node
      <4>2. c \in Children(a)' /\ name'[c] = name[c]
        BY <1>4, <4>1, ChildrenChanged DEF Changed
      <4>3. p \in Node \ Below(x) /\ (p \in Below(c)' <=> p \in Below(c))
        BY <1>4, <2>1, <4>1, BelowChanged
      <4> QED
        BY <2>3, <3>4, <4>1, <4>2, <4>3
    <3>5. CASE ByWalk(p)
      <4>1. PICK q \in todo : \E a \in At(q) : p \in Below(a)
        BY <3>5 DEF ByWalk
      <4>2. q \in Word
        BY DEF WatchInv, WatchTyped
      <4>3. ByWalk(x)'
        BY <1>1, <3>3, <4>1, <4>2 DEF ByWalk
      <4> QED
        BY <4>3 DEF Coming
    <3>6. CASE ByScan(p)
      <4>1. PICK a \in At(scanned.path) :
              p = a \/ \E c \in Children(a) : name[c] \in scanned.found /\ p \in Below(c)
        BY <3>6 DEF ByScan
      <4>2. scanned.path \in Word /\ scanned.on /\ p # a
        BY <2>9, <2>11, <3>6, <4>1 DEF WatchInv, WatchTyped, ByScan, Races
      <4>3. PICK c \in Children(a) : name[c] \in scanned.found /\ p \in Below(c)
        BY <4>1, <4>2
      <4>4. a \in At(scanned.path)' /\ c \in Children(a)'
              /\ name'[c] \in scanned.found /\ x \in Below(c)'
        <5>1. a \in At(scanned.path)'
          BY <1>1, <3>3, <4>2
        <5>2. c \in Children(a)' /\ name'[c] = name[c] /\ x \in Below(c)'
          BY <3>4, <4>3
        <5>3. scanned' = scanned
          BY <1>1
        <5> QED
          BY <4>3, <5>1, <5>2, <5>3
      <4>5. ByScan(x)'
        BY <1>1, <4>2, <4>4 DEF ByScan
      <4> QED
        BY <4>5 DEF Coming
    <3>7. CASE ByEvent(p) /\ ~Overflowed'
      <4>1. PICK e \in Queued :
              /\ e.kind = "appeared" /\ e.dir
              /\ \E c \in Children(e.wd) : name[c] = e.name /\ p \in Below(c)
        BY <3>7 DEF ByEvent
      <4>2. \E c \in Children(e.wd)' : name'[c] = e.name /\ x \in Below(c)'
        BY <3>4, <4>1
      <4>3. e \in Queued'
        BY <1>11, <3>7
      <4>4. ByEvent(x)'
        BY <4>1, <4>2, <4>3 DEF ByEvent
      <4> QED
        BY <4>4 DEF Coming
    <3> QED
      BY <1>11, <3>1, <3>5, <3>6, <3>7 DEF Coming
  <2> QED
    BY <2>10, <2>11
<1>13. \A e \in Elements(seen) :
         /\ (e.kind \in {"selfGone", "ignored"} => e.wd \in moved')
         /\ (e.kind = "appeared" => e.wd \in kernel \ Below(x) /\ Exists(e.wd)')
  <2>1. p \notin Below(x) /\ Exists(p)'
    BY <1>3, <1>6, <1>8
  <2> QED
    BY <1>9, <1>10, <2>1
<1>14. \A d \in Below(x) : Settled(d)' =>
         ~Exists(d) /\ d \notin moved /\ (status = "up" => Coming(d)')
  BY <1>1, <1>8, <1>12
<1>15. raced \subseteq raced' /\ moved \subseteq moved'
  BY <1>1
<1> QED
  BY <1>1, <1>4, <1>5, <1>6, <1>7, <1>9, <1>13, <1>14, <1>15, UserChange

(* Three sequences joined.                                                 *)
LEMMA ThreeJoined ==
  ASSUME NEW s \in Seq(Event), NEW t \in Seq(Event), NEW u \in Seq(Event)
  PROVE  /\ s \o t \o u \in Seq(Event)
         /\ Elements(s \o t \o u) = Elements(s) \cup Elements(t) \cup Elements(u)
         /\ (s = <<>> /\ t = <<>> /\ u = <<>> => s \o t \o u = <<>>)
<1>1. s \o t \in Seq(Event) /\ Elements(s \o t) = Elements(s) \cup Elements(t)
  BY ElementsJoined
<1> DEFINE v == s \o t
<1>2. v \in Seq(Event) /\ Elements(v) = Elements(s) \cup Elements(t)
  BY <1>1
<1> HIDE DEF v
<1>3. v \o u \in Seq(Event) /\ Elements(v \o u) = Elements(v) \cup Elements(u)
  BY <1>2, ElementsJoined
<1>4. (<<>> \o <<>>) \o <<>> = <<>>
  OBVIOUS
<1> QED
  BY <1>2, <1>3, <1>4 DEF v

(* What is below something renamed is not settled.                         *)
LEMMA MovedUnsettled ==
  ASSUME NEW x \in Dir, Changed(x), x \in moved'
  PROVE  \A d \in Below(x) : ~Settled(d)'
BY BelowChanged DEF Settled

(* What is renamed is not settled from then on; the rest keeps its place.  *)
LEMMA RenameInv ==
  ASSUME WatchInv, NEW x \in Dir, NEW p \in Node, NEW n \in Name, Rename(x, p, n)
  PROVE  WatchInv'
<1>1. PICK seen :
        /\ seen = Seen(parent[x], "removed", TRUE, name[x]) \o Seen(p, "appeared", TRUE, n)
                    \o Seen(x, "selfGone", FALSE, Root)
        /\ Happens(seen)
  BY DEF Rename
<1>2. /\ InTree(x) /\ InTree(p) /\ p \notin Below(x)
      /\ parent' = [parent EXCEPT ![x] = p] /\ name' = [name EXCEPT ![x] = n]
      /\ moved' = moved \cup {x} /\ raced' = (IF Races(p) THEN raced \cup {x} ELSE raced)
      /\ UNCHANGED <<kernel, watches, todo, scanned, due, status>>
  BY DEF Rename, Changes
<1>3. parent \in [Dir -> Node] /\ name \in [Dir -> Name] /\ x \in Node /\ Root \in Node
  BY DEF WatchInv, WatchTyped, Node
<1>4. p # x /\ Exists(p)
  BY <1>2, <1>3, InTreeExists, BelowSelf
<1>5. /\ parent' \in [Dir -> Node] /\ name' \in [Dir -> Name]
      /\ parent'[x] = p /\ name'[x] = n /\ Changed(x)
  BY <1>2, <1>3 DEF Changed
<1>6. WatchTyped'
  BY <1>2, <1>5 DEF WatchInv, WatchTyped
<1>7. \A d \in Node : Exists(d) => Exists(d)'
  BY <1>4, <1>5 DEF Exists, Changed, Node
<1>8. NewIsNew'
  <2> SUFFICES ASSUME NEW d \in Dir, ~Exists(d)'
               PROVE  /\ Children(d)' = {}
                      /\ d \in moved' \/ d \notin kernel' \cup DOMAIN watches'
    BY DEF NewIsNew
  <2>1. d # p /\ ~Exists(d)
    BY <1>4, <1>7 DEF Node
  <2>2. x \notin Children(d)'
    BY <1>5, <2>1 DEF Children
  <2>3. Children(d)' \subseteq Dir /\ Children(d) = {}
    BY <2>1 DEF Children, WatchInv, NewIsNew
  <2>4. Children(d)' = {}
    BY <1>5, <2>2, <2>3, ChildrenChanged
  <2> QED
    BY <1>2, <2>1, <2>4 DEF WatchInv, NewIsNew
<1>9. /\ seen \in Seq(Event) /\ (kernel = {} => seen = <<>>)
      /\ \A e \in Elements(seen) :
           \/ e.kind = "removed"
           \/ e.kind = "appeared" /\ e.wd = p /\ p \in kernel
           \/ e.kind = "selfGone" /\ e.wd = x
  <2> DEFINE s == Seen(parent[x], "removed", TRUE, name[x])
             t == Seen(p, "appeared", TRUE, n)
             u == Seen(x, "selfGone", FALSE, Root)
  <2>1. parent[x] \in Node /\ name[x] \in Name
    BY <1>3
  <2>2. /\ s \in Seq(Event) /\ (kernel = {} => s = <<>>)
        /\ Elements(s) = IF parent[x] \in kernel
                         THEN {Ev(parent[x], "removed", TRUE, name[x])} ELSE {}
    BY <2>1, SeenType
  <2>3. /\ t \in Seq(Event) /\ (kernel = {} => t = <<>>)
        /\ Elements(t) = IF p \in kernel THEN {Ev(p, "appeared", TRUE, n)} ELSE {}
    BY SeenType
  <2>4. /\ u \in Seq(Event) /\ (kernel = {} => u = <<>>)
        /\ Elements(u) = IF x \in kernel THEN {Ev(x, "selfGone", FALSE, Root)} ELSE {}
    BY <1>3, SeenType
  <2>5. seen = s \o t \o u
    BY <1>1
  <2> HIDE DEF s, t, u
  <2>6. /\ seen \in Seq(Event)
        /\ Elements(seen) = Elements(s) \cup Elements(t) \cup Elements(u)
        /\ s = <<>> /\ t = <<>> /\ u = <<>> => seen = <<>>
    <3>1. s \in Seq(Event) /\ t \in Seq(Event) /\ u \in Seq(Event)
      BY <2>2, <2>3, <2>4
    <3> QED
      BY <2>5, <3>1, ThreeJoined
  <2> QED
    BY <2>2, <2>3, <2>4, <2>6 DEF Ev
<1>10. \A e \in Elements(seen) :
         /\ (e.kind \in {"selfGone", "ignored"} => e.wd \in moved')
         /\ (e.kind = "appeared" => e.wd \in kernel \ Below(x) /\ Exists(e.wd)')
  <2>1. Exists(p)' /\ x \in moved'
    BY <1>2, <1>4, <1>7
  <2> QED
    BY <1>2, <1>9, <2>1
<1>11. \A d \in Below(x) : ~Settled(d)'
  BY <1>2, <1>5, MovedUnsettled
<1>12. raced \subseteq raced' /\ moved \subseteq moved'
  BY <1>2
<1> QED
  BY <1>1, <1>2, <1>5, <1>6, <1>7, <1>8, <1>9, <1>10, <1>11, <1>12, UserChange

(* A directory that is removed has nothing below it.                       *)
LEMMA RemoveDirInv ==
  ASSUME WatchInv, NEW x \in Dir, RemoveDir(x)
  PROVE  WatchInv'
<1>1. PICK seen :
        /\ seen = Seen(parent[x], "removed", TRUE, name[x]) \o Seen(x, "selfGone", FALSE, Root)
                    \o Seen(x, "ignored", FALSE, Root)
        /\ Happens(seen)
  BY DEF RemoveDir
<1>2. /\ Children(x) = {} /\ parent' = [parent EXCEPT ![x] = x] /\ name' = name
      /\ moved' = moved \cup {x} /\ raced' = raced /\ kernel' = kernel \ {x}
      /\ UNCHANGED <<watches, todo, scanned, due, status>>
  BY DEF RemoveDir, Changes
<1>3. parent \in [Dir -> Node] /\ name \in [Dir -> Name] /\ x \in Node /\ Root \in Node
  BY DEF WatchInv, WatchTyped, Node
<1>4. parent' \in [Dir -> Node] /\ parent'[x] = x /\ Changed(x)
  BY <1>2, <1>3 DEF Changed
<1>5. WatchTyped'
  BY <1>2, <1>4 DEF WatchInv, WatchTyped
<1>6. \A d \in Node : Exists(d) => Exists(d)' \/ d \in moved'
  BY <1>2, <1>4 DEF Exists, Changed, Node
<1>7. NewIsNew'
  <2> SUFFICES ASSUME NEW d \in Dir, ~Exists(d)'
               PROVE  /\ Children(d)' = {}
                      /\ d \in moved' \/ d \notin kernel' \cup DOMAIN watches'
    BY DEF NewIsNew
  <2>1. d = x \/ ~Exists(d)
    BY <1>4 DEF Exists, Changed
  <2>2. x \notin Children(d)'
    BY <1>4 DEF Children
  <2>3. Children(d)' \subseteq Dir /\ Children(d) = {}
    BY <1>2, <2>1 DEF Children, WatchInv, NewIsNew
  <2>4. Children(d)' = {}
    BY <1>4, <2>2, <2>3, ChildrenChanged
  <2> QED
    BY <1>2, <2>1, <2>4 DEF WatchInv, NewIsNew
<1>8. /\ seen \in Seq(Event) /\ (kernel = {} => seen = <<>>)
      /\ \A e \in Elements(seen) :
           e.kind \in {"removed", "selfGone", "ignored"} /\ (e.kind # "removed" => e.wd = x)
  <2> DEFINE s == Seen(parent[x], "removed", TRUE, name[x])
             t == Seen(x, "selfGone", FALSE, Root)
             u == Seen(x, "ignored", FALSE, Root)
  <2>1. parent[x] \in Node /\ name[x] \in Name
    BY <1>3
  <2>2. /\ s \in Seq(Event) /\ (kernel = {} => s = <<>>)
        /\ Elements(s) = IF parent[x] \in kernel
                         THEN {Ev(parent[x], "removed", TRUE, name[x])} ELSE {}
    BY <2>1, SeenType
  <2>3. /\ t \in Seq(Event) /\ (kernel = {} => t = <<>>)
        /\ Elements(t) = IF x \in kernel THEN {Ev(x, "selfGone", FALSE, Root)} ELSE {}
    BY <1>3, SeenType
  <2>4. /\ u \in Seq(Event) /\ (kernel = {} => u = <<>>)
        /\ Elements(u) = IF x \in kernel THEN {Ev(x, "ignored", FALSE, Root)} ELSE {}
    BY <1>3, SeenType
  <2>5. seen = s \o t \o u
    BY <1>1
  <2> HIDE DEF s, t, u
  <2>6. /\ seen \in Seq(Event)
        /\ Elements(seen) = Elements(s) \cup Elements(t) \cup Elements(u)
        /\ s = <<>> /\ t = <<>> /\ u = <<>> => seen = <<>>
    <3>1. s \in Seq(Event) /\ t \in Seq(Event) /\ u \in Seq(Event)
      BY <2>2, <2>3, <2>4
    <3> QED
      BY <2>5, <3>1, ThreeJoined
  <2> QED
    BY <2>2, <2>3, <2>4, <2>6 DEF Ev
<1>9. \A e \in Elements(seen) :
        /\ (e.kind \in {"selfGone", "ignored"} => e.wd \in moved')
        /\ (e.kind = "appeared" => e.wd \in kernel \ Below(x) /\ Exists(e.wd)')
  BY <1>2, <1>8
<1>10. \A d \in Below(x) : ~Settled(d)'
  BY <1>2, <1>4, MovedUnsettled
<1>11. raced \subseteq raced' /\ moved \subseteq moved'
  BY <1>2
<1> QED
  BY <1>1, <1>2, <1>4, <1>5, <1>6, <1>7, <1>8, <1>9, <1>10, <1>11, UserChange

-----------------------------------------------------------------------------
(* What leaves the tree alone leaves everything in its place.              *)
LEMMA SameTree ==
  ASSUME UNCHANGED <<tree, moved, raced>>
  PROVE  /\ \A d : Children(d)' = Children(d) /\ Below(d)' = Below(d)
         /\ \A d : (Exists(d)' <=> Exists(d)) /\ (Settled(d)' <=> Settled(d))
         /\ \A p : At(p)' = At(p)
<1>1. parent' = parent /\ name' = name /\ moved' = moved /\ raced' = raced
  BY DEF tree
<1>2. \A d : Children(d)' = Children(d) /\ (Exists(d)' <=> Exists(d))
  BY <1>1 DEF Children, Exists
<1>3. \A d : Below(d)' = Below(d)
  BY <1>2 DEF Below, Closed
<1>4. \A d : Settled(d)' <=> Settled(d)
  BY <1>1, <1>3 DEF Settled, InTree
<1>5. \A p : At(p)' = At(p)
  <2> SUFFICES ASSUME NEW p PROVE Chains(p)' = Chains(p)
    BY DEF At
  <2> QED
    BY <1>1, <1>2 DEF Chains
<1> QED
  BY <1>2, <1>3, <1>4, <1>5

(* A write changes the queue alone.                                        *)
LEMMA WriteFileInv ==
  ASSUME WatchInv, NEW x \in Node, WriteFile(x)
  PROVE  WatchInv'
<1> DEFINE seen == Seen(x, "changed", FALSE, Root)
<1>1. UNCHANGED <<tree, kernel, moved, raced, watches, todo, scanned, due, status>>
        /\ Happens(seen)
  BY DEF WriteFile, Changes
<1>2. /\ seen \in Seq(Event) /\ (kernel = {} => seen = <<>>)
      /\ Elements(seen) = IF x \in kernel THEN {Ev(x, "changed", FALSE, Root)} ELSE {}
  BY SeenType
<1> HIDE DEF seen
<1>3. \A e \in Elements(seen) : e.kind = "changed"
  BY <1>2 DEF Ev
<1>4. /\ LongOverflows' /\ (Overflowed => Overflowed')
      /\ Overflowed' \/ Queued' = Queued \cup Elements(seen)
      /\ \A e \in Queued' : e.kind = "overflow" \/ e \in Queued \cup Elements(seen)
  BY <1>1, <1>2, HappensQueued DEF WatchInv
<1>5. WatchTyped' /\ RightlyWatched' /\ NewIsNew'
  BY <1>1, SameTree DEF WatchInv, WatchTyped, RightlyWatched, NewIsNew, tree
<1>6. EventsKnown'
  BY <1>1, <1>3, <1>4, SameTree DEF WatchInv, EventsKnown
<1>7. CASE status = "up"
  <2>1. ASSUME NEW d, Coming(d) PROVE Coming(d)'
    BY <1>1, <1>4, <2>1, SameTree DEF Coming, ByWalk, ByScan, ByEvent, tree
  <2>2. FoundOrComing'
    BY <1>1, <1>7, <2>1, SameTree DEF WatchInv, FoundOrComing
  <2> QED
    BY <1>1, <1>4, <1>5, <1>6, <1>7, <2>2 DEF WatchInv
<1>8. CASE status # "up"
  <2>1. Silent
    BY <1>8 DEF WatchInv
  <2>2. kernel = {} /\ seen = <<>> /\ queue = <<>>
    BY <1>2, <2>1 DEF Silent
  <2>3. queue' = <<>>
    BY <1>1, <2>2, LimitsAssumption DEF Happens
  <2>4. Silent'
    BY <1>1, <2>1, <2>3 DEF Silent
  <2> QED
    BY <1>1, <1>4, <1>5, <1>6, <1>8, <2>4 DEF WatchInv
<1> QED
  BY <1>7, <1>8

(* Reading the queue, and the walk, leave the tree alone.                  *)
LEMMA ScanInv ==
  ASSUME WatchInv, NEW p \in todo, Scan(p)
  PROVE  WatchInv'
<1>1. /\ status = "up" /\ ~scanned.on /\ todo' = todo \ {p}
      /\ scanned' = IF At(p) = {} THEN Nowhere
                    ELSE [path |-> p, on |-> TRUE,
                          found |-> {name[e] : e \in UNION {Children(d) : d \in At(p)}}]
      /\ UNCHANGED <<tree, kernel, queue, watches, due, status, moved, raced>>
  BY DEF Scan, history
<1>2. p \in Word /\ <<>> \in Word
  BY DEF WatchInv, WatchTyped, Word
<1>3. scanned' \in [path : Word, found : SUBSET Name, on : BOOLEAN]
  <2>1. {name[e] : e \in UNION {Children(d) : d \in At(p)}} \subseteq Name
    BY DEF WatchInv, WatchTyped, Children
  <2> QED
    BY <1>1, <1>2, <2>1 DEF Nowhere
<1>4. WatchTyped' /\ LongOverflows' /\ RightlyWatched' /\ NewIsNew' /\ EventsKnown'
  BY <1>1, <1>3, SameTree
     DEF WatchInv, WatchTyped, RightlyWatched, NewIsNew, EventsKnown, LongOverflows, Overflowed,
         Queued, tree
<1>5. ASSUME NEW d \in Node, Coming(d) PROVE Coming(d)'
  <2>1. CASE Overflowed \/ ByEvent(d)
    BY <1>1, <2>1, SameTree DEF Coming, Overflowed, ByEvent, Queued, tree
  <2>2. CASE ByWalk(d)
    <3>1. PICK q \in todo : \E a \in At(q) : d \in Below(a)
      BY <2>2 DEF ByWalk
    <3>2. CASE q # p
      BY <1>1, <3>1, <3>2, SameTree DEF Coming, ByWalk
    <3>3. CASE q = p
      <4>1. PICK a \in At(p) : d \in Below(a)
        BY <3>1, <3>3
      <4>2. a \in Node /\ scanned'.on /\ scanned'.path = p
              /\ \A c \in Children(a) : name[c] \in scanned'.found
        BY <1>1, <1>2, <4>1, AtExists
      <4>3. d = a \/ \E c \in Children(a) : d \in Below(c)
        BY <4>1, <4>2, BelowDown
      <4>4. name' = name
        BY <1>1 DEF tree
      <4>5. ByScan(d)'
        BY <1>1, <4>1, <4>2, <4>3, <4>4, SameTree DEF ByScan
      <4> QED
        BY <4>5 DEF Coming
    <3> QED
      BY <3>2, <3>3
  <2> QED
    BY <1>1, <1>5, <2>1, <2>2 DEF Coming, ByScan
<1>6. FoundOrComing'
  BY <1>1, <1>5, SameTree DEF WatchInv, FoundOrComing
<1> QED
  BY <1>1, <1>4, <1>6 DEF WatchInv

(* The watch is added, and what the scan found is walked into next.        *)
LEMMA AddWatchInv ==
  ASSUME WatchInv, AddWatch
  PROVE  WatchInv'
<1> DEFINE p == scanned.path
<1>1. /\ scanned.on /\ scanned' = Nowhere /\ todo' = todo \cup Below1(p, scanned.found)
      /\ kernel' = kernel \cup At(p)
      /\ watches' = [d \in DOMAIN watches \cup At(p) |-> IF d \in At(p) THEN p ELSE watches[d]]
      /\ UNCHANGED <<tree, queue, due, status, moved, raced>>
  BY DEF AddWatch, history
<1>2. status = "up"
  BY <1>1 DEF WatchInv, Silent
<1>3. p \in Word /\ <<>> \in Word /\ scanned.found \subseteq Name
  BY DEF WatchInv, WatchTyped, Word
<1>4. \A a \in At(p) : a \in Node /\ Exists(a)
  BY <1>3, AtExists
<1>5. /\ DOMAIN watches' = DOMAIN watches \cup At(p)
      /\ \A d \in At(p) : watches'[d] = p
      /\ \A d \in DOMAIN watches \ At(p) : watches'[d] = watches[d]
  BY <1>1
<1>6. WatchTyped'
  <2>1. Nowhere \in [path : Word, found : SUBSET Name, on : BOOLEAN]
    BY <1>3 DEF Nowhere
  <2>2. Below1(p, scanned.found) \subseteq Word
    BY <1>3 DEF Below1, Word
  <2>3. DOMAIN watches' \subseteq Node /\ \A d \in DOMAIN watches' : watches'[d] \in Word
    BY <1>3, <1>4, <1>5 DEF WatchInv, WatchTyped
  <2> HIDE DEF p
  <2> QED
    BY <1>1, <1>4, <2>1, <2>2, <2>3 DEF WatchInv, WatchTyped, tree
<1> HIDE DEF p
<1>7. LongOverflows'
  BY <1>1 DEF WatchInv, LongOverflows, Overflowed, Queued
<1>8. RightlyWatched'
  <2> SUFFICES ASSUME NEW d \in Node, Settled(d)
               PROVE  /\ (d \in kernel' <=> d \in DOMAIN watches')
                      /\ (d \in DOMAIN watches' => d \in At(watches'[d]))
    <3>1. \A d : Settled(d)' <=> Settled(d)
      BY <1>1, SameTree
    <3>2. \A q : At(q)' = At(q)
      BY <1>1, SameTree
    <3>3. \A d : At(watches[d])' = At(watches'[d])
      BY <3>2
    <3> QED
      BY <3>1, <3>3 DEF RightlyWatched
  <2> QED
    BY <1>1, <1>5 DEF WatchInv, RightlyWatched
<1>9. EventsKnown'
  BY <1>1, <1>5, SameTree DEF WatchInv, EventsKnown, Queued
<1>10. NewIsNew'
  BY <1>1, <1>4, <1>5, SameTree DEF WatchInv, NewIsNew
<1>11. ASSUME NEW d \in Node, Coming(d), d \notin DOMAIN watches' PROVE Coming(d)'
  <2>1. CASE Overflowed \/ ByEvent(d)
    BY <1>1, <2>1, SameTree DEF Coming, Overflowed, ByEvent, Queued, tree
  <2>2. CASE ByWalk(d)
    BY <1>1, <2>2, SameTree DEF Coming, ByWalk
  <2>3. CASE ByScan(d)
    <3>1. PICK a \in At(p) :
            d = a \/ \E c \in Children(a) : name[c] \in scanned.found /\ d \in Below(c)
      BY <2>3 DEF ByScan, p
    <3>2. PICK c \in Children(a) : name[c] \in scanned.found /\ d \in Below(c)
      BY <1>5, <1>11, <3>1
    <3>3. name[c] \in Name \cup {Root} /\ Append(p, name[c]) \in todo'
      BY <1>1, <1>3, <3>2 DEF Below1
    <3>4. c \in At(Append(p, name[c]))
      BY <1>3, <3>1, <3>2, <3>3, AtAppend
    <3>5. ByWalk(d)'
      BY <1>1, <3>2, <3>3, <3>4, SameTree DEF ByWalk
    <3> QED
      BY <3>5 DEF Coming
  <2> QED
    BY <1>11, <2>1, <2>2, <2>3 DEF Coming
<1>12. FoundOrComing'
  BY <1>1, <1>2, <1>5, <1>11, SameTree DEF WatchInv, FoundOrComing
<1> QED
  BY <1>1, <1>2, <1>6, <1>7, <1>8, <1>9, <1>10, <1>12 DEF WatchInv

(* A stopped watcher watches nothing and has nothing to read.              *)
LEMMA StoppedInv ==
  ASSUME WatchInv, Stopped, status' # "up", UNCHANGED <<tree, moved, raced>>
  PROVE  WatchInv'
<1>1. /\ kernel' = {} /\ queue' = <<>> /\ DOMAIN watches' = {} /\ todo' = {}
      /\ scanned' = Nowhere
  BY DEF Stopped
<1>2. Nowhere \in [path : Word, found : SUBSET Name, on : BOOLEAN] /\ ~scanned'.on
  BY <1>1 DEF Nowhere, Word
<1>3. WatchTyped'
  BY <1>1, <1>2 DEF WatchInv, WatchTyped, tree
<1>4. Queued' = {} /\ queue' \in Seq(Event) /\ ~(Len(queue') > QueueLimit)
  BY <1>1, LimitsAssumption DEF Queued, Elements
<1>5. LongOverflows' /\ RightlyWatched' /\ EventsKnown' /\ NewIsNew' /\ Silent'
  BY <1>1, <1>2, <1>4, SameTree
     DEF WatchInv, LongOverflows, RightlyWatched, EventsKnown, NewIsNew, Silent
<1> QED
  BY <1>3, <1>5 DEF WatchInv

(* The recovery walks from the root, where everything settled is found.    *)
LEMMA RecoverInv == ASSUME WatchInv, Recover PROVE WatchInv'
<1>1. /\ status = "overflowed" /\ status' = "up" /\ todo' = {<<>>}
      /\ UNCHANGED <<tree, kernel, queue, watches, scanned, moved, raced>>
  BY DEF Recover, history
<1>2. WatchTyped'
  BY <1>1 DEF WatchInv, WatchTyped, tree, Word
<1>3. LongOverflows' /\ RightlyWatched' /\ EventsKnown' /\ NewIsNew'
  BY <1>1, SameTree
     DEF WatchInv, LongOverflows, Overflowed, Queued, RightlyWatched, EventsKnown, NewIsNew
<1>4. FoundOrComing'
  <2>1. ASSUME NEW d \in Node, Settled(d) PROVE ByWalk(d)'
    <3>1. Root \in At(<<>>) /\ d \in Below(Root) /\ <<>> \in todo'
      BY <1>1, <2>1, AtRoot DEF Settled, InTree
    <3> QED
      BY <1>1, <3>1, SameTree DEF ByWalk
  <2> QED
    BY <1>1, <2>1, SameTree DEF FoundOrComing, Coming
<1> QED
  BY <1>1, <1>2, <1>3, <1>4 DEF WatchInv

(* One event is read.  What it led to is walked into, or watched already.  *)
LEMMA HandleInv ==
  ASSUME WatchInv, Handle
  PROVE  WatchInv'
<1> DEFINE e == Head(queue)
<1>1. /\ status = "up" /\ ~scanned.on /\ todo = {} /\ queue # <<>> /\ queue' = Tail(queue)
      /\ UNCHANGED <<tree, kernel, scanned, status, moved, raced>>
  BY DEF Handle, Walking, history
<1>2. /\ e \in Event /\ e \in Queued /\ Queued = {e} \cup Queued'
      /\ queue' \in Seq(Event) /\ Len(queue) \in Nat /\ Len(queue') = Len(queue) - 1
  <2>1. /\ queue \in Seq(Event) /\ Len(queue) \in Nat \ {0} /\ queue' \in Seq(Event)
        /\ Len(queue') = Len(queue) - 1 /\ e = queue[1]
        /\ \A i \in 1 .. Len(queue) - 1 : queue'[i] = queue[i + 1]
    BY <1>1 DEF WatchInv, LongOverflows
  <2>2. 1 \in 1 .. Len(queue) /\ queue[1] \in Event
    BY <2>1
  <2>3. Queued' = {queue'[i] : i \in 1 .. Len(queue')}
    BY DEF Queued, Elements
  <2>4. Queued' \subseteq Queued
    <3>1. \A i \in 1 .. Len(queue) - 1 : i + 1 \in 1 .. Len(queue)
      BY <2>1
    <3> QED
      BY <2>1, <2>3, <3>1 DEF Queued, Elements
  <2>5. ASSUME NEW i \in 1 .. Len(queue), i # 1 PROVE queue[i] \in Queued'
    <3>1. i - 1 \in 1 .. Len(queue) - 1 /\ (i - 1) + 1 = i
      BY <2>1, <2>5
    <3>2. queue'[i - 1] = queue[i]
      BY <2>1, <3>1
    <3> QED
      BY <2>1, <2>3, <3>1, <3>2
  <2> QED
    BY <2>1, <2>2, <2>4, <2>5 DEF Queued, Elements
<1> HIDE DEF e
<1>3. \/ /\ e.wd \notin DOMAIN watches /\ e.kind # "overflow"
         /\ UNCHANGED <<watches, todo>>
      \/ /\ e.wd \in moved /\ e.kind \in {"ignored", "selfGone"}
         /\ watches' = [d \in DOMAIN watches \ {e.wd} |-> watches[d]] /\ UNCHANGED todo
      \/ /\ e.wd \in DOMAIN watches /\ e.kind \in {"appeared", "removed", "changed"}
         /\ watches' = watches
         /\ (e.dir /\ e.kind = "appeared" => todo' = {Append(watches[e.wd], e.name)})
         /\ (~(e.dir /\ e.kind = "appeared") => todo' = todo)
  <2>1. e.kind \in {"selfGone", "ignored"} => e.wd \in moved
    BY <1>2 DEF WatchInv, EventsKnown
  <2>2. \/ /\ e.wd \notin DOMAIN watches /\ e.kind # "overflow"
           /\ UNCHANGED <<watches, todo, due, unreported>>
        \/ /\ e.wd \in DOMAIN watches /\ e.kind = "ignored" /\ Dropped(e.wd)
           /\ UNCHANGED <<todo, due, unreported>>
        \/ /\ e.wd \in DOMAIN watches /\ e.kind = "selfGone" /\ Dropped(e.wd) /\ Reports
           /\ UNCHANGED <<todo, due>>
        \/ /\ e.wd \in DOMAIN watches /\ e.kind \in {"appeared", "removed", "changed"}
           /\ watches' = watches /\ Extended(e)
    BY DEF Handle, e
  <2>3. Dropped(e.wd) => watches' = [d \in DOMAIN watches \ {e.wd} |-> watches[d]]
    BY DEF Dropped, Forgets
  <2>4. /\ Extended(e) /\ e.dir /\ e.kind = "appeared" => todo' = {Append(watches[e.wd], e.name)}
        /\ Extended(e) /\ ~(e.dir /\ e.kind = "appeared") => todo' = todo
    BY DEF Extended
  <2>5. CASE e.wd \notin DOMAIN watches
    BY <2>2, <2>5
  <2>6. CASE e.wd \in DOMAIN watches /\ e.kind \in {"ignored", "selfGone"}
    BY <2>1, <2>2, <2>3, <2>6
  <2>7. CASE e.wd \in DOMAIN watches /\ e.kind \notin {"ignored", "selfGone"}
    <3>1. e.kind \in {"appeared", "removed", "changed"} /\ watches' = watches /\ Extended(e)
      BY <2>2, <2>7
    <3> QED
      BY <2>4, <2>7, <3>1
  <2> QED
    BY <2>5, <2>6, <2>7
<1>4. e.wd \in Node /\ e.name \in Name \cup {Root} /\ e.kind # "overflow"
  BY <1>2, <1>3 DEF Event
<1>5. (Overflowed' <=> Overflowed) /\ LongOverflows'
  <2>1. Overflowed' <=> Overflowed
    BY <1>2, <1>4 DEF Overflowed
  <2>2. Len(queue') > QueueLimit => Len(queue) > QueueLimit
    BY <1>2, LimitsAssumption
  <2> QED
    BY <1>2, <2>1, <2>2 DEF WatchInv, LongOverflows
<1>6. /\ DOMAIN watches' \subseteq DOMAIN watches
      /\ \A d \in DOMAIN watches' : watches'[d] = watches[d]
      /\ \A d \in DOMAIN watches \ DOMAIN watches' : d \in moved
  BY <1>3
<1>7. WatchTyped'
  <2>1. todo' \subseteq Word
    <3>1. e.wd \in DOMAIN watches => watches[e.wd] \in Word
      BY DEF WatchInv, WatchTyped
    <3>2. e.wd \in DOMAIN watches => Append(watches[e.wd], e.name) \in Word
      BY <1>4, <3>1 DEF Word
    <3>3. todo' = {} \/ (e.wd \in DOMAIN watches /\ todo' = {Append(watches[e.wd], e.name)})
      BY <1>1, <1>3
    <3> QED
      BY <3>2, <3>3
  <2> QED
    BY <1>1, <1>6, <2>1 DEF WatchInv, WatchTyped, tree
<1>8. \A d \in moved : ~Settled(d)
  BY BelowSelf DEF Settled, WatchInv, WatchTyped, Node
<1>9. RightlyWatched'
  <2> SUFFICES ASSUME NEW d \in Node, Settled(d)
               PROVE  /\ (d \in kernel' <=> d \in DOMAIN watches')
                      /\ (d \in DOMAIN watches' => d \in At(watches'[d]))
    <3>1. \A q : (Settled(q)' <=> Settled(q)) /\ At(q)' = At(q)
      BY <1>1, SameTree
    <3>2. \A d : At(watches[d])' = At(watches'[d])
      BY <3>1
    <3> QED
      BY <3>1, <3>2 DEF RightlyWatched
  <2> QED
    BY <1>1, <1>6, <1>8 DEF WatchInv, RightlyWatched
<1>10. EventsKnown' /\ NewIsNew'
  BY <1>1, <1>2, <1>6, <1>8, SameTree DEF WatchInv, EventsKnown, NewIsNew
<1>11. ASSUME NEW d \in Node, Settled(d), Coming(d) PROVE Coming(d)'
  <2>1. CASE Overflowed
    BY <1>5, <2>1 DEF Coming
  <2>2. CASE ByEvent(d)
    <3>1. PICK f \in Queued :
            /\ f.kind = "appeared" /\ f.dir
            /\ \E c \in Children(f.wd) : name[c] = f.name /\ d \in Below(c)
      BY <2>2 DEF ByEvent
    <3>2. CASE f \in Queued'
      <4>1. name' = name
        BY <1>1 DEF tree
      <4>2. ByEvent(d)'
        BY <1>1, <3>1, <3>2, <4>1, SameTree DEF ByEvent
      <4> QED
        BY <4>2 DEF Coming
    <3>3. CASE f = e
      <4>1. PICK c \in Children(e.wd) : name[c] = e.name /\ d \in Below(c)
        BY <3>1, <3>3
      <4>2. Settled(e.wd)
        <5>1. c \in Below(e.wd)
          BY <1>4, BelowSelf, BelowClosed DEF Closed
        <5>2. d \in Below(e.wd)
          BY <1>4, <4>1, <5>1, BelowTrans
        <5> QED
          BY <1>4, <1>11, <5>2, SettledUp DEF WatchInv, WatchTyped
      <4>3. e.wd \in DOMAIN watches /\ e.wd \in At(watches[e.wd]) /\ watches[e.wd] \in Word
        BY <1>2, <1>4, <3>1, <3>3, <4>2 DEF WatchInv, EventsKnown, RightlyWatched, WatchTyped
      <4>4. todo' = {Append(watches[e.wd], e.name)}
        BY <1>3, <3>1, <3>3, <4>3
      <4>5. c \in At(Append(watches[e.wd], e.name))
        BY <1>4, <4>1, <4>3, AtAppend
      <4>6. ByWalk(d)'
        BY <1>1, <4>1, <4>4, <4>5, SameTree DEF ByWalk
      <4> QED
        BY <4>6 DEF Coming
    <3> QED
      BY <1>2, <3>2, <3>3
  <2> QED
    BY <1>1, <1>11, <2>1, <2>2 DEF Coming, ByWalk, ByScan
<1>12. FoundOrComing'
  BY <1>1, <1>6, <1>8, <1>11, SameTree DEF WatchInv, FoundOrComing
<1> QED
  BY <1>1, <1>5, <1>7, <1>9, <1>10, <1>12 DEF WatchInv

(* The invariant.                                                          *)
LEMMA WatchInit == ASSUME Init PROVE WatchInv
<1>1. /\ parent = [d \in Dir |-> IF d \in Initial THEN Root ELSE d] /\ name \in [Dir -> Name]
      /\ kernel = {} /\ queue = <<>> /\ DOMAIN watches = {} /\ todo = {<<>>} /\ scanned = Nowhere
      /\ status = "up" /\ moved = {} /\ raced = {}
  BY DEF Init
<1>2. WatchTyped
  <2>1. parent \in [Dir -> Node] /\ <<>> \in Word
    BY <1>1 DEF Node, Word
  <2> QED
    BY <1>1, <2>1 DEF WatchTyped, Nowhere
<1>3. Queued = {} /\ queue \in Seq(Event) /\ ~(Len(queue) > QueueLimit)
  BY <1>1, LimitsAssumption DEF Queued, Elements
<1>4. \A d \in Dir : ~Exists(d) => Children(d) = {}
  BY <1>1, DirAssumption DEF Exists, Children
<1>5. LongOverflows /\ RightlyWatched /\ EventsKnown /\ NewIsNew
  BY <1>1, <1>3, <1>4 DEF LongOverflows, RightlyWatched, EventsKnown, NewIsNew
<1>6. FoundOrComing
  BY <1>1, AtRoot DEF FoundOrComing, Coming, ByWalk, Settled, InTree
<1> QED
  BY <1>1, <1>2, <1>5, <1>6 DEF WatchInv

(* What neither changes the tree nor the watcher keeps the invariant.      *)
LEMMA WatchSame ==
  ASSUME WatchInv, UNCHANGED <<tree, kernel, queue, watches, todo, scanned, status, moved, raced>>
  PROVE  WatchInv'
<1>1. WatchTyped' /\ LongOverflows' /\ NewIsNew' /\ EventsKnown'
  BY SameTree
     DEF WatchInv, WatchTyped, NewIsNew, EventsKnown, LongOverflows, Overflowed, Queued, tree
<1>2. RightlyWatched'
  <2>1. \A d : At(watches[d])' = At(watches[d])
    BY SameTree
  <2> QED
    BY <2>1, SameTree DEF WatchInv, RightlyWatched
<1>3. status = "up" => FoundOrComing'
  BY SameTree
     DEF WatchInv, FoundOrComing, Coming, ByWalk, ByScan, ByEvent, Overflowed, Queued, tree
<1> QED
  BY <1>1, <1>2, <1>3 DEF WatchInv, Silent

(* Every step keeps the invariant.                                         *)
LEMMA WatchNext == ASSUME WatchInv, [Next]_vars PROVE WatchInv'
<1>1. CASE UserNext
  BY <1>1, MakeDirInv, RenameInv, WriteFileInv, RemoveDirInv DEF UserNext
<1>2. CASE \E p \in todo : Scan(p)
  BY <1>2, ScanInv
<1>3. CASE AddWatch
  BY <1>3, AddWatchInv
<1>4. CASE Handle
  BY <1>4, HandleInv
<1>5. CASE Recover
  BY <1>5, RecoverInv
<1>6. CASE LimitReached \/ Overflow
  BY <1>6, StoppedInv DEF LimitReached, Overflow, history
<1>7. CASE Walked \/ Fallback \/ UNCHANGED vars
  BY <1>7, WatchSame DEF Walked, Fallback, vars, history, tree
<1> QED
  BY <1>1, <1>2, <1>3, <1>4, <1>5, <1>6, <1>7 DEF Next, WatcherNext

(* A directory escapes an idle watcher only by a rename or by appearing    *)
(* between a scan and its watch, for any tree, names, limits and changes.  *)
THEOREM EscapesOnlyByRace == Spec => []UnwatchedOnlyBy
<1>1. WatchInv => UnwatchedOnlyBy
  <2> SUFFICES ASSUME WatchInv, Idle, NEW d \in Below(Root) \ DOMAIN watches
               PROVE  \E r \in moved \cup raced : d \in Below(r)
    BY DEF UnwatchedOnlyBy
  <2>1. status = "up" /\ todo = {} /\ ~scanned.on /\ queue = <<>>
    BY DEF Idle, Walking
  <2>2. Queued = {}
    BY <2>1 DEF Queued, Elements
  <2>3. ~Coming(d)
    BY <2>1, <2>2 DEF Coming, ByWalk, ByScan, ByEvent, Overflowed
  <2>4. d \in Node
    BY BelowClosed
  <2> QED
    BY <2>1, <2>3, <2>4 DEF WatchInv, FoundOrComing, Settled, InTree
<1> QED
  BY <1>1, WatchInit, WatchNext, PTL DEF Spec

-----------------------------------------------------------------------------
(* The application never replaces or removes what the user put on the      *)
(* Desktop under the folder's name, for any bookmarks: its own steps only  *)
(* fill a free name and take away its own links.                           *)
THEOREM UserEntriesStay == DesktopSpec => UserEntriesKept
<1>1. ASSUME NEW n \in Names, entries[n] = "user's", AddShortcut PROVE entries'[n] = "user's"
  <2>1. CASE entries' = entries
    BY <1>1, <2>1
  <2>2. CASE \E m \in FreeName : entries' = [entries EXCEPT ![m] = "ours"]
    <3>1. PICK m \in FreeName : entries' = [entries EXCEPT ![m] = "ours"]
      BY <2>2
    <3>2. m # n
      BY <1>1, <3>1 DEF FreeName
    <3> QED
      BY <1>1, <3>1, <3>2
  <2> QED
    BY <1>1, <2>1, <2>2 DEF AddShortcut
<1>2. ASSUME NEW n \in Names, entries[n] = "user's", DropShortcut PROVE entries'[n] = "user's"
  BY <1>2 DEF DropShortcut, Ours
<1>3. ASSUME NEW n \in Names, entries[n] = "user's", App PROVE entries'[n] = "user's"
  BY <1>1, <1>2, <1>3
     DEF App, SetupComplete, Resumed, Recovery, BootstrapComplete, Cleanup, SwitchBookmark,
         SwitchShortcut, SwitchIcon, deskVars
<1>4. [DesktopNext]_desktopVars =>
        [\A n \in Names :
           entries[n] = "user's" /\ entries'[n] # "user's" => UserAtDesktop]_desktopVars
  BY <1>3 DEF DesktopNext, FilesWrites
<1> QED
  BY <1>4, PTL DEF DesktopSpec, UserEntriesKept

(* Only a link of the application has its icon, and every variable keeps   *)
(* its type, for any bookmarks (set_special_icon).                         *)
THEOREM DesktopTypeCorrect == DesktopSpec => []DesktopTypeOK
<1>1. DesktopInit => DesktopTypeOK
  BY DEF DesktopInit, DesktopTypeOK
<1>2. ASSUME DesktopTypeOK, AddShortcut \/ DropShortcut
      PROVE  /\ entries' \in [Names -> {"none", "ours", "user's"}]
             /\ linkIcon' \subseteq {n \in Names : entries'[n] = "ours"}
  <2>1. CASE AddShortcut
    BY <1>2, <2>1 DEF DesktopTypeOK, AddShortcut, IconOn, FreeName
  <2>2. CASE DropShortcut
    BY <1>2, <2>2 DEF DesktopTypeOK, DropShortcut, Ours
  <2> QED
    BY <1>2, <2>1, <2>2
<1>3. ASSUME DesktopTypeOK, App PROVE DesktopTypeOK'
  <2>1. CASE SetupComplete \/ Resumed \/ Recovery
    BY <1>3, <2>1 DEF DesktopTypeOK, SetupComplete, Resumed, Recovery, deskVars
  <2>2. CASE BootstrapComplete
    BY <1>2, <1>3, <2>2 DEF DesktopTypeOK, BootstrapComplete, SetBookmark, deskVars
  <2>3. CASE Cleanup
    BY <1>2, <1>3, <2>3 DEF DesktopTypeOK, Cleanup, SetBookmark
  <2>4. ASSUME NEW on \in BOOLEAN, SwitchBookmark(on) \/ SwitchIcon(on) PROVE DesktopTypeOK'
    BY <1>3, <2>4 DEF DesktopTypeOK, SwitchBookmark, SwitchIcon, SetBookmark, SetIcon, Ours
  <2>5. ASSUME NEW on \in BOOLEAN, SwitchShortcut(on) PROVE DesktopTypeOK'
    BY <1>2, <1>3, <2>5 DEF DesktopTypeOK, SwitchShortcut
  <2> QED
    BY <1>3, <2>1, <2>2, <2>3, <2>4, <2>5 DEF App
<1>4. ASSUME DesktopTypeOK, FilesWrites \/ UserAtDesktop \/ UNCHANGED desktopVars
      PROVE  DesktopTypeOK'
  BY <1>4 DEF DesktopTypeOK, FilesWrites, UserAtDesktop, desktopVars, deskVars
<1> QED
  BY <1>1, <1>3, <1>4, PTL DEF DesktopSpec, DesktopNext
=============================================================================
