---------------------------- MODULE ManagedProofs ----------------------------
(***************************************************************************)
(* Proofs about ManagedAttempts, for any number of attempts, runs and      *)
(* owners and every value of the policy.                                   *)
(***************************************************************************)
EXTENDS ManagedAttempts, FiniteSetTheorems, NaturalsInduction, WellFoundedInduction, TLAPS

-----------------------------------------------------------------------------
(* Sums over finite sets.                                                  *)
Some(S) == CHOOSE x \in S : TRUE

LEMMA LeastElement ==
  ASSUME NEW T, T \subseteq Nat, T # {}
  PROVE  \E x \in T : \A y \in T : x <= y
<1> DEFINE R == {ss \in Nat \X Nat : ss[1] < ss[2]}
<1>1. IsWellFoundedOn(R, Nat)
  BY NatLessThanWellFounded DEF OpToRel
<1>2. \A x, y \in Nat : y < x => <<y, x>> \in R
  OBVIOUS
<1> HIDE DEF R
<1>3. PICK x \in T : \A y \in T : ~(<<y, x>> \in R)
  BY <1>1, WFMin
<1>4. \A y \in T : ~(y < x)
  BY <1>2, <1>3
<1> QED BY <1>3, <1>4

(* an accumulating function on the subsets of S exists *)
Sums(g, T) == {s \in [T -> Int] : \A x \in T : s[x] = IF x = {} THEN 0 ELSE g[Some(x)] + s[x \ {Some(x)}]}

LEMMA SumsExist ==
  ASSUME NEW S, IsFiniteSet(S), NEW g, \A i \in S : g[i] \in Int
  PROVE  Sums(g, SUBSET S) # {}
<1> DEFINE Small(n) == {x \in SUBSET S : Cardinality(x) <= n}
           Bad == {n \in Nat : Sums(g, Small(n)) = {}}
<1>0. \A x \in SUBSET S : IsFiniteSet(x) /\ Cardinality(x) \in Nat /\ Cardinality(x) <= Cardinality(S)
  BY FS_Subset, FS_CardinalityType
<1>1. Bad = {}
  <2> SUFFICES ASSUME Bad # {} PROVE FALSE
    OBVIOUS
  <2>1. PICK n \in Bad : \A m \in Bad : n <= m
    BY LeastElement
  <2>2. CASE n = 0
    <3>1. \A x \in Small(0) : x = {}
      BY <1>0, FS_EmptySet
    <3>2. [x \in Small(0) |-> 0] \in Sums(g, Small(0))
      BY <3>1 DEF Sums
    <3> QED BY <2>1, <2>2, <3>2
  <2>3. CASE n # 0
    <3>1. n - 1 \in Nat /\ n - 1 \notin Bad
      BY <2>1, <2>3
    <3>2. PICK s : s \in Sums(g, Small(n - 1))
      BY <3>1
    <3> DEFINE t == [x \in Small(n) |-> IF x = {} THEN 0 ELSE g[Some(x)] + s[x \ {Some(x)}]]
    <3>3. ASSUME NEW x \in Small(n), x # {}
          PROVE  /\ Some(x) \in S /\ x \ {Some(x)} \in Small(n - 1) /\ x \ {Some(x)} \in Small(n)
                 /\ g[Some(x)] \in Int /\ s[x \ {Some(x)}] \in Int
      <4>1. Some(x) \in x
        BY <3>3 DEF Some
      <4>2. Cardinality(x \ {Some(x)}) = Cardinality(x) - 1
        BY <1>0, <4>1, FS_RemoveElement
      <4>3. x \ {Some(x)} \in SUBSET S /\ Cardinality(x) \in Nat /\ Cardinality(x) <= n /\ n \in Nat
        BY <1>0, <2>1
      <4>4. x \ {Some(x)} \in Small(n - 1) /\ x \ {Some(x)} \in Small(n)
        BY <4>2, <4>3
      <4> QED BY <3>2, <4>1, <4>4 DEF Sums
    <3>4. t \in [Small(n) -> Int]
      <4>1. ASSUME NEW x \in Small(n)
            PROVE  (IF x = {} THEN 0 ELSE g[Some(x)] + s[x \ {Some(x)}]) \in Int
        <5>1. CASE x = {}
          BY <5>1
        <5>2. CASE x # {}
          <6>1. g[Some(x)] \in Int /\ s[x \ {Some(x)}] \in Int
            BY <3>3, <5>2
          <6> QED BY <5>2, <6>1
        <5> QED BY <5>1, <5>2
      <4> QED BY <4>1
    <3>5. ASSUME NEW x \in Small(n), x # {} PROVE t[x \ {Some(x)}] = s[x \ {Some(x)}]
      BY <3>2, <3>3, <3>5 DEF Sums
    <3>6. t \in Sums(g, Small(n))
      BY <3>4, <3>5 DEF Sums
    <3> QED BY <2>1, <3>6
  <2> QED BY <2>2, <2>3
<1>2. Cardinality(S) \in Nat /\ Small(Cardinality(S)) = SUBSET S
  BY <1>0, FS_CardinalityType
<1> QED BY <1>1, <1>2

(* Induction on the subsets of a finite set, one chosen element at a time. *)
LEMMA SubsetInduction ==
  ASSUME NEW S, IsFiniteSet(S), NEW P \in SUBSET (SUBSET S), {} \in P,
         \A x \in SUBSET S : x # {} /\ x \ {Some(x)} \in P => x \in P
  PROVE  P = SUBSET S
<1> DEFINE Bad == {n \in Nat : \E x \in SUBSET S : Cardinality(x) = n /\ x \notin P}
<1>1. \A x \in SUBSET S : IsFiniteSet(x) /\ Cardinality(x) \in Nat
  BY FS_Subset, FS_CardinalityType
<1>2. Bad = {}
  <2> SUFFICES ASSUME Bad # {} PROVE FALSE
    OBVIOUS
  <2>1. PICK n \in Bad : \A m \in Bad : n <= m
    BY LeastElement
  <2>2. PICK x \in SUBSET S : Cardinality(x) = n /\ x \notin P
    BY <2>1
  <2>3. Some(x) \in x
    BY <2>2 DEF Some
  <2>4. Cardinality(x \ {Some(x)}) = n - 1 /\ Cardinality(x \ {Some(x)}) \in Nat
    BY <1>1, <2>2, <2>3, FS_RemoveElement
  <2>5. x \ {Some(x)} \notin P
    BY <2>2, <2>3
  <2>6. n - 1 \in Bad
    BY <2>4, <2>5
  <2> QED BY <2>1, <2>4, <2>6
<1> QED BY <1>1, <1>2

LEMMA TotalIsSums ==
  ASSUME NEW S, IsFiniteSet(S), NEW g, \A i \in S : g[i] \in Int
  PROVE  \E s \in Sums(g, SUBSET S) : Total(g, S) = s[S]
<1> DEFINE iter[s \in SUBSET S] ==
        IF s = {} THEN 0
        ELSE LET x == Some(s)
             IN  g[x] + iter[s \ {x}]
           P == {x \in SUBSET S : iter[x] \in Int}
<1>1. Total(g, S) = iter[S]
  BY DEF Total, MapThenSumSet, MapThenFoldSet, Some
<1>2. PICK s : s \in Sums(g, SUBSET S)
  BY SumsExist
<1>3. s = [x \in SUBSET S |-> IF x = {} THEN 0 ELSE g[Some(x)] + s[x \ {Some(x)}]]
  BY <1>2 DEF Sums
<1>4. \E f : f = [x \in SUBSET S |-> IF x = {} THEN 0 ELSE LET y == Some(x) IN g[y] + f[x \ {y}]]
  BY <1>3
<1>5. iter = [x \in SUBSET S |-> IF x = {} THEN 0 ELSE LET y == Some(x) IN g[y] + iter[x \ {y}]]
  BY <1>4
<1> HIDE DEF iter
<1>6. \A x \in SUBSET S : x # {} => Some(x) \in x
  BY DEF Some
<1>7. P = SUBSET S
  <2>1. {} \in P
    BY <1>5
  <2>2. ASSUME NEW x \in SUBSET S, x # {}, x \ {Some(x)} \in P PROVE x \in P
    <3>1. iter[x] = g[Some(x)] + iter[x \ {Some(x)}]
      BY <1>5, <2>2
    <3>2. Some(x) \in S /\ g[Some(x)] \in Int
      BY <1>6, <2>2
    <3> QED BY <2>2, <3>1, <3>2
  <2> HIDE DEF P
  <2>3. P \in SUBSET (SUBSET S)
    BY DEF P
  <2> QED BY <2>1, <2>2, <2>3, SubsetInduction
<1>8. iter \in [SUBSET S -> Int]
  BY <1>5, <1>7
<1>9. iter \in Sums(g, SUBSET S)
  BY <1>5, <1>8 DEF Sums
<1> QED BY <1>1, <1>9

(* A sum is an integer; of no negative summands, no negative one.          *)
LEMMA TotalType ==
  ASSUME NEW S, IsFiniteSet(S), NEW g, \A i \in S : g[i] \in Nat
  PROVE  Total(g, S) \in Nat
<1>1. PICK s \in Sums(g, SUBSET S) : Total(g, S) = s[S]
  <2>1. \A i \in S : g[i] \in Int
    OBVIOUS
  <2> QED BY <2>1, TotalIsSums
<1> DEFINE P == {x \in SUBSET S : s[x] \in Nat}
<1>2. {} \in P
  <2>1. {} \in SUBSET S
    OBVIOUS
  <2>2. s[{}] = 0
    BY <1>1, <2>1 DEF Sums
  <2> QED BY <2>1, <2>2
<1>3. ASSUME NEW x \in SUBSET S, x # {}, x \ {Some(x)} \in P PROVE x \in P
  <2>1. Some(x) \in x
    BY <1>3 DEF Some
  <2>2. s[x] = g[Some(x)] + s[x \ {Some(x)}]
    BY <1>1, <1>3 DEF Sums
  <2> QED BY <1>3, <2>1, <2>2
<1>4. P \in SUBSET (SUBSET S)
  OBVIOUS
<1>5. P = SUBSET S
  <2> HIDE DEF P
  <2> QED BY <1>2, <1>3, <1>4, SubsetInduction
<1> QED BY <1>1, <1>5

(* Of larger summands it is larger.                                        *)
LEMMA TotalMonotone ==
  ASSUME NEW S, IsFiniteSet(S), NEW g, \A i \in S : g[i] \in Int, NEW h, \A i \in S : h[i] \in Int, \A x \in S : g[x] <= h[x]
  PROVE  Total(g, S) <= Total(h, S)
<1>1. PICK s \in Sums(g, SUBSET S) : Total(g, S) = s[S]
  BY TotalIsSums
<1>2. PICK t \in Sums(h, SUBSET S) : Total(h, S) = t[S]
  BY TotalIsSums
<1> DEFINE P == {x \in SUBSET S : s[x] <= t[x]}
<1>3. {} \in P
  <2>1. {} \in SUBSET S
    OBVIOUS
  <2>2. s[{}] = 0 /\ t[{}] = 0
    BY <1>1, <1>2, <2>1 DEF Sums
  <2> QED BY <2>1, <2>2
<1>4. ASSUME NEW x \in SUBSET S, x # {}, x \ {Some(x)} \in P PROVE x \in P
  <2>1. Some(x) \in x
    BY <1>4 DEF Some
  <2>2. s[x] = g[Some(x)] + s[x \ {Some(x)}] /\ s[x \ {Some(x)}] \in Int
    BY <1>1, <1>4 DEF Sums
  <2>3. t[x] = h[Some(x)] + t[x \ {Some(x)}] /\ t[x \ {Some(x)}] \in Int
    BY <1>2, <1>4 DEF Sums
  <2>4. g[Some(x)] \in Int /\ h[Some(x)] \in Int /\ g[Some(x)] <= h[Some(x)]
    BY <2>1
  <2> QED BY <1>4, <2>2, <2>3, <2>4
<1>5. P \in SUBSET (SUBSET S)
  OBVIOUS
<1>6. P = SUBSET S
  <2> HIDE DEF P
  <2> QED BY <1>3, <1>4, <1>5, SubsetInduction
<1> QED BY <1>1, <1>2, <1>6

(* Where one summand differs, so does the sum, by as much.                 *)
LEMMA TotalChanged ==
  ASSUME NEW S, IsFiniteSet(S), NEW g, \A i \in S : g[i] \in Int, NEW h, \A i \in S : h[i] \in Int, NEW a \in S,
         \A x \in S \ {a} : g[x] = h[x]
  PROVE  Total(h, S) = Total(g, S) + (h[a] - g[a])
<1>1. PICK s \in Sums(g, SUBSET S) : Total(g, S) = s[S]
  BY TotalIsSums
<1>2. PICK t \in Sums(h, SUBSET S) : Total(h, S) = t[S]
  BY TotalIsSums
<1> DEFINE P == {x \in SUBSET S : t[x] = s[x] + (IF a \in x THEN h[a] - g[a] ELSE 0)}
<1>3. {} \in P
  <2>1. {} \in SUBSET S /\ a \notin {}
    OBVIOUS
  <2>2. s[{}] = 0 /\ t[{}] = 0
    BY <1>1, <1>2, <2>1 DEF Sums
  <2> QED BY <2>1, <2>2
<1>4. ASSUME NEW x \in SUBSET S, x # {}, x \ {Some(x)} \in P PROVE x \in P
  <2>1. Some(x) \in x
    BY <1>4 DEF Some
  <2>2. s[x] = g[Some(x)] + s[x \ {Some(x)}] /\ s[x \ {Some(x)}] \in Int
    BY <1>1, <1>4 DEF Sums
  <2>3. t[x] = h[Some(x)] + t[x \ {Some(x)}] /\ t[x \ {Some(x)}] \in Int
    BY <1>2, <1>4 DEF Sums
  <2>4. g[Some(x)] \in Int /\ h[Some(x)] \in Int /\ g[a] \in Int /\ h[a] \in Int
    BY <2>1
  <2>5. CASE Some(x) = a
    BY <1>4, <2>1, <2>2, <2>3, <2>4, <2>5
  <2>6. CASE Some(x) # a
    <3>1. g[Some(x)] = h[Some(x)] /\ (a \in x <=> a \in x \ {Some(x)})
      BY <2>1, <2>6
    <3> QED BY <1>4, <2>2, <2>3, <2>4, <3>1
  <2> QED BY <2>5, <2>6
<1>5. P \in SUBSET (SUBSET S)
  OBVIOUS
<1>6. P = SUBSET S
  <2> HIDE DEF P
  <2> QED BY <1>3, <1>4, <1>5, SubsetInduction
<1> QED BY <1>1, <1>2, <1>6
-----------------------------------------------------------------------------
RowStates == {"queued", "reserved", "dispatched", "quarantined", "settled"}
RowStatuses == {"queued", "running", "cleanup_required"} \cup FinalStates
Rows ==
  [state : RowStates, status : RowStatuses, cancelled : BOOLEAN, generation : Nat,
   leaseLive : BOOLEAN, backingOff : BOOLEAN, recoveries : Nat, dispatched : BOOLEAN,
   runKnown : BOOLEAN, sessionKnown : BOOLEAN, replay : BOOLEAN, actual : Nat \cup {NULL},
   reserved : Nat, consumed : Nat, released : Nat]
Remotes ==
  [run : {"none", "asked", "running", "refused", "completed", "failed"},
   session : {"none", "running", "over", "errored"}, seconds : Nat \cup {NULL}, requests : Nat]
Places ==
  {"start", "dispatched", "created", "polling", "watching", "discovering", "verifying", "cleanup",
   "publish", "report"}
Tasks ==
  [attempt : Attempts, generation : Nat, at : Places, allocated : BOOLEAN,
   run : {"unknown", "named", "owned"}, session : BOOLEAN,
   verified : {NULL, "completed", "failed"}, closed : BOOLEAN, seconds : Nat \cup {NULL},
   stopped : BOOLEAN, released : BOOLEAN, error : {NULL, "failed", "cancelled"}]

(* The records of the rows, the provider and the executions are well       *)
(* formed.                                                                 *)
TypeOK ==
  /\ row \in [Attempts -> Rows]
  /\ jobs \in [Owners -> [open : Nat, settled : Nat]]
  /\ remote \in [Attempts -> Remotes]
  /\ tasks \subseteq Tasks
  /\ faults \in Nat

LEMMA TypeInit == Init => TypeOK
<1> SUFFICES ASSUME Init PROVE TypeOK
  OBVIOUS
<1> USE DEF Init
<1>1. row \in [Attempts -> Rows]
  BY DEF Rows, RowStates, RowStatuses
<1>2. remote \in [Attempts -> Remotes]
  BY DEF Remotes
<1> QED BY <1>1, <1>2 DEF TypeOK

(* What the actions do to the row of an attempt keeps it a row.            *)
LEMMA TypeAcquire ==
  ASSUME TypeOK, NEW a \in Attempts, NEW r \in [Attempts -> Rows], Acquire(a, r)
  PROVE  row' \in [Attempts -> Rows] /\ tasks' \subseteq Tasks
<1>1. [r[a] EXCEPT !.generation = @ + 1, !.leaseLive = TRUE] \in Rows
  <2>1. r[a] \in Rows
    OBVIOUS
  <2>2. r[a].generation + 1 \in Nat
    BY <2>1 DEF Rows
  <2> DEFINE next == r[a].generation + 1
  <2>3. [r[a] EXCEPT !.generation = next, !.leaseLive = TRUE] \in Rows
    <3> HIDE DEF next
    <3>1. next \in Nat
      BY <2>2 DEF next
    <3> QED BY <2>1, <3>1 DEF Rows
  <2> QED BY <2>3
<1>2. row' \in [Attempts -> Rows]
  BY <1>1 DEF Acquire
<1>3. row[a] \in Rows
  BY DEF TypeOK
<1> DEFINE new ==
      [attempt |-> a, generation |-> row[a].generation + 1, at |-> "start",
       allocated |-> AllocationPossible(a),
       run |-> IF row[a].runKnown THEN "named" ELSE "unknown", session |-> row[a].sessionKnown,
       verified |-> NULL, closed |-> FALSE, seconds |-> NULL,
       stopped |-> FALSE, released |-> FALSE, error |-> NULL]
<1>4. new \in Tasks
  <2>1. /\ row[a].generation + 1 \in Nat /\ row[a].sessionKnown \in BOOLEAN
        /\ row[a].dispatched \in BOOLEAN /\ row[a].runKnown \in BOOLEAN
    BY <1>3 DEF Rows
  <2>2. AllocationPossible(a) \in BOOLEAN
    BY <2>1 DEF AllocationPossible
  <2>3. (IF row[a].runKnown THEN "named" ELSE "unknown") \in {"unknown", "named", "owned"}
    OBVIOUS
  <2> QED BY <2>1, <2>2, <2>3 DEF Tasks, Places
<1>5. tasks' = tasks \cup {new}
  BY DEF Acquire
<1> QED BY <1>2, <1>4, <1>5 DEF TypeOK

LEMMA TypeRefusal ==
  ASSUME TypeOK
  PROVE  AfterRefusal \in [Attempts -> Rows]
<1>1. ASSUME NEW a \in Attempts
      PROVE  [row[a] EXCEPT !.state = "settled", !.status = "failed", !.actual = 0] \in Rows
  <2>1. row[a] \in Rows
    BY DEF TypeOK
  <2> QED BY <2>1 DEF Rows, RowStates, RowStatuses, FinalStates
<1> QED BY <1>1 DEF AfterRefusal, TypeOK

LEMMA TypeClaims ==
  ASSUME TypeOK,
         \/ \E a \in Attempts : \/ ClaimExpired(a) \/ ClaimQueued(a) \/ LeaseExpires(a)
                                \/ HolderStalls(a) \/ BackOffEnds(a)
         \/ RefuseQueued
         \/ \E r \in Runs : Cancel(r)
         \/ \E o \in Owners : JobStarts(o) \/ JobSettles(o)
  PROVE  TypeOK'
<1> USE InputAssumption, BoundAssumption, PolicyAssumption
<1>r. \A a \in Attempts : row[a] \in Rows
  BY DEF TypeOK
<1>1. ASSUME NEW a \in Attempts, ClaimExpired(a) PROVE TypeOK'
  <2> DEFINE r == [row EXCEPT ![a].recoveries = @ + 1, ![a].state = "quarantined",
                              ![a].status = "cleanup_required"]
  <2> DEFINE next == row[a].recoveries + 1
  <2>0. next \in Nat
    BY <1>r DEF Rows
  <2>1. [row[a] EXCEPT !.recoveries = next, !.state = "quarantined",
                       !.status = "cleanup_required"] \in Rows
    <3> HIDE DEF next
    <3> QED BY <1>r, <2>0, ZenonT(60) DEF Rows, RowStates, RowStatuses
  <2>2. r \in [Attempts -> Rows]
    BY <2>1 DEF TypeOK
  <2>3. Acquire(a, r)
    BY <1>1 DEF ClaimExpired
  <2> HIDE DEF r
  <2>4. row' \in [Attempts -> Rows] /\ tasks' \subseteq Tasks
    BY <2>2, <2>3, TypeAcquire, SMTT(60)
  <2> QED BY <1>1, <2>4 DEF ClaimExpired, TypeOK
<1>2. ASSUME NEW a \in Attempts, ClaimQueued(a) PROVE TypeOK'
  <2> DEFINE r == [AfterRefusal EXCEPT ![a].state = "reserved", ![a].status = "running",
                                       ![a].reserved = SessionSeconds]
  <2>1. AfterRefusal \in [Attempts -> Rows]
    BY TypeRefusal
  <2> DEFINE refused == AfterRefusal[a]
  <2>2. [refused EXCEPT !.state = "reserved", !.status = "running",
                        !.reserved = SessionSeconds] \in Rows
    <3>1. refused \in Rows /\ SessionSeconds \in Nat
      BY <2>1
    <3> HIDE DEF refused
    <3> QED BY <3>1 DEF Rows, RowStates, RowStatuses
  <2>3. r \in [Attempts -> Rows]
    BY <2>1, <2>2
  <2>4. Acquire(a, r)
    BY <1>2 DEF ClaimQueued
  <2> HIDE DEF r
  <2>5. row' \in [Attempts -> Rows] /\ tasks' \subseteq Tasks
    BY <2>3, <2>4, TypeAcquire
  <2> QED BY <1>2, <2>5, ZenonT(60) DEF ClaimQueued, TypeOK
<1>3. CASE RefuseQueued
  BY <1>3, TypeRefusal, SMTT(60) DEF RefuseQueued, TypeOK
<1>4. ASSUME NEW r \in Runs, Cancel(r) PROVE TypeOK'
  <2>1. ASSUME NEW a \in Attempts
        PROVE  /\ [row[a] EXCEPT !.cancelled = TRUE, !.state = "settled", !.status = "cancelled",
                                 !.actual = 0] \in Rows
               /\ [row[a] EXCEPT !.cancelled = TRUE] \in Rows
    <3> DEFINE q == row[a]
    <3>1. q \in Rows
      BY <1>r
    <3> HIDE DEF q
    <3>2. [q EXCEPT !.cancelled = TRUE] \in Rows
      BY <3>1 DEF Rows
    <3>3. [q EXCEPT !.cancelled = TRUE, !.state = "settled", !.status = "cancelled",
                    !.actual = 0] \in Rows
      BY <3>1 DEF Rows, RowStates, RowStatuses, FinalStates
    <3> QED BY <3>2, <3>3 DEF q
  <2>2. row' \in [Attempts -> Rows]
    BY <1>4, <2>1, <1>r DEF Cancel
  <2> QED BY <1>4, <2>2 DEF Cancel, TypeOK
<1>5. ASSUME NEW o \in Owners, JobStarts(o) \/ JobSettles(o) PROVE TypeOK'
  <2>1. jobs[o] \in [open : Nat, settled : Nat]
    BY DEF TypeOK
  <2>2. jobs' \in [Owners -> [open : Nat, settled : Nat]]
    BY <1>5, <2>1 DEF JobStarts, JobSettles, TypeOK
  <2> QED BY <1>5, <2>2 DEF JobStarts, JobSettles, TypeOK
<1>6. ASSUME NEW a \in Attempts, LeaseExpires(a) \/ HolderStalls(a) \/ BackOffEnds(a) PROVE TypeOK'
  <2>1. [row[a] EXCEPT !.leaseLive = FALSE] \in Rows /\ [row[a] EXCEPT !.backingOff = FALSE] \in Rows
    BY <1>r, ZenonT(60) DEF Rows
  <2>2. row' \in [Attempts -> Rows]
    BY <1>6, <2>1 DEF LeaseExpires, HolderStalls, BackOffEnds, TypeOK
  <2>3. jobs' = jobs /\ remote' = remote /\ tasks' = tasks /\ faults' \in Nat
    BY <1>6 DEF LeaseExpires, HolderStalls, BackOffEnds, TypeOK
  <2> QED BY <2>2, <2>3 DEF TypeOK
<1> QED BY <1>1, <1>2, <1>3, <1>4, <1>5, <1>6

LEMMA TypeLearns ==
  ASSUME TypeOK, NEW t \in tasks, NEW u \in Tasks, NEW named \in BOOLEAN, Learns(t, named, u)
  PROVE  row' \in [Attempts -> Rows] /\ tasks' \subseteq Tasks
<1>1. t \in Tasks /\ t.attempt \in Attempts /\ row[t.attempt] \in Rows
  BY DEF TypeOK, Tasks
<1>2. u.session \in BOOLEAN /\ row[t.attempt].sessionKnown \in BOOLEAN
  BY <1>1 DEF Tasks, Rows
<1>3. [u EXCEPT !.run = "owned", !.session = u.session \/ named] \in Tasks
  BY <1>2, ZenonT(60) DEF Tasks
<1>4. [row[t.attempt] EXCEPT !.runKnown = TRUE, !.sessionKnown = row[t.attempt].sessionKnown \/ named]
        \in Rows
  BY <1>1, <1>2 DEF Rows
<1>5. row' = [row EXCEPT ![t.attempt] =
        [row[t.attempt] EXCEPT !.runKnown = TRUE,
                               !.sessionKnown = row[t.attempt].sessionKnown \/ named]]
  BY <1>1 DEF Learns, TypeOK
<1>6. tasks' = (tasks \ {t}) \cup {[u EXCEPT !.run = "owned", !.session = u.session \/ named]}
  BY DEF Learns, Becomes
<1> QED BY <1>3, <1>4, <1>5, <1>6 DEF TypeOK

LEMMA TypeRequests ==
  ASSUME TypeOK, NEW t \in tasks,
         \/ Dispatch(t) \/ EndUnallocated(t) \/ Create(t) \/ BeginRecovery(t) \/ Interrupted(t)
         \/ Contradicted(t) \/ FenceThrows(t) \/ LeaseLost(t) \/ GiveUpCleanup(t) \/ Crash(t)
  PROVE  TypeOK'
<1> DEFINE a == t.attempt
<1>1. t \in Tasks /\ a \in Attempts /\ row[a] \in Rows /\ remote[a] \in Remotes
  BY DEF TypeOK, Tasks
<1>2. ASSUME NEW u \in Tasks, Becomes(t, u) PROVE tasks' \subseteq Tasks
  BY <1>2 DEF Becomes, TypeOK
<1>3. CASE Dispatch(t)
  <2>1. [t EXCEPT !.at = "dispatched", !.allocated = TRUE] \in Tasks
    BY <1>1 DEF Tasks, Places
  <2>2. [row[a] EXCEPT !.state = "dispatched", !.dispatched = TRUE] \in Rows
    BY <1>1 DEF Rows, RowStates
  <2>3. row' \in [Attempts -> Rows]
    BY <1>1, <1>3, <2>2 DEF Dispatch, TypeOK
  <2> QED BY <1>2, <1>3, <2>1, <2>3 DEF Dispatch, TypeOK
<1>4. CASE EndUnallocated(t)
  <2>1. PICK error \in {"failed", "cancelled"} :
          Becomes(t, [t EXCEPT !.at = "report", !.closed = TRUE, !.error = error])
    BY <1>4 DEF EndUnallocated
  <2>2. [t EXCEPT !.at = "report", !.closed = TRUE, !.error = error] \in Tasks
    BY <1>1 DEF Tasks, Places
  <2> QED BY <1>2, <1>4, <2>1, <2>2 DEF EndUnallocated, TypeOK
<1>5. CASE Create(t)
  <2>1. [t EXCEPT !.at = "created"] \in Tasks
    BY <1>1 DEF Tasks, Places
  <2> DEFINE requests == remote[a].requests + 1
  <2>2. requests \in Nat
    BY <1>1 DEF Remotes
  <2>3. [remote[a] EXCEPT !.run = "asked", !.requests = requests] \in Remotes
    <3> HIDE DEF requests
    <3> QED BY <1>1, <2>2 DEF Remotes
  <2>4. remote' \in [Attempts -> Remotes]
    BY <1>1, <1>5, <2>3 DEF Create, TypeOK
  <2> QED BY <1>2, <1>5, <2>1, <2>4 DEF Create, TypeOK
<1>6. CASE BeginRecovery(t)
  <2>1. [t EXCEPT !.at = IF t.run = "unknown" THEN "discovering" ELSE "verifying"] \in Tasks
    BY <1>1 DEF Tasks, Places
  <2> QED BY <1>2, <1>6, <2>1 DEF BeginRecovery, TypeOK
<1>7. CASE Interrupted(t)
  <2>1. PICK error \in {"failed", "cancelled"} : Becomes(t, [t EXCEPT !.at = "cleanup", !.error = error])
    BY <1>7 DEF Interrupted
  <2>2. [t EXCEPT !.at = "cleanup", !.error = error] \in Tasks
    BY <1>1 DEF Tasks, Places
  <2> QED BY <1>2, <1>7, <2>1, <2>2 DEF Interrupted, TypeOK
<1>8. CASE Contradicted(t)
  <2>1. [t EXCEPT !.at = "report", !.closed = FALSE, !.seconds = NULL, !.error = "failed"] \in Tasks
    BY <1>1 DEF Tasks, Places
  <2>2. [remote[a] EXCEPT !.run = IF remote[a].run = "running" THEN "failed" ELSE remote[a].run]
          \in Remotes
    BY <1>1 DEF Remotes
  <2>3. remote' \in [Attempts -> Remotes]
    BY <1>1, <1>8, <2>2 DEF Contradicted, StopsRun, TypeOK
  <2> QED BY <1>2, <1>8, <2>1, <2>3 DEF Contradicted, TypeOK
<1>9. CASE FenceThrows(t)
  <2>1. [t EXCEPT !.at = "report", !.error = "failed"] \in Tasks
    BY <1>1 DEF Tasks, Places
  <2>2. faults' \in Nat
    BY <1>9 DEF FenceThrows, TypeOK
  <2> QED BY <1>2, <1>9, <2>1, <2>2 DEF FenceThrows, TypeOK
<1>10. CASE LeaseLost(t)
  BY <1>10 DEF LeaseLost, TypeOK
<1>11. CASE GiveUpCleanup(t)
  <2> DEFINE error == IF ~t.closed /\ t.error = NULL THEN "failed" ELSE t.error
  <2>1. error \in {NULL, "failed", "cancelled"}
    BY <1>1 DEF Tasks
  <2>2. [t EXCEPT !.at = "publish", !.error = error] \in Tasks
    BY <1>1, <2>1, ZenonT(60) DEF Tasks, Places
  <2>3. Becomes(t, [t EXCEPT !.at = "publish", !.error = error])
    BY <1>11 DEF GiveUpCleanup
  <2> QED BY <1>2, <1>11, <2>2, <2>3 DEF GiveUpCleanup, TypeOK
<1>12. CASE Crash(t)
  BY <1>12 DEF Crash, TypeOK
<1> QED BY <1>3, <1>4, <1>5, <1>6, <1>7, <1>8, <1>9, <1>10, <1>11, <1>12

LEMMA TypeReads ==
  ASSUME TypeOK, NEW t \in tasks,
         \/ ReceiveRun(t) \/ PollRun(t) \/ WatchSession(t) \/ Discover(t) \/ Verify(t)
         \/ RequestStop(t) \/ CleanupRun(t)
  PROVE  TypeOK'
<1> DEFINE a == t.attempt
           verdict == Verdict(a)
<1>1. t \in Tasks /\ a \in Attempts /\ row[a] \in Rows /\ remote[a] \in Remotes
  BY DEF TypeOK, Tasks
<1>2. verdict \in {NULL, "completed", "failed"}
  BY DEF Verdict
<1>3. ASSUME NEW u \in Tasks PROVE Proceeds(t, u) \in Tasks
  <2>1. [u EXCEPT !.at = "cleanup", !.error = "cancelled"] \in Tasks
    BY DEF Tasks, Places
  <2> QED BY <2>1 DEF Proceeds
<1>4. ASSUME NEW u \in Tasks, NEW named \in BOOLEAN, Learns(t, named, u), jobs' = jobs,
             remote' \in [Attempts -> Remotes], faults' = faults
      PROVE  TypeOK'
  BY <1>4, TypeLearns DEF TypeOK
<1> HIDE DEF verdict
<1>5. CASE ReceiveRun(t)
  <2>1. Proceeds(t, [t EXCEPT !.at = "polling"]) \in Tasks
    <3>1. [t EXCEPT !.at = "polling"] \in Tasks
      BY <1>1 DEF Tasks, Places
    <3> QED BY <1>3, <3>1
  <2> QED BY <1>4, <1>5, <2>1 DEF ReceiveRun, TypeOK
<1>6. CASE PollRun(t)
  <2>1. Proceeds(t, [t EXCEPT !.at = "watching", !.verified = verdict]) \in Tasks
    <3>1. [t EXCEPT !.at = "watching", !.verified = verdict] \in Tasks
      BY <1>1, <1>2 DEF Tasks, Places
    <3> QED BY <1>3, <3>1
  <2> QED BY <1>4, <1>6, <2>1 DEF PollRun, TypeOK, verdict
<1>7. CASE WatchSession(t)
  <2> DEFINE u == Proceeds(t, [t EXCEPT !.at = IF t.verified # NULL THEN "cleanup" ELSE "polling"])
  <2>1. u \in Tasks
    <3>1. [t EXCEPT !.at = IF t.verified # NULL THEN "cleanup" ELSE "polling"] \in Tasks
      BY <1>1 DEF Tasks, Places
    <3> QED BY <1>3, <3>1
  <2>2. SeesSession(t, u)
    BY <1>7 DEF WatchSession
  <2> HIDE DEF u
  <2>3. ASSUME NEW seconds \in {remote[a].seconds, NULL}
        PROVE  [u EXCEPT !.closed = TRUE, !.seconds = seconds] \in Tasks
    <3>1. seconds \in Nat \cup {NULL}
      BY <1>1 DEF Remotes
    <3> QED BY <2>1, <3>1 DEF Tasks
  <2>4. tasks' \subseteq Tasks
    BY <2>1, <2>2, <2>3 DEF SeesSession, Becomes, TypeOK
  <2> QED BY <1>7, <2>4 DEF WatchSession, TypeOK
<1>8. CASE Discover(t)
  <2> DEFINE u == IF row[a].cancelled THEN [t EXCEPT !.at = "cleanup", !.error = "failed"]
                  ELSE [t EXCEPT !.at = "verifying"]
  <2>1. u \in Tasks
    <3>1. [t EXCEPT !.at = "cleanup", !.error = "failed"] \in Tasks /\ [t EXCEPT !.at = "verifying"] \in Tasks
      BY <1>1 DEF Tasks, Places
    <3> QED BY <3>1
  <2>2. PICK named \in BOOLEAN : Learns(t, named, u)
    BY <1>8 DEF Discover
  <2> HIDE DEF u
  <2> QED BY <1>4, <1>8, <2>1, <2>2 DEF Discover, TypeOK
<1>9. CASE Verify(t)
  <2>1. PICK named \in BOOLEAN, error \in {"failed", "cancelled"} :
          Learns(t, named, [t EXCEPT !.at = "cleanup", !.verified = verdict,
                                     !.error = IF row[a].cancelled THEN "failed"
                                               ELSE IF verdict = NULL THEN error ELSE NULL])
    BY <1>9 DEF Verify, verdict
  <2>2. [t EXCEPT !.at = "cleanup", !.verified = verdict,
                  !.error = IF row[a].cancelled THEN "failed"
                            ELSE IF verdict = NULL THEN error ELSE NULL] \in Tasks
    BY <1>1, <1>2, ZenonT(60) DEF Tasks, Places
  <2> QED BY <1>4, <1>9, <2>1, <2>2 DEF Verify, TypeOK
<1>10. CASE RequestStop(t)
  <2>1. [t EXCEPT !.stopped = TRUE] \in Tasks
    BY <1>1 DEF Tasks
  <2>2. [remote[a] EXCEPT !.run = IF remote[a].run = "running" THEN "failed" ELSE remote[a].run]
          \in Remotes
    BY <1>1 DEF Remotes
  <2>3. remote' \in [Attempts -> Remotes]
    BY <1>1, <1>10, <2>2 DEF RequestStop, StopsRun, TypeOK
  <2> QED BY <1>4, <1>10, <2>1, <2>3 DEF RequestStop, TypeOK
<1>11. CASE CleanupRun(t)
  <2>1. [t EXCEPT !.verified = verdict] \in Tasks
    BY <1>1, <1>2 DEF Tasks
  <2> QED BY <1>4, <1>11, <2>1 DEF CleanupRun, TypeOK, verdict
<1> QED BY <1>5, <1>6, <1>7, <1>8, <1>9, <1>10, <1>11

LEMMA TypeEnds ==
  ASSUME TypeOK, NEW t \in tasks, CleanupSession(t) \/ Publish(t) \/ Finish(t)
  PROVE  TypeOK'
<1> DEFINE a == t.attempt
<1>1. t \in Tasks /\ a \in Attempts /\ row[a] \in Rows /\ remote[a] \in Remotes
  BY DEF TypeOK, Tasks
<1>2. ASSUME NEW u \in Tasks, Becomes(t, u) PROVE tasks' \subseteq Tasks
  BY <1>2 DEF Becomes, TypeOK
<1>3. CASE CleanupSession(t)
  <2>1. ASSUME NEW seconds \in {remote[a].seconds, NULL}
        PROVE  [t EXCEPT !.at = "publish", !.closed = TRUE, !.seconds = seconds] \in Tasks
    <3>1. seconds \in Nat \cup {NULL}
      BY <1>1 DEF Remotes
    <3> QED BY <1>1, <3>1 DEF Tasks, Places
  <2>2. /\ [t EXCEPT !.at = "publish", !.closed = TRUE] \in Tasks
        /\ [t EXCEPT !.released = TRUE] \in Tasks /\ [t EXCEPT !.at = "publish"] \in Tasks
    BY <1>1 DEF Tasks, Places
  <2>3. ASSUME NEW d \in Durations
        PROVE  [remote[a] EXCEPT !.session = "over", !.seconds = d] \in Remotes
    BY <1>1, InputAssumption DEF Remotes
  <2>4. tasks' \subseteq Tasks /\ remote' \in [Attempts -> Remotes]
    <3>1. CASE ~t.session /\ Becomes(t, [t EXCEPT !.at = "publish", !.closed = TRUE]) /\ remote' = remote
      BY <1>2, <2>2, <3>1 DEF TypeOK
    <3>2. CASE SeesSession(t, [t EXCEPT !.at = "publish"]) /\ remote' = remote
      <4>1. ASSUME NEW seconds \in {remote[a].seconds, NULL},
                   Becomes(t, [[t EXCEPT !.at = "publish"] EXCEPT !.closed = TRUE, !.seconds = seconds])
            PROVE  tasks' \subseteq Tasks
        <5>1. [[t EXCEPT !.at = "publish"] EXCEPT !.closed = TRUE, !.seconds = seconds] =
                [t EXCEPT !.at = "publish", !.closed = TRUE, !.seconds = seconds]
          BY <1>1 DEF Tasks
        <5> QED BY <1>2, <2>1, <4>1, <5>1
      <4> QED BY <1>2, <2>2, <3>2, <4>1 DEF SeesSession, TypeOK
    <3>3. CASE /\ Becomes(t, [t EXCEPT !.released = TRUE])
               /\ \/ \E d \in Durations :
                       remote' = [remote EXCEPT ![a].session = "over", ![a].seconds = d]
                  \/ remote' = remote
      <4>1. remote' \in [Attempts -> Remotes]
        BY <1>1, <2>3, <3>3, ZenonT(60) DEF TypeOK
      <4> QED BY <1>2, <2>2, <3>3, <4>1
    <3> QED BY <1>3, <3>1, <3>2, <3>3 DEF CleanupSession
  <2> QED BY <1>3, <2>4 DEF CleanupSession, TypeOK
<1>4. CASE Publish(t)
  <2> DEFINE replay == t.closed /\ t.session
             seen == row[a].replay \/ (replay /\ ~row[a].cancelled)
             error(result) == IF replay /\ row[a].cancelled THEN "failed"
                              ELSE IF t.error = NULL THEN result ELSE t.error
  <2>1. PICK result \in Results(t) : Becomes(t, [t EXCEPT !.at = "report", !.error = error(result)])
    BY <1>4 DEF Publish
  <2>2. result \in {NULL, "failed"}
    BY <2>1 DEF Results
  <2>3. error(result) \in {NULL, "failed", "cancelled"}
    BY <1>1, <2>2 DEF Tasks
  <2>4. [t EXCEPT !.at = "report", !.error = error(result)] \in Tasks
    <3> HIDE DEF error
    <3> QED BY <1>1, <2>3 DEF Tasks, Places
  <2>5. seen \in BOOLEAN
    BY <1>1 DEF Rows, Tasks
  <2>6. [row[a] EXCEPT !.replay = seen] \in Rows
    <3> HIDE DEF seen
    <3> QED BY <1>1, <2>5 DEF Rows
  <2>7. row' = [row EXCEPT ![a] = [row[a] EXCEPT !.replay = seen]]
    BY <1>1, <1>4 DEF Publish, TypeOK
  <2>8. row' \in [Attempts -> Rows]
    <3> HIDE DEF seen
    <3> QED BY <1>1, <2>6, <2>7 DEF TypeOK
  <2>9. tasks' \subseteq Tasks
    <3> HIDE DEF error
    <3> QED BY <1>2, <2>1, <2>4
  <2> QED BY <1>4, <2>8, <2>9 DEF Publish, TypeOK
<1>5. CASE Finish(t)
  <2> DEFINE r == row[a]
             allocated == r.dispatched \/ r.runKnown \/ t.allocated
             actual == IF t.seconds = NULL THEN r.actual ELSE Larger(Known(r.actual), t.seconds)
             consumed == Consumed(t, actual)
             released == Refund(t, consumed)
             measured == IF actual = NULL /\ t.closed /\ ~allocated THEN 0 ELSE actual
             status == Status(t)
             state == IF t.closed THEN "settled" ELSE "quarantined"
             waits == ~t.closed
  <2>1. /\ r.actual \in Nat \cup {NULL} /\ t.seconds \in Nat \cup {NULL} /\ NULL \notin Nat
        /\ r.consumed \in Nat /\ r.reserved \in Nat
    BY <1>1, NullAssumption DEF Rows, Tasks
  <2>2. actual \in Nat \cup {NULL}
    BY <2>1 DEF Larger, Known
  <2>3. measured \in Nat \cup {NULL}
    BY <2>2
  <2>4. consumed \in Nat
    <3> HIDE DEF actual
    <3>1. Known(actual) \in Nat
      BY <2>1, <2>2 DEF Known
    <3> QED BY <2>1, <3>1 DEF Consumed, Larger
  <2>5. released \in Nat
    <3> HIDE DEF consumed
    <3> QED BY <2>1, <2>4 DEF Refund, Larger
  <2>6. status \in RowStatuses
    BY <1>1 DEF Status, RowStatuses, FinalStates, Tasks
  <2>7. state \in RowStates /\ waits \in BOOLEAN
    BY <1>1 DEF RowStates, Tasks
  <2>8. row' = [row EXCEPT ![a] =
                 [r EXCEPT !.state = state, !.status = status, !.actual = measured,
                           !.consumed = consumed, !.released = released,
                           !.leaseLive = FALSE, !.backingOff = waits]]
    BY <1>5 DEF Finish
  <2>9. tasks' = tasks \ {t}
    BY <1>5 DEF Finish
  <2> HIDE DEF measured, consumed, released, status, state, waits
  <2>10. [r EXCEPT !.state = state, !.status = status, !.actual = measured,
                   !.consumed = consumed, !.released = released,
                   !.leaseLive = FALSE, !.backingOff = waits] \in Rows
    BY <1>1, <2>3, <2>4, <2>5, <2>6, <2>7 DEF Rows
  <2>11. row' \in [Attempts -> Rows]
    BY <1>1, <2>8, <2>10 DEF TypeOK
  <2> QED BY <1>5, <2>9, <2>11 DEF Finish, TypeOK
<1> QED BY <1>3, <1>4, <1>5

LEMMA TypeProvider ==
  ASSUME TypeOK, NEW a \in Attempts, ProviderStep(a)
  PROVE  TypeOK'
<1>1. remote[a] \in Remotes
  BY DEF TypeOK
<1>2. remote' \in [Attempts -> Remotes]
  <2>1. CASE ProviderRuns(a)
    <3>1. PICK run \in {"running", "refused"} : remote' = [remote EXCEPT ![a].run = run]
      BY <2>1 DEF ProviderRuns
    <3>2. [remote[a] EXCEPT !.run = run] \in Remotes
      BY <1>1 DEF Remotes
    <3> QED BY <3>1, <3>2 DEF TypeOK
  <2>2. CASE ProviderOpensSession(a)
    <3>1. [remote[a] EXCEPT !.session = "running"] \in Remotes
      BY <1>1 DEF Remotes
    <3> QED BY <2>2, <3>1 DEF ProviderOpensSession, TypeOK
  <2>3. CASE ProviderEndsRun(a)
    <3>1. PICK run \in {"completed", "failed"} : remote' = [remote EXCEPT ![a].run = run]
      BY <2>3 DEF ProviderEndsRun
    <3>2. [remote[a] EXCEPT !.run = run] \in Remotes
      BY <1>1 DEF Remotes
    <3> QED BY <3>1, <3>2 DEF TypeOK
  <2>4. CASE ProviderEndsSession(a)
    <3>1. PICK session \in {"over", "errored"}, d \in Durations :
            remote' = [remote EXCEPT ![a].session = session, ![a].seconds = d]
      BY <2>4 DEF ProviderEndsSession
    <3>2. [remote[a] EXCEPT !.session = session, !.seconds = d] \in Remotes
      BY <1>1, InputAssumption DEF Remotes
    <3> QED BY <3>1, <3>2 DEF TypeOK
  <2> QED BY <2>1, <2>2, <2>3, <2>4 DEF ProviderStep
<1> QED BY <1>2 DEF ProviderStep, ProviderRuns, ProviderOpensSession, ProviderEndsRun,
                    ProviderEndsSession, TypeOK

LEMMA TypeStep ==
  ASSUME TypeOK, [Next]_vars
  PROVE  TypeOK'
<1>1. CASE UNCHANGED vars
  BY <1>1 DEF vars, TypeOK
<1>2. ASSUME NEW t \in tasks, TaskStep(t) \/ Crash(t) PROVE TypeOK'
  BY <1>2, TypeRequests, TypeReads, TypeEnds DEF TaskStep
<1>3. ASSUME NEW a \in Attempts, ProviderStep(a) PROVE TypeOK'
  BY <1>3, TypeProvider
<1> QED BY <1>1, <1>2, <1>3, TypeClaims DEF Next
-----------------------------------------------------------------------------
(* What an attempt's row says, against what its agent run has come to.     *)
Open(r) == r.state \in {"reserved", "dispatched", "quarantined"}
MayStillRun(m) == m.run \in {"asked", "running"} \/ m.session = "running"

RowFits(r, m) ==
  /\ r.state = "queued" => r.generation = 0
  /\ Open(r) => r.generation > 0
  /\ r.leaseLive => Open(r)
  /\ r.dispatched => r.generation > 0
  /\ r.status = "completed" =>
       r.state = "settled" /\ ~r.cancelled /\ m.run = "completed" /\ m.session = "over"
  /\ m.session # "none" => m.run \in {"running", "completed", "failed"}
  /\ m.run # "none" => r.dispatched
  /\ r.sessionKnown => m.session # "none"
  /\ MayStillRun(m) => r.state # "settled"

(* What an execution believes, against the row and the run.  One that      *)
(* holds no allocation has not been overtaken by a dispatch, one that is   *)
(* about to create has created nothing, a verdict is the run's own, and a  *)
(* closed execution has seen everything end.                               *)
TaskFits(t, r, m) ==
  /\ 1 <= t.generation /\ t.generation <= r.generation
  /\ ~t.allocated => t.at \in {"start", "report"}
  /\ ~t.allocated /\ t.generation = r.generation => ~r.dispatched
  /\ t.at = "dispatched" => t.generation = 1 /\ t.allocated /\ r.dispatched /\ m.run = "none"
  /\ t.session => m.session # "none"
  /\ t.verified # NULL => m.run = t.verified /\ (m.session # "none" => t.session)
  /\ t.closed => \/ t.at = "report" /\ ~t.allocated
                 \/ t.verified # NULL /\ (t.session => m.session = "over")
  /\ t.at = "report" /\ t.error = NULL => t.allocated /\ t.verified = "completed" /\ t.session

RowsFit == \A a \in Attempts : RowFits(row[a], remote[a])
TasksFit == \A t \in tasks : TaskFits(t, row[t.attempt], remote[t.attempt])
OneTaskPerLease ==
  \A t, u \in tasks : t.attempt = u.attempt /\ t.generation = u.generation => t = u

AttemptInvariant == TypeOK /\ RowsFit /\ TasksFit /\ OneTaskPerLease

(* The provider moves on without a new request: what has ended stays so,   *)
(* and a session opens under a run that runs.                              *)
Follows(m, n) ==
  /\ m.run = "none" <=> n.run = "none"
  /\ m.run \in {"refused", "completed", "failed"} => n.run = m.run
  /\ n.session # "none" => n.run \in {"running", "completed", "failed"}
  /\ m.session # "none" => n.session # "none"
  /\ m.session = "over" => n.session = "over"
  /\ n.session # "none" /\ m.session = "none" => m.run = "running"
  /\ MayStillRun(n) => MayStillRun(m)

LEMMA FollowsItself == ASSUME NEW r, NEW m, RowFits(r, m) PROVE Follows(m, m)
  BY DEF Follows, RowFits

LEMMA RowFollows ==
  ASSUME NEW r, NEW m, NEW n, RowFits(r, m), Follows(m, n)
  PROVE  RowFits(r, n)
<1>1. r.status = "completed" => n.run = "completed" /\ n.session = "over"
  BY DEF RowFits, Follows
<1>2. n.run # "none" => r.dispatched
  BY DEF RowFits, Follows
<1>3. r.sessionKnown => n.session # "none"
  BY DEF RowFits, Follows
<1>4. MayStillRun(n) => r.state # "settled"
  BY DEF RowFits, Follows
<1> QED BY <1>1, <1>2, <1>3, <1>4 DEF RowFits, Follows

(* An execution that did not move fits the provider's step, and a row of   *)
(* no other dispatch and a lease at least as late.                         *)
LEMMA TaskFollows ==
  ASSUME NEW t \in Tasks, NEW r \in Rows, NEW q \in Rows, NEW m, NEW n,
         TaskFits(t, r, m), Follows(m, n), q.dispatched = r.dispatched, r.generation <= q.generation
  PROVE  TaskFits(t, q, n)
<1>1. t.generation \in Nat /\ r.generation \in Nat /\ q.generation \in Nat
  BY DEF Tasks, Rows
<1>2. 1 <= t.generation /\ t.generation <= q.generation
  BY <1>1 DEF TaskFits
<1>3. ~t.allocated /\ t.generation = q.generation => ~q.dispatched
  BY <1>1 DEF TaskFits
<1>4. t.verified # NULL => n.run = t.verified /\ (n.session # "none" => t.session)
  <2> SUFFICES ASSUME t.verified # NULL
               PROVE  n.run = t.verified /\ (n.session # "none" => t.session)
    OBVIOUS
  <2>1. t.verified \in {"completed", "failed"} /\ m.run = t.verified
    BY DEF TaskFits, Tasks
  <2> QED BY <2>1 DEF TaskFits, Follows
<1>5. t.at = "dispatched" => t.generation = 1 /\ t.allocated /\ q.dispatched /\ n.run = "none"
  BY DEF TaskFits, Follows
<1>6. t.session => n.session # "none"
  BY DEF TaskFits, Follows
<1>7. t.closed => \/ t.at = "report" /\ ~t.allocated
                  \/ t.verified # NULL /\ (t.session => n.session = "over")
  BY DEF TaskFits, Follows
<1> QED BY <1>2, <1>3, <1>4, <1>5, <1>6, <1>7 DEF TaskFits

(* One execution takes the place of another of the same lease, and the     *)
(* others fit as before.                                                   *)
LEMMA TaskReplaced ==
  ASSUME AttemptInvariant, NEW t \in tasks, NEW u, row' \in [Attempts -> Rows],
         \A a \in Attempts : Follows(remote[a], remote'[a]),
         \A a \in Attempts : /\ row'[a].dispatched = row[a].dispatched
                             /\ row'[a].generation = row[a].generation,
         tasks' \subseteq (tasks \ {t}) \cup {u},
         u.attempt = t.attempt, u.generation = t.generation,
         TaskFits(u, row'[t.attempt], remote'[t.attempt])
  PROVE  TasksFit' /\ OneTaskPerLease'
<1>1. ASSUME NEW v \in tasks' PROVE TaskFits(v, row'[v.attempt], remote'[v.attempt])
  <2>1. CASE v = u
    BY <2>1
  <2>2. CASE v \in tasks
    <3>1. v \in Tasks /\ v.attempt \in Attempts
      BY <2>2 DEF AttemptInvariant, TypeOK, Tasks
    <3>2. row[v.attempt] \in Rows /\ row'[v.attempt] \in Rows
      BY <3>1 DEF AttemptInvariant, TypeOK
    <3>3. row[v.attempt].generation \in Nat
      BY <3>2 DEF Rows
    <3>4. TaskFits(v, row[v.attempt], remote[v.attempt])
      BY <2>2 DEF AttemptInvariant, TasksFit
    <3>5. row[v.attempt].generation <= row'[v.attempt].generation
      BY <3>1, <3>3
    <3>6. Follows(remote[v.attempt], remote'[v.attempt])
          /\ row'[v.attempt].dispatched = row[v.attempt].dispatched
      BY <3>1
    <3> QED BY <3>1, <3>2, <3>4, <3>5, <3>6, TaskFollows
  <2> QED BY <2>1, <2>2
<1>2. OneTaskPerLease'
  BY DEF OneTaskPerLease, AttemptInvariant
<1> QED BY <1>1, <1>2 DEF TasksFit

(* No execution moves.                                                     *)
LEMMA TasksStay ==
  ASSUME AttemptInvariant, row' \in [Attempts -> Rows],
         \A a \in Attempts : Follows(remote[a], remote'[a]),
         \A a \in Attempts : /\ row'[a].dispatched = row[a].dispatched
                             /\ row'[a].generation = row[a].generation,
         tasks' \subseteq tasks
  PROVE  TasksFit' /\ OneTaskPerLease'
<1>1. ASSUME NEW v \in tasks' PROVE TaskFits(v, row'[v.attempt], remote'[v.attempt])
  <2>1. v \in Tasks /\ v.attempt \in Attempts
    BY DEF AttemptInvariant, TypeOK, Tasks
  <2>2. row[v.attempt] \in Rows /\ row'[v.attempt] \in Rows
    BY <2>1 DEF AttemptInvariant, TypeOK
  <2>3. row[v.attempt].generation \in Nat
    BY <2>2 DEF Rows
  <2>4. TaskFits(v, row[v.attempt], remote[v.attempt])
    BY DEF AttemptInvariant, TasksFit
  <2>5. row[v.attempt].generation <= row'[v.attempt].generation
    BY <2>1, <2>3
  <2>6. Follows(remote[v.attempt], remote'[v.attempt])
        /\ row'[v.attempt].dispatched = row[v.attempt].dispatched
    BY <2>1
  <2> QED BY <2>1, <2>2, <2>4, <2>5, <2>6, TaskFollows
<1>2. OneTaskPerLease'
  BY DEF OneTaskPerLease, AttemptInvariant
<1> QED BY <1>1, <1>2 DEF TasksFit

LEMMA InvariantInit == Init => AttemptInvariant
<1> SUFFICES ASSUME Init PROVE AttemptInvariant
  OBVIOUS
<1>1. RowsFit
  BY DEF Init, RowsFit, RowFits, Open, MayStillRun
<1>2. TasksFit /\ OneTaskPerLease
  BY DEF Init, TasksFit, OneTaskPerLease
<1> QED BY <1>1, <1>2, TypeInit DEF AttemptInvariant

LEMMA ProviderFollows ==
  ASSUME AttemptInvariant, NEW a \in Attempts,
         \/ ProviderStep(a) \/ StopsRun(a) \/ remote' = remote
         \/ /\ remote[a].session = "running"
            /\ \E d \in Durations :
                 remote' = [remote EXCEPT ![a].session = "over", ![a].seconds = d]
  PROVE  \A b \in Attempts : Follows(remote[b], remote'[b])
<1>1. \A b \in Attempts : RowFits(row[b], remote[b]) /\ remote[b] \in Remotes
  BY DEF AttemptInvariant, RowsFit, TypeOK
<1>2. \A b \in Attempts : Follows(remote[b], remote[b])
  BY <1>1, FollowsItself
<1>3. remote \in [Attempts -> Remotes]
  BY DEF AttemptInvariant, TypeOK
<1>4. ASSUME NEW n, remote' = [remote EXCEPT ![a] = n], Follows(remote[a], n)
      PROVE  \A b \in Attempts : Follows(remote[b], remote'[b])
  BY <1>2, <1>3, <1>4
<1> DEFINE m == remote[a]
<1>5. m \in Remotes /\ RowFits(row[a], m)
  BY <1>1
<1>6. CASE ProviderRuns(a)
  <2>1. PICK run \in {"running", "refused"} : remote' = [remote EXCEPT ![a] = [m EXCEPT !.run = run]]
    BY <1>6 DEF ProviderRuns
  <2>2. Follows(m, [m EXCEPT !.run = run])
    <3>1. m.run = "asked"
      BY <1>6 DEF ProviderRuns
    <3> QED BY <1>5, <3>1 DEF Follows, RowFits, Remotes, MayStillRun
  <2> QED BY <1>4, <2>1, <2>2
<1>7. CASE ProviderOpensSession(a)
  <2>1. remote' = [remote EXCEPT ![a] = [m EXCEPT !.session = "running"]]
    BY <1>7 DEF ProviderOpensSession
  <2>2. Follows(m, [m EXCEPT !.session = "running"])
    <3>1. m.run = "running" /\ m.session = "none"
      BY <1>7 DEF ProviderOpensSession
    <3> QED BY <1>5, <3>1 DEF Follows, Remotes, MayStillRun
  <2> QED BY <1>4, <2>1, <2>2
<1>8. CASE ProviderEndsRun(a)
  <2>1. PICK run \in {"completed", "failed"} : remote' = [remote EXCEPT ![a] = [m EXCEPT !.run = run]]
    BY <1>8 DEF ProviderEndsRun
  <2>2. Follows(m, [m EXCEPT !.run = run])
    <3>1. m.run = "running"
      BY <1>8 DEF ProviderEndsRun
    <3> QED BY <1>5, <3>1 DEF Follows, RowFits, Remotes, MayStillRun
  <2> QED BY <1>4, <2>1, <2>2
<1>9. ASSUME m.session = "running",
             \E s \in {"over", "errored"}, d \in Durations :
               remote' = [remote EXCEPT ![a].session = s, ![a].seconds = d]
      PROVE  \A b \in Attempts : Follows(remote[b], remote'[b])
  <2>1. PICK s \in {"over", "errored"}, d \in Durations :
          remote' = [remote EXCEPT ![a].session = s, ![a].seconds = d]
    BY <1>9, Zenon
  <2>2. remote' = [remote EXCEPT ![a] = [m EXCEPT !.session = s, !.seconds = d]]
    BY <2>1, Zenon
  <2>3. Follows(m, [m EXCEPT !.session = s, !.seconds = d])
    BY <1>5, <1>9 DEF Follows, RowFits, Remotes, MayStillRun
  <2> QED BY <1>4, <2>2, <2>3
<1>10. CASE StopsRun(a)
  <2> DEFINE run == IF m.run = "running" THEN "failed" ELSE m.run
  <2>1. remote' = [remote EXCEPT ![a] = [m EXCEPT !.run = run]]
    BY <1>10 DEF StopsRun
  <2>2. Follows(m, [m EXCEPT !.run = run])
    BY <1>5 DEF Follows, RowFits, Remotes, MayStillRun
  <2> QED BY <1>4, <2>1, <2>2
<1> QED BY <1>2, <1>6, <1>7, <1>8, <1>9, <1>10 DEF ProviderStep, ProviderEndsSession

LEMMA RowsFollow ==
  ASSUME AttemptInvariant, \A b \in Attempts : Follows(remote[b], remote'[b]), row' = row
  PROVE  RowsFit'
  BY RowFollows DEF AttemptInvariant, RowsFit

(* The provider's own steps.                                               *)
LEMMA InvariantProvider ==
  ASSUME AttemptInvariant, NEW a \in Attempts, ProviderStep(a)
  PROVE  AttemptInvariant'
<1>1. \A b \in Attempts : Follows(remote[b], remote'[b])
  BY ProviderFollows
<1>2. row' = row /\ tasks' = tasks
  BY DEF ProviderStep, ProviderRuns, ProviderOpensSession, ProviderEndsRun, ProviderEndsSession
<1>3. TypeOK /\ TypeOK'
  BY TypeProvider DEF AttemptInvariant
<1>4. row' \in [Attempts -> Rows]
  BY <1>3 DEF TypeOK
<1> QED BY <1>1, <1>2, <1>3, <1>4, RowsFollow, TasksStay DEF AttemptInvariant

(* The steps of an execution that leave the row alone.                     *)
LEMMA InvariantUnsaved ==
  ASSUME AttemptInvariant, NEW t \in tasks,
         \/ EndUnallocated(t) \/ BeginRecovery(t) \/ Interrupted(t) \/ Contradicted(t)
         \/ FenceThrows(t) \/ LeaseLost(t) \/ GiveUpCleanup(t) \/ Crash(t)
  PROVE  AttemptInvariant'
<1> DEFINE a == t.attempt
<1>1. TypeOK /\ TypeOK'
  BY TypeRequests DEF AttemptInvariant
<1>2. t \in Tasks /\ a \in Attempts /\ row' \in [Attempts -> Rows]
  BY <1>1 DEF TypeOK, Tasks
<1>3. row' = row
  BY DEF EndUnallocated, BeginRecovery, Interrupted, Contradicted, FenceThrows, LeaseLost,
         GiveUpCleanup, Crash
<1>4. \A b \in Attempts : Follows(remote[b], remote'[b])
  <2>1. StopsRun(a) \/ remote' = remote
    BY DEF EndUnallocated, BeginRecovery, Interrupted, Contradicted, FenceThrows, LeaseLost,
           GiveUpCleanup, Crash
  <2> QED BY <1>2, <2>1, ProviderFollows
<1>5. RowsFit'
  BY <1>3, <1>4, RowsFollow
<1>6. TaskFits(t, row'[a], remote'[a])
  <2>1. row[a] \in Rows /\ row[a].generation \in Nat /\ TaskFits(t, row[a], remote[a])
    BY <1>1, <1>2 DEF AttemptInvariant, TasksFit, TypeOK, Rows
  <2>2. row[a].generation <= row[a].generation
    BY <2>1
  <2> QED BY <1>2, <1>3, <1>4, <2>1, <2>2, TaskFollows
<1>7. ASSUME NEW u, Becomes(t, u), u.attempt = a, u.generation = t.generation,
             TaskFits(u, row'[a], remote'[a])
      PROVE  TasksFit' /\ OneTaskPerLease'
  BY <1>2, <1>3, <1>4, <1>7, TaskReplaced DEF Becomes
<1>8. TasksFit' /\ OneTaskPerLease'
  <2>1. CASE EndUnallocated(t)
    <3>1. PICK error \in {"failed", "cancelled"} :
            Becomes(t, [t EXCEPT !.at = "report", !.closed = TRUE, !.error = error])
      BY <2>1 DEF EndUnallocated
    <3>2. ~t.allocated
      BY <2>1 DEF EndUnallocated
    <3>3. error # NULL
      BY NullAssumption, <3>1 DEF FinalStates
    <3>4. TaskFits([t EXCEPT !.at = "report", !.closed = TRUE, !.error = error], row'[a], remote'[a])
      BY <1>2, <1>6, <3>2, <3>3 DEF TaskFits, Tasks
    <3> QED BY <1>2, <1>7, <3>1, <3>4 DEF Tasks
  <2>2. CASE BeginRecovery(t)
    <3> DEFINE place == IF t.run = "unknown" THEN "discovering" ELSE "verifying"
    <3>1. Becomes(t, [t EXCEPT !.at = place]) /\ t.allocated
      BY <2>2 DEF BeginRecovery
    <3>2. TaskFits([t EXCEPT !.at = place], row'[a], remote'[a])
      BY <1>2, <1>6, <3>1 DEF TaskFits, Tasks
    <3> QED BY <1>2, <1>7, <3>1, <3>2 DEF Tasks
  <2>3. CASE Interrupted(t)
    <3>1. PICK error \in {"failed", "cancelled"} :
            Becomes(t, [t EXCEPT !.at = "cleanup", !.error = error])
      BY <2>3 DEF Interrupted
    <3>2. t.at \notin {"start", "report"}
      BY <2>3 DEF Interrupted
    <3>3. TaskFits([t EXCEPT !.at = "cleanup", !.error = error], row'[a], remote'[a])
      BY <1>2, <1>6, <3>2 DEF TaskFits, Tasks
    <3> QED BY <1>2, <1>7, <3>1, <3>3 DEF Tasks
  <2>4. CASE Contradicted(t)
    <3> DEFINE u == [t EXCEPT !.at = "report", !.closed = FALSE, !.seconds = NULL, !.error = "failed"]
    <3>1. Becomes(t, u)
      BY <2>4 DEF Contradicted
    <3>2. TaskFits(u, row'[a], remote'[a])
      BY <1>2, <1>6, NullAssumption DEF TaskFits, Tasks, FinalStates
    <3> QED BY <1>2, <1>7, <3>1, <3>2 DEF Tasks
  <2>5. CASE FenceThrows(t)
    <3>1. Becomes(t, [t EXCEPT !.at = "report", !.error = "failed"])
      BY <2>5 DEF FenceThrows
    <3>2. TaskFits([t EXCEPT !.at = "report", !.error = "failed"], row'[a], remote'[a])
      BY <1>2, <1>6, NullAssumption DEF TaskFits, Tasks, FinalStates
    <3> QED BY <1>2, <1>7, <3>1, <3>2 DEF Tasks
  <2>6. CASE LeaseLost(t) \/ Crash(t)
    <3>1. tasks' \subseteq tasks
      BY <2>6 DEF LeaseLost, Crash
    <3> QED BY <1>2, <1>3, <1>4, <3>1, TasksStay
  <2>7. CASE GiveUpCleanup(t)
    <3> DEFINE error == IF ~t.closed /\ t.error = NULL THEN "failed" ELSE t.error
    <3>1. Becomes(t, [t EXCEPT !.at = "publish", !.error = error]) /\ t.at = "cleanup"
      BY <2>7 DEF GiveUpCleanup
    <3>2. TaskFits([t EXCEPT !.at = "publish", !.error = error], row'[a], remote'[a])
      <4> HIDE DEF error
      <4> QED BY <1>2, <1>6, <3>1 DEF TaskFits, Tasks
    <3> HIDE DEF error
    <3> QED BY <1>2, <1>7, <3>1, <3>2 DEF Tasks
  <2> QED BY <2>1, <2>2, <2>3, <2>4, <2>5, <2>6, <2>7
<1> QED BY <1>1, <1>5, <1>8 DEF AttemptInvariant

LEMMA InvariantDispatch ==
  ASSUME AttemptInvariant, NEW t \in tasks, Dispatch(t)
  PROVE  AttemptInvariant'
<1> DEFINE a == t.attempt
           q == [row[a] EXCEPT !.state = "dispatched", !.dispatched = TRUE]
           u == [t EXCEPT !.at = "dispatched", !.allocated = TRUE]
<1>1. TypeOK /\ TypeOK'
  BY TypeRequests DEF AttemptInvariant
<1>2. t \in Tasks /\ a \in Attempts /\ row[a] \in Rows
  BY <1>1 DEF TypeOK, Tasks
<1>3. row' = [row EXCEPT ![a] = q] /\ row'[a] = q /\ remote' = remote
  BY <1>1, <1>2 DEF Dispatch, TypeOK
<1>4. RowFits(row[a], remote[a]) /\ TaskFits(t, row[a], remote[a])
  BY <1>2 DEF AttemptInvariant, RowsFit, TasksFit
<1>5. /\ ~row[a].dispatched /\ ~row[a].cancelled /\ row[a].state = "reserved" /\ row[a].leaseLive
      /\ row[a].generation = t.generation /\ t.generation = 1 /\ ~t.allocated
  BY DEF Dispatch, MayDispatch, Holds
<1>6. remote[a].run = "none" /\ remote[a].session = "none"
  BY <1>4, <1>5 DEF RowFits
<1>7. RowFits(q, remote[a])
  BY <1>2, <1>4, <1>5, <1>6 DEF RowFits, Open, MayStillRun, Rows
<1>8. RowsFit'
  BY <1>3, <1>7 DEF RowsFit, AttemptInvariant
<1>9. TaskFits(u, q, remote[a])
  <2>1. t.verified = NULL /\ ~t.session /\ ~t.closed
    <3>1. t.verified = NULL
      BY <1>2, <1>4, <1>6 DEF TaskFits, Tasks
    <3>2. t.at # "report"
      BY DEF Dispatch
    <3> QED BY <1>2, <1>4, <1>6, <3>1, <3>2 DEF TaskFits, Tasks
  <2>2. /\ u.generation = t.generation /\ u.at = "dispatched" /\ u.allocated = TRUE
        /\ u.session = t.session /\ u.verified = t.verified /\ u.closed = t.closed
    BY <1>2 DEF Tasks
  <2>3. q.generation = row[a].generation /\ q.dispatched = TRUE
    BY <1>2 DEF Rows
  <2> HIDE DEF u, q
  <2> QED BY <1>4, <1>5, <1>6, <2>1, <2>2, <2>3 DEF TaskFits
<1>10. ASSUME NEW v \in tasks, v # t PROVE TaskFits(v, row'[v.attempt], remote[v.attempt])
  <2>1. TaskFits(v, row[v.attempt], remote[v.attempt]) /\ v \in Tasks
    BY <1>1 DEF AttemptInvariant, TasksFit, TypeOK
  <2>2. CASE v.attempt = a
    <3>1. v.generation # t.generation
      BY <1>10, <2>2 DEF AttemptInvariant, OneTaskPerLease
    <3>2. v.generation \in Nat /\ v.allocated \in BOOLEAN
      BY <2>1 DEF Tasks
    <3>3. v.allocated
      BY <1>5, <2>1, <2>2, <3>1, <3>2 DEF TaskFits
    <3> QED BY <1>2, <1>3, <2>1, <2>2, <3>1, <1>5 DEF TaskFits, Rows
  <2>3. CASE v.attempt # a
    <3>1. v.attempt \in Attempts
      BY <2>1 DEF Tasks
    <3>2. row'[v.attempt] = row[v.attempt]
      BY <1>1, <1>3, <2>3, <3>1 DEF TypeOK
    <3> QED BY <2>1, <3>2
  <2> QED BY <2>2, <2>3
<1>11. tasks' = (tasks \ {t}) \cup {u} /\ u.attempt = a /\ u.generation = t.generation
  BY <1>2 DEF Dispatch, Becomes, Tasks
<1> HIDE DEF u
<1>12. TasksFit'
  BY <1>3, <1>9, <1>10, <1>11 DEF TasksFit
<1>13. OneTaskPerLease'
  BY <1>11 DEF OneTaskPerLease, AttemptInvariant
<1> QED BY <1>1, <1>8, <1>12, <1>13 DEF AttemptInvariant

LEMMA InvariantCreate ==
  ASSUME AttemptInvariant, NEW t \in tasks, Create(t)
  PROVE  AttemptInvariant'
<1> DEFINE a == t.attempt
           requests == remote[a].requests + 1
           n == [remote[a] EXCEPT !.run = "asked", !.requests = requests]
           u == [t EXCEPT !.at = "created"]
<1>1. TypeOK /\ TypeOK'
  BY TypeRequests DEF AttemptInvariant
<1>2. t \in Tasks /\ a \in Attempts /\ row[a] \in Rows /\ remote[a] \in Remotes
  BY <1>1 DEF TypeOK, Tasks
<1>3. row' = row /\ remote' = [remote EXCEPT ![a] = n] /\ remote'[a] = n
  BY <1>1, <1>2 DEF Create, TypeOK
<1>4. RowFits(row[a], remote[a]) /\ TaskFits(t, row[a], remote[a])
  BY <1>2 DEF AttemptInvariant, RowsFit, TasksFit
<1>5. /\ row[a].leaseLive /\ row[a].generation = t.generation /\ t.at = "dispatched"
      /\ row[a].dispatched /\ t.generation = 1 /\ t.allocated
  BY <1>4 DEF Create, Holds, TaskFits
<1>6. remote[a].run = "none" /\ remote[a].session = "none"
  BY <1>4, <1>5 DEF TaskFits, RowFits
<1>7. t.verified = NULL /\ ~t.session /\ ~t.closed
  BY <1>2, <1>4, <1>5, <1>6, NullAssumption DEF TaskFits, Tasks
<1> HIDE DEF requests
<1>8. RowFits(row[a], n)
  BY <1>2, <1>4, <1>5, <1>6 DEF RowFits, Open, MayStillRun, Remotes, Rows
<1>9. RowsFit'
  BY <1>1, <1>3, <1>8 DEF RowsFit, AttemptInvariant, TypeOK
<1>10. TaskFits(u, row[a], n)
  BY <1>2, <1>4, <1>5, <1>7 DEF TaskFits, Tasks
<1>11. ASSUME NEW v \in tasks, v # t PROVE TaskFits(v, row[v.attempt], remote'[v.attempt])
  <2>1. TaskFits(v, row[v.attempt], remote[v.attempt]) /\ v \in Tasks
    BY <1>1 DEF AttemptInvariant, TasksFit, TypeOK
  <2>2. CASE v.attempt = a
    <3>1. v.generation # t.generation
      BY <1>11, <2>2 DEF AttemptInvariant, OneTaskPerLease
    <3>2. v.at # "dispatched" /\ v.verified = NULL /\ ~v.session
      BY <1>5, <1>6, <2>1, <2>2, <3>1 DEF TaskFits, Tasks
    <3>3. n.session = "none"
      BY <1>2, <1>6 DEF Remotes
    <3> QED BY <1>3, <2>1, <2>2, <3>2, <3>3 DEF TaskFits
  <2>3. CASE v.attempt # a
    <3>1. v.attempt \in Attempts
      BY <2>1 DEF Tasks
    <3>2. remote'[v.attempt] = remote[v.attempt]
      BY <1>1, <1>3, <2>3, <3>1 DEF TypeOK
    <3> QED BY <2>1, <3>2
  <2> QED BY <2>2, <2>3
<1>12. tasks' = (tasks \ {t}) \cup {u} /\ u.attempt = a /\ u.generation = t.generation
  BY <1>2 DEF Create, Becomes, Tasks
<1> HIDE DEF u
<1>13. TasksFit'
  BY <1>3, <1>10, <1>11, <1>12 DEF TasksFit
<1>14. OneTaskPerLease'
  BY <1>12 DEF OneTaskPerLease, AttemptInvariant
<1> QED BY <1>1, <1>9, <1>13, <1>14 DEF AttemptInvariant

(* The reads of the run: what is learnt of it is saved and believed.       *)
LEMMA LearnsFits ==
  ASSUME AttemptInvariant, TypeOK', NEW t \in tasks, NEW u \in Tasks, NEW named \in BOOLEAN,
         Learns(t, named, u),
         \A b \in Attempts : Follows(remote[b], remote'[b]),
         u.attempt = t.attempt, u.generation = t.generation, u.session = t.session,
         u.allocated = t.allocated, t.allocated, u.at \notin {"dispatched", "report"},
         u.closed = t.closed,
         u.verified = t.verified \/ (t.verified = NULL /\ u.verified = remote[t.attempt].run)
  PROVE  AttemptInvariant'
<1> DEFINE a == t.attempt
           known == row[a].sessionKnown \/ named
           q == [row[a] EXCEPT !.runKnown = TRUE, !.sessionKnown = known]
           session == u.session \/ named
           v == [u EXCEPT !.run = "owned", !.session = session]
<1>1. t \in Tasks /\ a \in Attempts /\ row[a] \in Rows /\ remote[a] \in Remotes
  BY DEF AttemptInvariant, TypeOK, Tasks
<1>2. row \in [Attempts -> Rows] /\ row' \in [Attempts -> Rows]
  BY DEF AttemptInvariant, TypeOK
<1>3. row' = [row EXCEPT ![a] = q] /\ row'[a] = q
  BY <1>1, <1>2 DEF Learns
<1>4. tasks' = (tasks \ {t}) \cup {v}
  BY DEF Learns, Becomes
<1>5. RowFits(row[a], remote[a]) /\ TaskFits(t, row[a], remote[a]) /\ Follows(remote[a], remote'[a])
  BY <1>1 DEF AttemptInvariant, RowsFit, TasksFit
<1>6. /\ named => remote[a].session # "none"
      /\ u.verified # NULL => (remote[a].session # "none" => named)
  BY DEF Learns
<1>7. RowFits(q, remote[a])
  BY <1>1, <1>5, <1>6 DEF RowFits, Open, Rows
<1>8. RowsFit'
  <2>1. \A b \in Attempts : RowFits(row'[b], remote[b])
    BY <1>2, <1>3, <1>7 DEF RowsFit, AttemptInvariant
  <2> QED BY <2>1, RowFollows DEF RowsFit
<1>9. TaskFits(v, q, remote[a])
  <2>1. /\ v.generation = t.generation /\ v.allocated /\ v.at \notin {"dispatched", "report"}
        /\ v.session = session /\ v.verified = u.verified /\ v.closed = t.closed
    BY DEF Tasks
  <2>2. q.generation = row[a].generation /\ q.dispatched = row[a].dispatched
    BY <1>1 DEF Rows
  <2>3. session => remote[a].session # "none"
    BY <1>5, <1>6 DEF TaskFits
  <2>4. v.verified # NULL => remote[a].run = v.verified /\ (remote[a].session # "none" => session)
    BY <1>5, <1>6, <2>1 DEF TaskFits
  <2>5. t.closed => v.verified # NULL /\ (session => remote[a].session = "over")
    <3> SUFFICES ASSUME t.closed PROVE v.verified # NULL /\ (session => remote[a].session = "over")
      OBVIOUS
    <3>1. t.verified # NULL /\ (t.session => remote[a].session = "over")
      BY <1>5 DEF TaskFits
    <3>2. v.verified # NULL
      BY <2>1, <3>1
    <3>3. remote[a].session # "none" => t.session
      BY <1>5, <3>1 DEF TaskFits
    <3> QED BY <2>3, <3>1, <3>2, <3>3
  <2> HIDE DEF v, q, session
  <2> QED BY <1>5, <2>1, <2>2, <2>3, <2>4, <2>5 DEF TaskFits
<1>10. v \in Tasks /\ q \in Rows
  <2>1. v \in tasks'
    BY <1>4
  <2> QED BY <1>1, <1>2, <1>3, <2>1 DEF TypeOK
<1>11. TaskFits(v, q, remote'[a])
  <2>1. q.generation \in Nat
    BY <1>10 DEF Rows
  <2>2. q.generation <= q.generation
    BY <2>1
  <2>3. q.dispatched = q.dispatched /\ Follows(remote[a], remote'[a])
    BY <1>5
  <2> HIDE DEF v, q
  <2> QED BY <1>9, <1>10, <2>2, <2>3, TaskFollows
<1>12. v.attempt = a /\ v.generation = t.generation
  BY DEF Tasks
<1>13. \A b \in Attempts : /\ row'[b].dispatched = row[b].dispatched
                           /\ row'[b].generation = row[b].generation
  BY <1>1, <1>2, <1>3 DEF Rows
<1> HIDE DEF v, q
<1>14. TasksFit' /\ OneTaskPerLease'
  BY <1>2, <1>3, <1>4, <1>11, <1>12, <1>13, TaskReplaced
<1> QED BY <1>8, <1>14 DEF AttemptInvariant

LEMMA InvariantReads ==
  ASSUME AttemptInvariant, NEW t \in tasks,
         \/ ReceiveRun(t) \/ PollRun(t) \/ Discover(t) \/ Verify(t) \/ RequestStop(t)
         \/ CleanupRun(t)
  PROVE  AttemptInvariant'
<1> DEFINE a == t.attempt
           verdict == Verdict(a)
<1>1. TypeOK /\ TypeOK'
  BY TypeReads DEF AttemptInvariant
<1>2. t \in Tasks /\ a \in Attempts /\ TaskFits(t, row[a], remote[a])
  BY <1>1 DEF AttemptInvariant, TasksFit, TypeOK, Tasks
<1>3. t.allocated
  BY <1>2 DEF ReceiveRun, PollRun, Discover, Verify, RequestStop, CleanupRun, TaskFits
<1>4. verdict \in {NULL, "completed", "failed"}
      /\ (verdict = t.verified \/ (t.verified = NULL /\ verdict = remote[a].run))
  <2>1. t.verified # NULL => remote[a].run = t.verified /\ t.verified \in {"completed", "failed"}
    BY <1>2 DEF TaskFits, Tasks
  <2> QED BY <2>1 DEF Verdict
<1>5. \A b \in Attempts : Follows(remote[b], remote'[b])
  <2>1. StopsRun(a) \/ remote' = remote
    BY DEF ReceiveRun, PollRun, Discover, Verify, RequestStop, CleanupRun
  <2> QED BY <1>2, <2>1, ProviderFollows
<1> HIDE DEF verdict
<1>6. ASSUME NEW u \in Tasks, u.attempt = a, u.generation = t.generation, u.session = t.session,
             u.allocated = t.allocated, u.at \notin {"dispatched", "report"}, u.closed = t.closed,
             u.verified \in {t.verified, verdict}, NEW named \in BOOLEAN, Learns(t, named, u)
      PROVE  AttemptInvariant'
  <2>1. u.verified = t.verified \/ (t.verified = NULL /\ u.verified = remote[a].run)
    BY <1>4, <1>6
  <2> QED BY <1>1, <1>3, <1>5, <1>6, <2>1, LearnsFits
<1>7. ASSUME NEW u \in Tasks, u.at \notin {"dispatched", "report"}
      PROVE  LET p == Proceeds(t, u)
             IN  /\ p \in Tasks /\ p.attempt = u.attempt /\ p.generation = u.generation
                 /\ p.session = u.session /\ p.allocated = u.allocated
                 /\ p.at \notin {"dispatched", "report"} /\ p.closed = u.closed
                 /\ p.verified = u.verified
  <2> DEFINE p == Proceeds(t, u)
  <2>1. CASE row[a].cancelled
    <3>1. p = [u EXCEPT !.at = "cleanup", !.error = "cancelled"]
      BY <2>1 DEF Proceeds
    <3> HIDE DEF p
    <3>2. /\ p \in Tasks /\ p.attempt = u.attempt /\ p.generation = u.generation
          /\ p.session = u.session /\ p.allocated = u.allocated
          /\ p.at = "cleanup" /\ p.closed = u.closed /\ p.verified = u.verified
      BY <3>1 DEF Tasks, Places
    <3> QED BY <3>2 DEF p
  <2>2. CASE ~row[a].cancelled
    BY <1>7, <2>2 DEF Proceeds
  <2> QED BY <2>1, <2>2
<1>8. CASE ReceiveRun(t)
  <2> DEFINE v == [t EXCEPT !.at = "polling"]
             u == Proceeds(t, v)
  <2>1. PICK named \in BOOLEAN : Learns(t, named, u)
    BY <1>8 DEF ReceiveRun
  <2>2. /\ v \in Tasks /\ v.attempt = a /\ v.generation = t.generation /\ v.session = t.session
        /\ v.allocated = t.allocated /\ v.at = "polling" /\ v.closed = t.closed
        /\ v.verified = t.verified
    BY <1>2 DEF Tasks, Places
  <2> HIDE DEF v
  <2>3. /\ u \in Tasks /\ u.attempt = a /\ u.generation = t.generation /\ u.session = t.session
        /\ u.allocated = t.allocated /\ u.at \notin {"dispatched", "report"}
        /\ u.closed = t.closed /\ u.verified = t.verified
    BY <1>7, <2>2
  <2> HIDE DEF u
  <2> QED BY <1>6, <2>1, <2>3
<1>9. CASE PollRun(t)
  <2> DEFINE v == [t EXCEPT !.at = "watching", !.verified = verdict]
             u == Proceeds(t, v)
  <2>1. PICK named \in BOOLEAN : Learns(t, named, u)
    BY <1>9 DEF PollRun, verdict
  <2>2. /\ v \in Tasks /\ v.attempt = a /\ v.generation = t.generation /\ v.session = t.session
        /\ v.allocated = t.allocated /\ v.at = "watching" /\ v.closed = t.closed
        /\ v.verified = verdict
    BY <1>2, <1>4 DEF Tasks, Places
  <2> HIDE DEF v
  <2>3. /\ u \in Tasks /\ u.attempt = a /\ u.generation = t.generation /\ u.session = t.session
        /\ u.allocated = t.allocated /\ u.at \notin {"dispatched", "report"}
        /\ u.closed = t.closed /\ u.verified = verdict
    BY <1>7, <2>2
  <2> HIDE DEF u
  <2> QED BY <1>6, <2>1, <2>3
<1>10. CASE Discover(t)
  <2> DEFINE u == IF row[a].cancelled THEN [t EXCEPT !.at = "cleanup", !.error = "failed"]
                  ELSE [t EXCEPT !.at = "verifying"]
  <2>1. PICK named \in BOOLEAN : Learns(t, named, u)
    BY <1>10 DEF Discover
  <2>2. /\ u \in Tasks /\ u.attempt = a /\ u.generation = t.generation /\ u.session = t.session
        /\ u.allocated = t.allocated /\ u.at \notin {"dispatched", "report"}
        /\ u.closed = t.closed /\ u.verified = t.verified
    <3>1. CASE row[a].cancelled
      <4>1. u = [t EXCEPT !.at = "cleanup", !.error = "failed"]
        BY <3>1
      <4> HIDE DEF u
      <4> QED BY <1>2, <4>1 DEF Tasks, Places
    <3>2. CASE ~row[a].cancelled
      <4>1. u = [t EXCEPT !.at = "verifying"]
        BY <3>2
      <4> HIDE DEF u
      <4> QED BY <1>2, <4>1 DEF Tasks, Places
    <3> QED BY <3>1, <3>2
  <2> HIDE DEF u
  <2> QED BY <1>6, <2>1, <2>2
<1>11. CASE Verify(t)
  <2>1. PICK named \in BOOLEAN, error \in {"failed", "cancelled"} :
          Learns(t, named, [t EXCEPT !.at = "cleanup", !.verified = verdict,
                                     !.error = IF row[a].cancelled THEN "failed"
                                               ELSE IF verdict = NULL THEN error ELSE NULL])
    BY <1>11 DEF Verify, verdict
  <2> DEFINE said == IF row[a].cancelled THEN "failed" ELSE IF verdict = NULL THEN error ELSE NULL
             u == [t EXCEPT !.at = "cleanup", !.verified = verdict, !.error = said]
  <2>2. said \in {NULL, "failed", "cancelled"}
    OBVIOUS
  <2>3. Learns(t, named, u)
    BY <2>1
  <2> HIDE DEF said
  <2>4. /\ u \in Tasks /\ u.attempt = a /\ u.generation = t.generation /\ u.session = t.session
        /\ u.allocated = t.allocated /\ u.at \notin {"dispatched", "report"}
        /\ u.closed = t.closed /\ u.verified = verdict
    BY <1>2, <1>4, <2>2, ZenonT(60) DEF Tasks, Places
  <2> HIDE DEF u
  <2> QED BY <1>6, <2>3, <2>4
<1>12. CASE RequestStop(t)
  <2> DEFINE u == [t EXCEPT !.stopped = TRUE]
  <2>1. PICK named \in BOOLEAN : Learns(t, named, u)
    BY <1>12 DEF RequestStop
  <2>2. /\ u \in Tasks /\ u.attempt = a /\ u.generation = t.generation /\ u.session = t.session
        /\ u.allocated = t.allocated /\ u.at = t.at
        /\ u.closed = t.closed /\ u.verified = t.verified
    BY <1>2 DEF Tasks
  <2>3. t.at = "cleanup"
    BY <1>12 DEF RequestStop
  <2> HIDE DEF u
  <2> QED BY <1>6, <2>1, <2>2, <2>3
<1>13. CASE CleanupRun(t)
  <2> DEFINE u == [t EXCEPT !.verified = verdict]
  <2>1. PICK named \in BOOLEAN : Learns(t, named, u)
    BY <1>13 DEF CleanupRun, verdict
  <2>2. /\ u \in Tasks /\ u.attempt = a /\ u.generation = t.generation /\ u.session = t.session
        /\ u.allocated = t.allocated /\ u.at = t.at
        /\ u.closed = t.closed /\ u.verified = verdict
    BY <1>2, <1>4 DEF Tasks
  <2>3. t.at = "cleanup"
    BY <1>13 DEF CleanupRun
  <2> HIDE DEF u
  <2> QED BY <1>6, <2>1, <2>2, <2>3
<1> QED BY <1>8, <1>9, <1>10, <1>11, <1>12, <1>13

(* The reads of the session and the publication: closed means over.        *)
LEMMA InvariantCloses ==
  ASSUME AttemptInvariant, NEW t \in tasks, WatchSession(t) \/ CleanupSession(t) \/ Publish(t)
  PROVE  AttemptInvariant'
<1> DEFINE a == t.attempt
<1>1. TypeOK /\ TypeOK'
  BY TypeReads, TypeEnds DEF AttemptInvariant
<1>2. t \in Tasks /\ a \in Attempts /\ row' \in [Attempts -> Rows] /\ row[a] \in Rows
  BY <1>1 DEF TypeOK, Tasks
<1>3. TaskFits(t, row[a], remote[a]) /\ RowFits(row[a], remote[a])
  BY <1>2, SMTT(60) DEF AttemptInvariant, TasksFit, RowsFit
<1>4. t.allocated /\ t.at \notin {"dispatched", "report", "start"}
  BY <1>3 DEF WatchSession, CleanupSession, Publish, TaskFits
<1>5. \A b \in Attempts : Follows(remote[b], remote'[b])
  <2>1. \/ remote' = remote
        \/ /\ remote[a].session = "running"
           /\ \E d \in Durations :
                remote' = [remote EXCEPT ![a].session = "over", ![a].seconds = d]
    BY DEF WatchSession, CleanupSession, Publish
  <2> QED BY <1>2, <2>1, ProviderFollows
<1>6. /\ \A b \in Attempts : /\ row'[b].dispatched = row[b].dispatched
                             /\ row'[b].generation = row[b].generation
      /\ RowsFit'
  <2>1. CASE row' = row
    BY <1>5, <2>1, RowsFollow
  <2>2. CASE Publish(t)
    <3> DEFINE seen == row[a].replay \/ (t.closed /\ t.session /\ ~row[a].cancelled)
               q == [row[a] EXCEPT !.replay = seen]
    <3>1. row' = [row EXCEPT ![a] = q] /\ row'[a] = q /\ remote' = remote
      BY <1>1, <1>2, <2>2 DEF Publish, TypeOK
    <3>2. RowFits(q, remote[a]) /\ q.dispatched = row[a].dispatched /\ q.generation = row[a].generation
      <4> HIDE DEF seen
      <4> QED BY <1>2, <1>3 DEF RowFits, Open, Rows
    <3> HIDE DEF q
    <3> QED BY <1>1, <1>2, <3>1, <3>2 DEF RowsFit, AttemptInvariant, TypeOK
  <2> QED BY <2>1, <2>2 DEF WatchSession, CleanupSession
<1>7. ASSUME NEW u, Becomes(t, u), u.attempt = a, u.generation = t.generation,
             TaskFits(u, row'[a], remote'[a])
      PROVE  TasksFit' /\ OneTaskPerLease'
  BY <1>2, <1>5, <1>6, <1>7, TaskReplaced DEF Becomes
<1>8. TaskFits(t, row'[a], remote'[a])
  <2>1. row'[a] \in Rows /\ row[a].generation \in Nat
    BY <1>2 DEF Rows
  <2>2. row[a].generation <= row'[a].generation /\ row'[a].dispatched = row[a].dispatched
    BY <1>2, <1>6, <2>1
  <2> QED BY <1>2, <1>3, <1>5, <2>1, <2>2, TaskFollows
<1>9. ASSUME NEW u \in Tasks, u.attempt = a, u.generation = t.generation, u.allocated,
             u.session = t.session, u.verified = t.verified, u.at \notin {"dispatched", "report"},
             u.closed => t.closed \/ (t.verified # NULL /\ (t.session => remote'[a].session = "over"))
      PROVE  TaskFits(u, row'[a], remote'[a])
  <2>1. t.closed => t.verified # NULL /\ (t.session => remote'[a].session = "over")
    BY <1>4, <1>8 DEF TaskFits
  <2> QED BY <1>8, <1>9, <2>1 DEF TaskFits
<1>10. Closed(t) => t.verified # NULL /\ (t.session => remote'[a].session = "over")
  BY <1>2, <1>5 DEF Closed, Follows
<1>11. ASSUME NEW u \in Tasks, u.attempt = a, u.generation = t.generation, u.allocated,
             u.session = t.session, u.verified = t.verified, u.at \notin {"dispatched", "report"},
             u.closed = t.closed, SeesSession(t, u)
      PROVE  TasksFit' /\ OneTaskPerLease'
  <2>1. CASE Closed(t)
    <3>1. PICK seconds \in {remote[a].seconds, NULL} :
            Becomes(t, [u EXCEPT !.closed = TRUE, !.seconds = seconds])
      BY <1>11, <2>1 DEF SeesSession
    <3> DEFINE v == [u EXCEPT !.closed = TRUE, !.seconds = seconds]
    <3>2. seconds \in Nat \cup {NULL}
      BY <1>1, <1>2 DEF TypeOK, Remotes
    <3>3. /\ v \in Tasks /\ v.attempt = a /\ v.generation = t.generation /\ v.allocated
          /\ v.session = t.session /\ v.verified = t.verified
          /\ v.at \notin {"dispatched", "report"}
      BY <1>11, <3>2 DEF Tasks
    <3>4. Becomes(t, v)
      BY <3>1
    <3> HIDE DEF v
    <3>5. TaskFits(v, row'[a], remote'[a])
      BY <1>9, <1>10, <2>1, <3>3
    <3> QED BY <1>7, <3>3, <3>4, <3>5
  <2>2. CASE ~Closed(t)
    <3>1. Becomes(t, u)
      BY <1>11, <2>2 DEF SeesSession
    <3>2. TaskFits(u, row'[a], remote'[a])
      BY <1>9, <1>11
    <3> QED BY <1>7, <1>11, <3>1, <3>2
  <2> QED BY <2>1, <2>2
<1>12. CASE WatchSession(t)
  <2> DEFINE place == IF t.verified # NULL THEN "cleanup" ELSE "polling"
             v == [t EXCEPT !.at = place]
             u == Proceeds(t, v)
  <2>1. SeesSession(t, u)
    BY <1>12 DEF WatchSession
  <2>2. place \in {"cleanup", "polling"}
    OBVIOUS
  <2> HIDE DEF place
  <2>3. /\ u \in Tasks /\ u.attempt = a /\ u.generation = t.generation /\ u.allocated
        /\ u.session = t.session /\ u.verified = t.verified
        /\ u.at \notin {"dispatched", "report"} /\ u.closed = t.closed
    <3>1. CASE row[a].cancelled
      <4>1. u = [v EXCEPT !.at = "cleanup", !.error = "cancelled"]
        BY <3>1 DEF Proceeds
      <4> HIDE DEF u
      <4> QED BY <1>2, <1>4, <2>2, <4>1 DEF Tasks, Places
    <3>2. CASE ~row[a].cancelled
      <4>1. u = v
        BY <3>2 DEF Proceeds
      <4> HIDE DEF u
      <4> QED BY <1>2, <1>4, <2>2, <4>1 DEF Tasks, Places
    <3> QED BY <3>1, <3>2
  <2> HIDE DEF u
  <2>4. TasksFit' /\ OneTaskPerLease'
    BY <1>11, <2>1, <2>3
  <2> QED BY <1>1, <1>6, <2>4 DEF AttemptInvariant
<1>13. CASE CleanupSession(t)
  <2>1. CASE ~t.session /\ Becomes(t, [t EXCEPT !.at = "publish", !.closed = TRUE])
    <3> DEFINE u == [t EXCEPT !.at = "publish", !.closed = TRUE]
    <3>1. /\ u \in Tasks /\ u.attempt = a /\ u.generation = t.generation /\ u.allocated
          /\ u.session = t.session /\ u.verified = t.verified /\ u.at = "publish"
      BY <1>2, <1>4 DEF Tasks, Places
    <3>2. t.verified # NULL
      BY <1>13 DEF CleanupSession
    <3>3. Becomes(t, u)
      BY <2>1
    <3> HIDE DEF u
    <3>4. TaskFits(u, row'[a], remote'[a])
      BY <1>9, <2>1, <3>1, <3>2
    <3> QED BY <1>7, <1>1, <1>6, <3>1, <3>3, <3>4 DEF AttemptInvariant
  <2>2. CASE SeesSession(t, [t EXCEPT !.at = "publish"])
    <3> DEFINE u == [t EXCEPT !.at = "publish"]
    <3>1. /\ u \in Tasks /\ u.attempt = a /\ u.generation = t.generation /\ u.allocated
          /\ u.session = t.session /\ u.verified = t.verified /\ u.at = "publish"
          /\ u.closed = t.closed
      BY <1>2, <1>4 DEF Tasks, Places
    <3>2. SeesSession(t, u)
      BY <2>2
    <3> HIDE DEF u
    <3>3. TasksFit' /\ OneTaskPerLease'
      BY <1>11, <3>1, <3>2
    <3> QED BY <1>1, <1>6, <3>3 DEF AttemptInvariant
  <2>3. CASE Becomes(t, [t EXCEPT !.released = TRUE])
    <3> DEFINE u == [t EXCEPT !.released = TRUE]
    <3>1. /\ u \in Tasks /\ u.attempt = a /\ u.generation = t.generation /\ u.allocated
          /\ u.session = t.session /\ u.verified = t.verified /\ u.at = t.at
          /\ u.closed = t.closed
      BY <1>2, <1>4 DEF Tasks
    <3>2. Becomes(t, u)
      BY <2>3
    <3> HIDE DEF u
    <3>3. TaskFits(u, row'[a], remote'[a])
      BY <1>4, <1>9, <3>1
    <3> QED BY <1>7, <1>1, <1>6, <3>1, <3>2, <3>3 DEF AttemptInvariant
  <2> QED BY <1>13, <2>1, <2>2, <2>3 DEF CleanupSession
<1>14. CASE Publish(t)
  <2> DEFINE replay == t.closed /\ t.session
             error(result) == IF replay /\ row[a].cancelled THEN "failed"
                              ELSE IF t.error = NULL THEN result ELSE t.error
  <2>1. PICK result \in Results(t) : Becomes(t, [t EXCEPT !.at = "report", !.error = error(result)])
    <3>1. \E result \in Results(t) :
            Becomes(t, [t EXCEPT !.at = "report",
                                 !.error = IF t.closed /\ t.session /\ row[a].cancelled THEN "failed"
                                           ELSE IF t.error = NULL THEN result ELSE t.error])
      BY <1>14 DEF Publish
    <3> QED BY <3>1
  <2>2. error(result) = NULL => t.verified = "completed" /\ t.session
    BY <1>2, <2>1, NullAssumption DEF Results, Tasks, FinalStates
  <2> DEFINE said == error(result)
             u == [t EXCEPT !.at = "report", !.error = said]
  <2>3. Becomes(t, u)
    BY <2>1
  <2>4. said = NULL => t.verified = "completed" /\ t.session
    BY <2>2
  <2> HIDE DEF said
  <2>5. /\ u.attempt = a /\ u.generation = t.generation /\ u.allocated = t.allocated
        /\ u.session = t.session /\ u.verified = t.verified /\ u.at = "report"
        /\ u.closed = t.closed /\ u.error = said
    BY <1>2, <1>4 DEF Tasks
  <2> HIDE DEF u
  <2>6. TaskFits(u, row'[a], remote'[a])
    BY <1>4, <1>8, <2>4, <2>5 DEF TaskFits
  <2> QED BY <1>7, <1>1, <1>6, <2>3, <2>5, <2>6 DEF AttemptInvariant
<1> QED BY <1>12, <1>13, <1>14

(* finish(): what is settled is over, and what is completed was verified.  *)
LEMMA InvariantFinish ==
  ASSUME AttemptInvariant, NEW t \in tasks, Finish(t)
  PROVE  AttemptInvariant'
<1> DEFINE a == t.attempt
           m == remote[a]
<1>1. TypeOK /\ TypeOK'
  BY TypeEnds DEF AttemptInvariant
<1>2. t \in Tasks /\ a \in Attempts /\ row[a] \in Rows /\ m \in Remotes /\ row'[a] \in Rows
  BY <1>1 DEF TypeOK, Tasks
<1>3. TaskFits(t, row[a], m) /\ RowFits(row[a], m)
  BY <1>2 DEF AttemptInvariant, TasksFit, RowsFit
<1>4. /\ row[a].leaseLive /\ row[a].generation = t.generation /\ t.at = "report"
      /\ remote' = remote /\ tasks' = tasks \ {t}
      /\ \A b \in Attempts : b # a => row'[b] = row[b]
  BY <1>1 DEF Finish, Holds, TypeOK
<1>5. /\ row'[a].state = IF t.closed THEN "settled" ELSE "quarantined"
      /\ row'[a].status = Status(t) /\ row'[a].leaseLive = FALSE
      /\ row'[a].cancelled = row[a].cancelled /\ row'[a].generation = row[a].generation
      /\ row'[a].dispatched = row[a].dispatched /\ row'[a].sessionKnown = row[a].sessionKnown
  <2> DEFINE actual == IF t.seconds = NULL THEN row[a].actual
                       ELSE Larger(Known(row[a].actual), t.seconds)
             consumed == Consumed(t, actual)
             released == Refund(t, consumed)
             measured == IF actual = NULL /\ t.closed
                            /\ ~(row[a].dispatched \/ row[a].runKnown \/ t.allocated)
                         THEN 0 ELSE actual
             status == Status(t)
             state == IF t.closed THEN "settled" ELSE "quarantined"
             waits == ~t.closed
  <2>1. row'[a] = [row[a] EXCEPT !.state = state, !.status = status, !.actual = measured,
                                 !.consumed = consumed, !.released = released,
                                 !.leaseLive = FALSE, !.backingOff = waits]
    BY <1>1, <1>2 DEF Finish, TypeOK
  <2> HIDE DEF measured, consumed, released, status, state, waits
  <2>2. /\ row'[a].state = state /\ row'[a].status = status /\ row'[a].leaseLive = FALSE
        /\ row'[a].cancelled = row[a].cancelled /\ row'[a].generation = row[a].generation
        /\ row'[a].dispatched = row[a].dispatched /\ row'[a].sessionKnown = row[a].sessionKnown
    BY <1>2, <2>1 DEF Rows
  <2> QED BY <2>2 DEF state, status
<1>6. t.closed => ~MayStillRun(m)
  <2>1. ASSUME t.closed, ~t.allocated PROVE ~MayStillRun(m)
    <3>1. ~row[a].dispatched
      BY <1>3, <1>4, <2>1 DEF TaskFits
    <3>2. m.run = "none" /\ m.session = "none"
      BY <1>3, <3>1 DEF RowFits
    <3> QED BY <3>2 DEF MayStillRun
  <2>2. ASSUME t.closed, t.allocated PROVE ~MayStillRun(m)
    <3>1. t.verified # NULL /\ m.run = t.verified /\ m.session \in {"none", "over"}
      BY <1>3, <2>2 DEF TaskFits
    <3>2. t.verified \in {"completed", "failed"}
      BY <1>2, <3>1 DEF Tasks
    <3> QED BY <3>1, <3>2 DEF MayStillRun
  <2> QED BY <2>1, <2>2
<1>7. Status(t) = "completed" =>
        t.closed /\ ~row[a].cancelled /\ m.run = "completed" /\ m.session = "over"
  <2> SUFFICES ASSUME Status(t) = "completed"
               PROVE  t.closed /\ ~row[a].cancelled /\ m.run = "completed" /\ m.session = "over"
    OBVIOUS
  <2>1. t.closed /\ ~row[a].cancelled /\ t.error = NULL
    BY <1>2 DEF Status, Tasks
  <2>2. t.allocated /\ t.verified = "completed" /\ t.session
    BY <1>3, <1>4, <2>1 DEF TaskFits
  <2>3. t.verified # NULL
    BY <2>2, NullAssumption DEF FinalStates
  <2> QED BY <1>3, <2>1, <2>2, <2>3 DEF TaskFits
<1>8. row[a].generation > 0 /\ row[a].generation \in Nat
  BY <1>2, <1>3, <1>4 DEF RowFits, Rows
<1>9. RowFits(row'[a], m)
  <2> DEFINE q == row'[a]
  <2>1. q.state \in {"settled", "quarantined"} /\ (q.state = "settled" => t.closed)
    BY <1>5
  <2>2. q.status = "completed" =>
          q.state = "settled" /\ ~q.cancelled /\ m.run = "completed" /\ m.session = "over"
    BY <1>5, <1>7
  <2>3. q.generation > 0
    BY <1>5, <1>8
  <2>4. /\ m.session # "none" => m.run \in {"running", "completed", "failed"}
        /\ m.run # "none" => q.dispatched
        /\ q.sessionKnown => m.session # "none"
    BY <1>3, <1>5 DEF RowFits
  <2>5. ~q.leaseLive
    BY <1>5
  <2>6. MayStillRun(m) => q.state # "settled"
    BY <1>6, <2>1
  <2>7. q.state = "queued" => q.generation = 0
    BY <2>1
  <2>8. (Open(q) => q.generation > 0) /\ (q.dispatched => q.generation > 0)
    BY <2>3
  <2> HIDE DEF q, m
  <2>9. RowFits(q, m)
    BY <2>2, <2>4, <2>5, <2>6, <2>7, <2>8 DEF RowFits
  <2> QED BY <2>9 DEF q, m
<1>10. RowsFit'
  BY <1>4, <1>9 DEF RowsFit, AttemptInvariant
<1>11. \A b \in Attempts : /\ row'[b].dispatched = row[b].dispatched
                           /\ row'[b].generation = row[b].generation
  BY <1>4, <1>5
<1>12. \A b \in Attempts : Follows(remote[b], remote'[b])
  BY <1>2, <1>4, ProviderFollows
<1>13. row' \in [Attempts -> Rows] /\ tasks' \subseteq tasks
  BY <1>1, <1>4 DEF TypeOK
<1> QED BY <1>1, <1>10, <1>11, <1>12, <1>13, TasksStay DEF AttemptInvariant

(* A lease that is not live any more, or a back-off that has ended; what a *)
(* refusal and a cancellation do to the rows they reach; ordinary jobs.    *)
LEMMA InvariantRows ==
  ASSUME AttemptInvariant,
         \/ \E a \in Attempts : LeaseExpires(a) \/ HolderStalls(a) \/ BackOffEnds(a)
         \/ RefuseQueued
         \/ \E r \in Runs : Cancel(r)
         \/ \E o \in Owners : JobStarts(o) \/ JobSettles(o)
  PROVE  AttemptInvariant'
<1>1. TypeOK /\ TypeOK' /\ remote' = remote /\ tasks' = tasks
  <2>1. TypeOK'
    BY TypeClaims DEF AttemptInvariant
  <2> QED BY <2>1 DEF AttemptInvariant, LeaseExpires, HolderStalls, BackOffEnds, RefuseQueued, Cancel,
                      JobStarts, JobSettles
<1>2. \A b \in Attempts : RowFits(row[b], remote[b]) /\ row[b] \in Rows
  BY <1>1 DEF AttemptInvariant, RowsFit, TypeOK
<1>3. \A b \in Attempts : Follows(remote[b], remote'[b])
  BY <1>1, <1>2, FollowsItself
<1>4. ASSUME NEW b \in Attempts
      PROVE  /\ RowFits(row'[b], remote[b])
             /\ row'[b].dispatched = row[b].dispatched /\ row'[b].generation = row[b].generation
  <2> DEFINE r == row[b]
             m == remote[b]
  <2>1. r \in Rows /\ RowFits(r, m)
    BY <1>2
  <2>2. \/ row'[b] = r
        \/ row'[b] = [r EXCEPT !.leaseLive = FALSE]
        \/ row'[b] = [r EXCEPT !.backingOff = FALSE]
        \/ row'[b] = [r EXCEPT !.cancelled = TRUE] /\ r.state # "settled"
        \/ row'[b] = [r EXCEPT !.state = "settled", !.status = "failed", !.actual = 0]
           /\ r.state = "queued"
        \/ row'[b] = [r EXCEPT !.cancelled = TRUE, !.state = "settled", !.status = "cancelled",
                               !.actual = 0] /\ r.state = "queued"
    <3>1. ASSUME NEW a \in Attempts, LeaseExpires(a) \/ HolderStalls(a) \/ BackOffEnds(a)
          PROVE  \/ row'[b] = r \/ row'[b] = [r EXCEPT !.leaseLive = FALSE]
                 \/ row'[b] = [r EXCEPT !.backingOff = FALSE]
      BY <1>1, <3>1 DEF LeaseExpires, HolderStalls, BackOffEnds, TypeOK
    <3>2. ASSUME RefuseQueued
          PROVE  \/ row'[b] = r
                 \/ row'[b] = [r EXCEPT !.state = "settled", !.status = "failed", !.actual = 0]
                    /\ r.state = "queued"
      BY <3>2 DEF RefuseQueued, AfterRefusal, Refused, Queued
    <3>3. ASSUME NEW s \in Runs, Cancel(s)
          PROVE  \/ row'[b] = r
                 \/ row'[b] = [r EXCEPT !.cancelled = TRUE] /\ r.state # "settled"
                 \/ row'[b] = [r EXCEPT !.cancelled = TRUE, !.state = "settled", !.status = "cancelled",
                                        !.actual = 0] /\ r.state = "queued"
      BY <3>3 DEF Cancel, OpenOfRun
    <3>4. ASSUME NEW o \in Owners, JobStarts(o) \/ JobSettles(o) PROVE row'[b] = r
      BY <3>4 DEF JobStarts, JobSettles
    <3> QED BY <3>1, <3>2, <3>3, <3>4
  <2>3. r.state = "queued" => m.run = "none" /\ m.session = "none" /\ ~r.leaseLive
    BY <2>1 DEF RowFits, Open, Rows
  <2> DEFINE q == row'[b]
  <2>4. /\ q.dispatched = r.dispatched /\ q.generation = r.generation
        /\ q.sessionKnown = r.sessionKnown /\ (q.leaseLive => r.leaseLive)
        /\ \/ q.state = r.state /\ q.status = r.status
              /\ (q.cancelled = r.cancelled \/ r.state # "settled")
           \/ q.state = "settled" /\ q.status \in {"failed", "cancelled"} /\ r.state = "queued"
    <3>1. CASE q = r
      BY <3>1
    <3>2. CASE q = [r EXCEPT !.leaseLive = FALSE]
      BY <2>1, <3>2 DEF Rows
    <3>3. CASE q = [r EXCEPT !.backingOff = FALSE]
      BY <2>1, <3>3 DEF Rows
    <3>4. CASE q = [r EXCEPT !.cancelled = TRUE] /\ r.state # "settled"
      BY <2>1, <3>4 DEF Rows
    <3>5. CASE q = [r EXCEPT !.state = "settled", !.status = "failed", !.actual = 0]
               /\ r.state = "queued"
      BY <2>1, <3>5 DEF Rows
    <3>6. CASE q = [r EXCEPT !.cancelled = TRUE, !.state = "settled", !.status = "cancelled",
                             !.actual = 0] /\ r.state = "queued"
      BY <2>1, <3>6 DEF Rows
    <3> QED BY <2>2, <3>1, <3>2, <3>3, <3>4, <3>5, <3>6
  <2> HIDE DEF q
  <2>5. RowFits(q, m)
    <3>1. CASE q.state = r.state
      BY <2>1, <2>4, <3>1 DEF RowFits, Open
    <3>2. CASE q.state = "settled" /\ q.status \in {"failed", "cancelled"} /\ r.state = "queued"
      BY <2>1, <2>3, <2>4, <3>2 DEF RowFits, Open, MayStillRun
    <3> QED BY <2>4, <3>1, <3>2
  <2> QED BY <2>4, <2>5 DEF q
<1>5. RowsFit'
  BY <1>1, <1>4 DEF RowsFit
<1>6. row' \in [Attempts -> Rows] /\ tasks' \subseteq tasks
  BY <1>1 DEF TypeOK
<1> QED BY <1>1, <1>3, <1>4, <1>5, <1>6, TasksStay, SMTT(60) DEF AttemptInvariant

(* claim(): a new lease, and with it a new execution.                      *)
LEMMA InvariantClaim ==
  ASSUME AttemptInvariant, NEW a \in Attempts, ClaimExpired(a) \/ ClaimQueued(a)
  PROVE  AttemptInvariant'
<1>1. TypeOK /\ TypeOK' /\ remote' = remote
  <2>1. TypeOK'
    BY TypeClaims DEF AttemptInvariant
  <2> QED BY <2>1 DEF AttemptInvariant, ClaimExpired, ClaimQueued
<1>2. /\ \A b \in Attempts : RowFits(row[b], remote[b]) /\ row[b] \in Rows /\ row'[b] \in Rows
      /\ \A b \in Attempts : remote[b] \in Remotes
  BY <1>1 DEF AttemptInvariant, RowsFit, TypeOK
<1>3. PICK new :
        /\ tasks' = tasks \cup {new}
        /\ new.attempt = a /\ new.generation = row[a].generation + 1 /\ new.at = "start"
        /\ new.allocated = AllocationPossible(a) /\ new.session = row[a].sessionKnown
        /\ new.verified = NULL /\ ~new.closed
  <2>1. ASSUME NEW r, Acquire(a, r)
        PROVE  \E new :
                 /\ tasks' = tasks \cup {new}
                 /\ new.attempt = a /\ new.generation = row[a].generation + 1 /\ new.at = "start"
                 /\ new.allocated = AllocationPossible(a) /\ new.session = row[a].sessionKnown
                 /\ new.verified = NULL /\ ~new.closed
    <3> DEFINE n ==
          [attempt |-> a, generation |-> row[a].generation + 1, at |-> "start",
           allocated |-> AllocationPossible(a),
           run |-> IF row[a].runKnown THEN "named" ELSE "unknown", session |-> row[a].sessionKnown,
           verified |-> NULL, closed |-> FALSE, seconds |-> NULL,
           stopped |-> FALSE, released |-> FALSE, error |-> NULL]
    <3>1. tasks' = tasks \cup {n}
      BY <2>1 DEF Acquire
    <3>2. /\ n.attempt = a /\ n.generation = row[a].generation + 1 /\ n.at = "start"
          /\ n.allocated = AllocationPossible(a) /\ n.session = row[a].sessionKnown
          /\ n.verified = NULL /\ ~n.closed
      OBVIOUS
    <3> HIDE DEF n
    <3> QED BY <3>1, <3>2
  <2> QED BY <2>1 DEF ClaimExpired, ClaimQueued
<1>4. /\ row'[a].generation = row[a].generation + 1 /\ row'[a].leaseLive
      /\ row'[a].dispatched = row[a].dispatched /\ row'[a].sessionKnown = row[a].sessionKnown
      /\ \/ row'[a].state = "quarantined" /\ row'[a].status = "cleanup_required"
         \/ row'[a].state = "reserved" /\ row'[a].status = "running"
  <2>1. CASE ClaimExpired(a)
    <3> DEFINE again == row[a].recoveries + 1
               later == row[a].generation + 1
    <3>1. row'[a] = [row[a] EXCEPT !.recoveries = again, !.state = "quarantined",
                                   !.status = "cleanup_required", !.generation = later,
                                   !.leaseLive = TRUE]
      BY <1>1, <1>2, <2>1 DEF ClaimExpired, Acquire, TypeOK, Rows
    <3> HIDE DEF again, later
    <3>2. /\ row'[a].generation = later /\ row'[a].leaseLive
          /\ row'[a].dispatched = row[a].dispatched /\ row'[a].sessionKnown = row[a].sessionKnown
          /\ row'[a].state = "quarantined" /\ row'[a].status = "cleanup_required"
      BY <1>2, <3>1 DEF Rows
    <3> QED BY <3>2, SMTT(60) DEF later
  <2>2. CASE ClaimQueued(a)
    <3> DEFINE later == row[a].generation + 1
    <3>1. a \notin Refused
      BY <2>2 DEF ClaimQueued, Refused
    <3>2. AfterRefusal[a] = row[a] /\ AfterRefusal \in [Attempts -> Rows]
      BY <1>1, <3>1, TypeRefusal DEF AfterRefusal
    <3>3. row'[a] = [row[a] EXCEPT !.state = "reserved", !.status = "running",
                                   !.reserved = SessionSeconds, !.generation = later,
                                   !.leaseLive = TRUE]
      BY <1>2, <2>2, <3>2 DEF ClaimQueued, Acquire, Rows
    <3> HIDE DEF later
    <3>4. /\ row'[a].generation = later /\ row'[a].leaseLive
          /\ row'[a].dispatched = row[a].dispatched /\ row'[a].sessionKnown = row[a].sessionKnown
          /\ row'[a].state = "reserved" /\ row'[a].status = "running"
      BY <1>2, <3>3 DEF Rows
    <3> QED BY <3>4 DEF later
  <2> QED BY <2>1, <2>2
<1>5. ASSUME NEW b \in Attempts, b # a
      PROVE  /\ row'[b] = row[b]
                \/ /\ row'[b] = [row[b] EXCEPT !.state = "settled", !.status = "failed", !.actual = 0]
                   /\ row[b].state = "queued"
  <2>1. CASE ClaimExpired(a)
    BY <1>1, <1>5, <2>1 DEF ClaimExpired, Acquire, TypeOK
  <2>2. CASE ClaimQueued(a)
    <3>1. row'[b] = AfterRefusal[b]
      BY <1>1, <1>5, <2>2, TypeRefusal DEF ClaimQueued, Acquire
    <3> QED BY <3>1 DEF AfterRefusal, Refused, Queued
  <2> QED BY <1>5, <2>1, <2>2
<1>6. ASSUME NEW b \in Attempts, b # a
      PROVE  /\ RowFits(row'[b], remote[b])
             /\ row'[b].dispatched = row[b].dispatched /\ row'[b].generation = row[b].generation
  <2>1. CASE row'[b] = row[b]
    BY <1>2, <2>1
  <2>2. CASE /\ row'[b] = [row[b] EXCEPT !.state = "settled", !.status = "failed", !.actual = 0]
             /\ row[b].state = "queued"
    <3> DEFINE r == row[b]
               q == row'[b]
               m == remote[b]
    <3>1. r \in Rows /\ RowFits(r, m)
      BY <1>2
    <3>2. /\ q.dispatched = r.dispatched /\ q.generation = r.generation
          /\ q.sessionKnown = r.sessionKnown /\ q.leaseLive = r.leaseLive
          /\ q.state = "settled" /\ q.status = "failed"
      BY <2>2, <3>1 DEF Rows
    <3>3. m.run = "none" /\ m.session = "none" /\ ~r.leaseLive
      BY <2>2, <3>1 DEF RowFits, Open, Rows
    <3> HIDE DEF q
    <3>4. RowFits(q, m)
      BY <2>2, <3>1, <3>2, <3>3 DEF RowFits, Open, MayStillRun
    <3> QED BY <3>2, <3>4 DEF q
  <2> QED BY <1>5, <1>6, <2>1, <2>2
<1>7. row[a].generation \in Nat /\ row'[a].generation \in Nat /\ row'[a].generation > 0
  BY <1>2, <1>4 DEF Rows
<1>8. MayStillRun(remote[a]) => row'[a].state # "settled"
  BY <1>4
<1>9. RowFits(row'[a], remote[a])
  <2> DEFINE q == row'[a]
             m == remote[a]
  <2>1. q.state # "queued" /\ Open(q)
    BY <1>4 DEF Open
  <2>2. q.status # "completed"
    BY <1>4
  <2>3. /\ m.session # "none" => m.run \in {"running", "completed", "failed"}
        /\ m.run # "none" => q.dispatched
        /\ q.sessionKnown => m.session # "none"
    BY <1>2, <1>4 DEF RowFits
  <2> HIDE DEF q, m
  <2> QED BY <1>7, <1>8, <2>1, <2>2, <2>3 DEF RowFits, q, m
<1>10. RowsFit'
  BY <1>1, <1>6, <1>9 DEF RowsFit
<1>11. ASSUME NEW v \in tasks PROVE TaskFits(v, row'[v.attempt], remote[v.attempt])
  <2>1. v \in Tasks /\ v.attempt \in Attempts /\ TaskFits(v, row[v.attempt], remote[v.attempt])
    BY <1>1 DEF AttemptInvariant, TasksFit, TypeOK, Tasks
  <2>2. row[v.attempt].generation \in Nat
    BY <1>2, <2>1 DEF Rows
  <2>3. /\ row'[v.attempt].dispatched = row[v.attempt].dispatched
        /\ row[v.attempt].generation <= row'[v.attempt].generation
    BY <1>4, <1>6, <2>1, <2>2
  <2>4. Follows(remote[v.attempt], remote[v.attempt])
    BY <1>2, <2>1, FollowsItself
  <2> QED BY <1>2, <2>1, <2>3, <2>4, TaskFollows
<1>12. TaskFits(new, row'[a], remote[a])
  <2>1. 1 <= new.generation /\ new.generation <= row'[a].generation
    BY <1>3, <1>4, <1>7
  <2>2. ~new.allocated => ~row'[a].dispatched
    BY <1>3, <1>4 DEF AllocationPossible
  <2>3. new.session => remote[a].session # "none"
    BY <1>2, <1>3 DEF RowFits
  <2> QED BY <1>3, <2>1, <2>2, <2>3 DEF TaskFits
<1>13. TasksFit'
  BY <1>1, <1>3, <1>11, <1>12 DEF TasksFit
<1>14. ASSUME NEW v \in tasks, v.attempt = a PROVE v.generation # new.generation
  <2>1. v \in Tasks /\ TaskFits(v, row[a], remote[a])
    BY <1>1, <1>14 DEF AttemptInvariant, TasksFit, TypeOK
  <2>2. v.generation \in Nat /\ v.generation <= row[a].generation
    BY <2>1 DEF TaskFits, Tasks
  <2> QED BY <1>3, <1>7, <2>2
<1>15. OneTaskPerLease'
  <2>1. ASSUME NEW v \in tasks', NEW w \in tasks', v.attempt = w.attempt, v.generation = w.generation
        PROVE  v = w
    <3>1. CASE v \in tasks /\ w \in tasks
      BY <2>1, <3>1 DEF AttemptInvariant, OneTaskPerLease
    <3>2. CASE v = new /\ w \in tasks
      BY <1>3, <1>14, <2>1, <3>2
    <3>3. CASE v \in tasks /\ w = new
      BY <1>3, <1>14, <2>1, <3>3
    <3> QED BY <1>3, <3>1, <3>2, <3>3
  <2> QED BY <2>1 DEF OneTaskPerLease
<1> QED BY <1>1, <1>10, <1>13, <1>15 DEF AttemptInvariant

LEMMA AttemptStep ==
  ASSUME AttemptInvariant, [Next]_vars
  PROVE  AttemptInvariant'
<1>1. CASE UNCHANGED vars
  BY <1>1 DEF vars, AttemptInvariant, TypeOK, RowsFit, TasksFit, OneTaskPerLease
<1>2. ASSUME NEW t \in tasks, TaskStep(t) \/ Crash(t) PROVE AttemptInvariant'
  BY <1>2, InvariantUnsaved, InvariantDispatch, InvariantCreate, InvariantReads, InvariantCloses,
     InvariantFinish DEF TaskStep
<1>3. ASSUME NEW a \in Attempts,
             \/ ClaimExpired(a) \/ ClaimQueued(a) \/ ProviderStep(a)
             \/ LeaseExpires(a) \/ HolderStalls(a) \/ BackOffEnds(a)
      PROVE  AttemptInvariant'
  BY <1>3, InvariantClaim, InvariantProvider, InvariantRows
<1> QED BY <1>1, <1>2, <1>3, InvariantRows DEF Next

(* What the rows, the provider and the executions believe of each other.   *)
THEOREM AttemptsHold == Spec => []AttemptInvariant
<1>1. Init => AttemptInvariant
  BY InvariantInit
<1>2. AttemptInvariant /\ [Next]_vars => AttemptInvariant'
  BY AttemptStep
<1> QED BY <1>1, <1>2, PTL DEF Spec

(* An attempt is reported completed only when its agent run completed, its *)
(* browser session ended, and nobody had cancelled it: whatever crashes,   *)
(* recoveries, lost replies and cancellations came between                 *)
(* (observeSession(), readResult(), finish()).                             *)
THEOREM CompletedMeansVerified == Spec => []CompletedIsVerified
<1>1. AttemptInvariant => CompletedIsVerified
  BY DEF AttemptInvariant, RowsFit, RowFits, CompletedIsVerified
<1> QED BY <1>1, AttemptsHold, PTL
-----------------------------------------------------------------------------
(* The attempts implement PaidSlot: what one step may do to the slots and  *)
(* the agents, and that PaidSlot allows it.                                *)
Keeps(b) == SlotOf(b)' = SlotOf(b) /\ BrowserOf(b)' = BrowserOf(b)
KeepOthers(a) == \A b \in Attempts \ {a} : Keeps(b)

Reserves(a) ==
  /\ SlotOf(a) = "free" /\ SlotOf(a)' = "held"
  /\ Cardinality(Occupied) < GlobalConcurrency
  /\ BrowserOf(a)' = BrowserOf(a)
  /\ KeepOthers(a)
Asks(a) ==
  /\ SlotOf(a) = "held" /\ SlotOf(a)' = "held"
  /\ BrowserOf(a) = "never" /\ BrowserOf(a)' = "possible"
  /\ KeepOthers(a)
Retires(a) ==
  /\ SlotOf(a)' = SlotOf(a)
  /\ BrowserOf(a) = "possible" /\ BrowserOf(a)' = "gone"
  /\ KeepOthers(a)
Releases(a) ==
  /\ SlotOf(a) = "held" /\ SlotOf(a)' = "released"
  /\ BrowserOf(a) # "possible" /\ BrowserOf(a)' = BrowserOf(a)
  /\ KeepOthers(a)

Moves(a) == Reserves(a) \/ Asks(a) \/ Retires(a) \/ Releases(a)
SlotStep == (\A b \in Attempts : Keeps(b)) \/ (\E a \in Attempts : Moves(a))

LEMMA HeldIsOccupied ==
  ASSUME AttemptInvariant
  PROVE  Slots!Held = Occupied /\ IsFiniteSet(Occupied) /\ Cardinality(Occupied) \in Nat
<1>1. \A a \in Attempts : SlotOf(a) = "held" <=> row[a].state \notin {"queued", "settled"}
  BY DEF AttemptInvariant, RowsFit, RowFits, TypeOK, Rows, RowStates, Open, SlotOf
<1>2. Slots!Held = Occupied
  BY <1>1 DEF Slots!Held, Occupied
<1> QED BY <1>2, AttemptsAssumption, FS_Subset, FS_CardinalityType DEF Occupied

(* There is room for an attempt when both sides together leave some.       *)
LEMMA RoomForAttempt ==
  ASSUME TypeOK, ~GlobalFull
  PROVE  Cardinality(Occupied) < GlobalConcurrency
<1>1. {a \in Occupied : OwnerOfAttempt(a) \in Owners} = Occupied
  BY OwnershipAssumption DEF Occupied, OwnerOfAttempt
<1>2. \A o \in Owners : [p \in Owners |-> jobs[p].open][o] \in Nat
  BY DEF TypeOK
<1>3. Total([p \in Owners |-> jobs[p].open], Owners) \in Nat
  BY <1>2, OwnersAssumption, TotalType
<1>4. Cardinality(Occupied) \in Nat
  BY AttemptsAssumption, FS_Subset, FS_CardinalityType DEF Occupied
<1>5. ~(Cardinality(Occupied) + Total([p \in Owners |-> jobs[p].open], Owners) >= GlobalConcurrency)
  BY <1>1 DEF GlobalFull, Occupancy
<1> QED BY <1>3, <1>4, <1>5, PolicyAssumption

(* PaidSlot counts with the Cardinality of its own instance.               *)
LEMMA SameCardinality == ASSUME NEW S PROVE Slots!Cardinality(S) = Cardinality(S)
  BY DEF Slots!Cardinality, Cardinality

LEMMA SlotStepRefines ==
  ASSUME AttemptInvariant, SlotStep
  PROVE  [Slots!Next]_(Slots!vars)
<1> DEFINE slot == [a \in Attempts |-> SlotOf(a)]
           browser == [a \in Attempts |-> BrowserOf(a)]
<1>1. CASE \A b \in Attempts : Keeps(b)
  <2>1. slot' = slot /\ browser' = browser
    BY <1>1 DEF Keeps
  <2> QED BY <2>1 DEF Slots!vars
<1>2. ASSUME NEW a \in Attempts, Moves(a) PROVE Slots!Next
  <2>1. CASE Reserves(a)
    <3>1. slot' = [slot EXCEPT ![a] = "held"] /\ browser' = browser
      BY <2>1 DEF Reserves, KeepOthers, Keeps
    <3>2. Slots!Cardinality(Slots!Held) < GlobalConcurrency
      BY <2>1, HeldIsOccupied, SameCardinality DEF Reserves
    <3>3. slot[a] = "free"
      BY <2>1 DEF Reserves
    <3>4. Slots!Reserve(a)
      BY <3>1, <3>2, <3>3 DEF Slots!Reserve
    <3> QED BY <3>4 DEF Slots!Next
  <2>2. CASE Asks(a)
    <3>1. browser' = [browser EXCEPT ![a] = "possible"] /\ slot' = slot
      BY <2>2 DEF Asks, KeepOthers, Keeps
    <3>2. Slots!Ask(a)
      BY <2>2, <3>1 DEF Slots!Ask, Asks
    <3> QED BY <3>2 DEF Slots!Next
  <2>3. CASE Retires(a)
    <3>1. browser' = [browser EXCEPT ![a] = "gone"] /\ slot' = slot
      BY <2>3 DEF Retires, KeepOthers, Keeps
    <3>2. Slots!Retire(a)
      BY <2>3, <3>1 DEF Slots!Retire, Retires
    <3> QED BY <3>2 DEF Slots!Next
  <2>4. CASE Releases(a)
    <3>1. slot' = [slot EXCEPT ![a] = "released"] /\ browser' = browser
      BY <2>4 DEF Releases, KeepOthers, Keeps
    <3>2. Slots!Release(a)
      BY <2>4, <3>1 DEF Slots!Release, Releases
    <3> QED BY <3>2 DEF Slots!Next
  <2> QED BY <1>2, <2>1, <2>2, <2>3, <2>4 DEF Moves
<1> QED BY <1>1, <1>2 DEF SlotStep

(* No row changes hands, and one run at most moves on towards its end.     *)
LEMMA RunMovesOn ==
  ASSUME AttemptInvariant, NEW a \in Attempts,
         \A b \in Attempts : row'[b].state = row[b].state /\ row'[b].generation = row[b].generation,
         \A b \in Attempts \ {a} : remote'[b] = remote[b],
         Follows(remote[a], remote'[a])
  PROVE  SlotStep
<1>1. \A b \in Attempts : SlotOf(b)' = SlotOf(b)
  BY DEF SlotOf
<1>2. KeepOthers(a)
  BY <1>1 DEF KeepOthers, Keeps, BrowserOf, MayRun
<1>3. BrowserOf(a)' = BrowserOf(a) \/ (BrowserOf(a) = "possible" /\ BrowserOf(a)' = "gone")
  BY DEF BrowserOf, MayRun, Follows, MayStillRun
<1>4. CASE BrowserOf(a)' = BrowserOf(a)
  BY <1>1, <1>2, <1>4 DEF SlotStep, KeepOthers, Keeps
<1>5. CASE BrowserOf(a) = "possible" /\ BrowserOf(a)' = "gone"
  BY <1>1, <1>2, <1>5 DEF SlotStep, Moves, Retires
<1> QED BY <1>3, <1>4, <1>5

LEMMA TaskMovesSlots ==
  ASSUME AttemptInvariant, NEW t \in tasks, TaskStep(t) \/ Crash(t)
  PROVE  SlotStep
<1> DEFINE a == t.attempt
<1>1. TypeOK /\ TypeOK'
  BY TypeRequests, TypeReads, TypeEnds DEF TaskStep, AttemptInvariant
<1>2. t \in Tasks /\ a \in Attempts /\ row[a] \in Rows /\ remote[a] \in Remotes
  BY <1>1 DEF TypeOK, Tasks
<1>3. RowFits(row[a], remote[a]) /\ TaskFits(t, row[a], remote[a])
  BY <1>2 DEF AttemptInvariant, RowsFit, TasksFit
<1>4. CASE Create(t)
  <2>1. row[a].leaseLive /\ t.at = "dispatched" /\ row' = row
    BY <1>4 DEF Create, Holds
  <2>2. remote[a].run = "none"
    BY <1>3, <2>1 DEF TaskFits
  <2>3. SlotOf(a) = "held"
    BY <1>3, <2>1 DEF RowFits, Open, SlotOf
  <2>4. remote'[a].run = "asked" /\ \A b \in Attempts \ {a} : remote'[b] = remote[b]
    <3> DEFINE requests == remote[a].requests + 1
    <3>1. remote' = [remote EXCEPT ![a] = [remote[a] EXCEPT !.run = "asked", !.requests = requests]]
      BY <1>4 DEF Create
    <3> HIDE DEF requests
    <3> QED BY <1>1, <1>2, <3>1 DEF TypeOK, Remotes
  <2>5. Asks(a)
    BY <2>1, <2>2, <2>3, <2>4 DEF Asks, KeepOthers, Keeps, SlotOf, BrowserOf, MayRun
  <2> QED BY <1>2, <2>5 DEF SlotStep, Moves
<1>5. CASE Finish(t)
  <2>1. /\ row[a].leaseLive /\ row[a].generation = t.generation /\ t.at = "report" /\ remote' = remote
        /\ \A b \in Attempts \ {a} : row'[b] = row[b]
    BY <1>1, <1>5 DEF Finish, Holds, TypeOK
  <2>2. /\ row'[a].generation = row[a].generation
        /\ row'[a].state = IF t.closed THEN "settled" ELSE "quarantined"
    BY <1>1, <1>2, <1>5 DEF Finish, TypeOK, Rows
  <2>3. \A b \in Attempts : BrowserOf(b)' = BrowserOf(b)
    BY <2>1 DEF BrowserOf, MayRun
  <2>4. KeepOthers(a)
    BY <2>1, <2>3 DEF KeepOthers, Keeps, SlotOf
  <2>5. SlotOf(a) = "held"
    BY <1>3, <2>1 DEF RowFits, Open, SlotOf
  <2>6. CASE t.closed
    <3>1. AttemptInvariant'
      BY <1>5, InvariantFinish
    <3>2. ~MayRun(a)
      BY <1>2, <2>1, <2>2, <2>6, <3>1 DEF AttemptInvariant, RowsFit, RowFits, MayStillRun, MayRun
    <3>3. SlotOf(a)' = "released"
      BY <2>2, <2>5, <2>6 DEF SlotOf
    <3>4. BrowserOf(a) # "possible" /\ BrowserOf(a)' = BrowserOf(a)
      BY <1>2, <2>3, <3>2 DEF BrowserOf
    <3>5. Releases(a)
      BY <2>4, <2>5, <3>3, <3>4 DEF Releases
    <3> QED BY <1>2, <3>5 DEF SlotStep, Moves
  <2>7. CASE ~t.closed
    <3>1. SlotOf(a)' = "held"
      BY <2>2, <2>5, <2>7 DEF SlotOf
    <3> QED BY <2>3, <2>4, <2>5, <3>1 DEF SlotStep, KeepOthers, Keeps
  <2> QED BY <2>6, <2>7
<1>6. CASE Dispatch(t)
  <2>1. row[a].leaseLive /\ row[a].state = "reserved" /\ remote' = remote
    BY <1>6 DEF Dispatch, Holds, MayDispatch
  <2>2. /\ row'[a].generation = row[a].generation /\ row'[a].state = "dispatched"
        /\ \A b \in Attempts \ {a} : row'[b] = row[b]
    BY <1>1, <1>2, <1>6 DEF Dispatch, TypeOK, Rows
  <2> QED BY <1>3, <2>1, <2>2 DEF SlotStep, Keeps, SlotOf, BrowserOf, MayRun, RowFits
<1>7. ASSUME \/ remote' = remote \/ StopsRun(a)
             \/ /\ remote[a].session = "running"
                /\ \E d \in Durations :
                     remote' = [remote EXCEPT ![a].session = "over", ![a].seconds = d],
             \A b \in Attempts : row'[b].state = row[b].state /\ row'[b].generation = row[b].generation
      PROVE  SlotStep
  <2>1. \A b \in Attempts : Follows(remote[b], remote'[b])
    BY <1>2, <1>7, ProviderFollows
  <2>2. \A b \in Attempts \ {a} : remote'[b] = remote[b]
    BY <1>1, <1>7 DEF StopsRun, TypeOK
  <2> QED BY <1>2, <1>7, <2>1, <2>2, RunMovesOn
<1>8. CASE \/ EndUnallocated(t) \/ BeginRecovery(t) \/ Interrupted(t) \/ Contradicted(t)
           \/ FenceThrows(t) \/ LeaseLost(t) \/ GiveUpCleanup(t) \/ Crash(t)
           \/ WatchSession(t) \/ CleanupSession(t)
  <2>1. row' = row
    BY <1>8 DEF EndUnallocated, BeginRecovery, Interrupted, Contradicted, FenceThrows, LeaseLost,
                GiveUpCleanup, Crash, WatchSession, CleanupSession
  <2>2. \/ remote' = remote \/ StopsRun(a)
        \/ /\ remote[a].session = "running"
           /\ \E d \in Durations :
                remote' = [remote EXCEPT ![a].session = "over", ![a].seconds = d]
    BY <1>8 DEF EndUnallocated, BeginRecovery, Interrupted, Contradicted, FenceThrows, LeaseLost,
                GiveUpCleanup, Crash, WatchSession, CleanupSession
  <2> QED BY <1>7, <2>1, <2>2
<1>9. CASE Publish(t)
  <2> DEFINE seen == row[a].replay \/ (t.closed /\ t.session /\ ~row[a].cancelled)
  <2>1. row' = [row EXCEPT ![a] = [row[a] EXCEPT !.replay = seen]] /\ remote' = remote
    BY <1>1, <1>2, <1>9 DEF Publish, TypeOK
  <2> HIDE DEF seen
  <2>2. \A b \in Attempts : row'[b].state = row[b].state /\ row'[b].generation = row[b].generation
    BY <1>1, <1>2, <2>1 DEF TypeOK, Rows
  <2> QED BY <1>7, <2>1, <2>2
<1>10. CASE \/ ReceiveRun(t) \/ PollRun(t) \/ Discover(t) \/ Verify(t) \/ RequestStop(t)
            \/ CleanupRun(t)
  <2>1. PICK named, u : named \in BOOLEAN /\ Learns(t, named, u)
    BY <1>10 DEF ReceiveRun, PollRun, Discover, Verify, RequestStop, CleanupRun
  <2>2. remote' = remote \/ StopsRun(a)
    BY <1>10 DEF ReceiveRun, PollRun, Discover, Verify, RequestStop, CleanupRun
  <2> DEFINE known == row[a].sessionKnown \/ named
  <2>3. row' = [row EXCEPT ![a] = [row[a] EXCEPT !.runKnown = TRUE, !.sessionKnown = known]]
    BY <1>1, <1>2, <2>1 DEF Learns, TypeOK
  <2> HIDE DEF known
  <2>4. \A b \in Attempts : row'[b].state = row[b].state /\ row'[b].generation = row[b].generation
    BY <1>1, <1>2, <2>3 DEF TypeOK, Rows
  <2> QED BY <1>7, <2>2, <2>4
<1> QED BY <1>4, <1>5, <1>6, <1>8, <1>9, <1>10 DEF TaskStep

LEMMA StepMovesSlots ==
  ASSUME AttemptInvariant, [Next]_vars
  PROVE  SlotStep
<1>1. TypeOK
  BY DEF AttemptInvariant
<1>2. \A b \in Attempts : RowFits(row[b], remote[b]) /\ row[b] \in Rows /\ remote[b] \in Remotes
  BY <1>1 DEF AttemptInvariant, RowsFit, TypeOK
<1>3. ASSUME remote' = remote, \A b \in Attempts : SlotOf(b)' = SlotOf(b) PROVE SlotStep
  BY <1>3 DEF SlotStep, Keeps, BrowserOf, MayRun
<1>4. CASE UNCHANGED vars
  BY <1>3, <1>4 DEF vars, SlotOf
<1>5. ASSUME NEW t \in tasks, TaskStep(t) \/ Crash(t) PROVE SlotStep
  BY <1>5, TaskMovesSlots
<1>6. ASSUME NEW a \in Attempts, ProviderStep(a) PROVE SlotStep
  <2>1. \A b \in Attempts : Follows(remote[b], remote'[b])
    BY <1>6, ProviderFollows
  <2>2. row' = row /\ \A b \in Attempts \ {a} : remote'[b] = remote[b]
    BY <1>1, <1>6 DEF ProviderStep, ProviderRuns, ProviderOpensSession, ProviderEndsRun,
                      ProviderEndsSession, TypeOK
  <2> QED BY <2>1, <2>2, RunMovesOn
<1>7. ASSUME NEW a \in Attempts, ClaimExpired(a) PROVE SlotStep
  <2>1. /\ row'[a].state = "quarantined" /\ row'[a].generation = row[a].generation + 1
        /\ \A b \in Attempts \ {a} : row'[b] = row[b]
    BY <1>1, <1>2, <1>7 DEF ClaimExpired, Acquire, TypeOK, Rows
  <2>2. row[a].state \in RowStates \ {"queued", "settled"} /\ row[a].generation \in Nat
    BY <1>2, <1>7 DEF ClaimExpired, Expired, Occupied, Rows
  <2>3. row[a].generation > 0
    BY <1>2, <2>2 DEF RowFits, Open, RowStates
  <2>4. SlotOf(a) = "held" /\ SlotOf(a)' = "held"
    BY <2>1, <2>2, <2>3 DEF SlotOf
  <2>5. \A b \in Attempts : SlotOf(b)' = SlotOf(b)
    BY <2>1, <2>4 DEF SlotOf
  <2> QED BY <1>3, <1>7, <2>5 DEF ClaimExpired
<1>8. ASSUME NEW b \in Attempts, row[b].state = "queued", row'[b].generation = row[b].generation
      PROVE  SlotOf(b)' = SlotOf(b)
  BY <1>2, <1>8 DEF RowFits, SlotOf
<1>9. ASSUME NEW b \in Attempts
      PROVE  AfterRefusal[b].generation = row[b].generation
             /\ (AfterRefusal[b] = row[b] \/ row[b].state = "queued")
  BY <1>2 DEF AfterRefusal, Refused, Queued, Rows
<1>10. ASSUME NEW a \in Attempts, ClaimQueued(a) PROVE SlotStep
  <2>1. /\ row'[a].state = "reserved" /\ row'[a].generation = row[a].generation + 1
        /\ \A b \in Attempts \ {a} : row'[b] = AfterRefusal[b]
    <3>1. a \notin Refused
      BY <1>10 DEF ClaimQueued, Refused
    <3>2. AfterRefusal[a] = row[a] /\ AfterRefusal \in [Attempts -> Rows]
      BY <1>1, <3>1, TypeRefusal DEF AfterRefusal
    <3> QED BY <1>10, <1>2, <3>2 DEF ClaimQueued, Acquire, Rows
  <2>2. row[a].generation = 0
    BY <1>2, <1>10 DEF ClaimQueued, Grantable, Queued, RowFits
  <2>3. SlotOf(a) = "free" /\ SlotOf(a)' = "held"
    BY <2>1, <2>2 DEF SlotOf
  <2>4. \A b \in Attempts : BrowserOf(b)' = BrowserOf(b)
    BY <1>10 DEF ClaimQueued, BrowserOf, MayRun
  <2>5. ASSUME NEW b \in Attempts \ {a} PROVE SlotOf(b)' = SlotOf(b)
    <3>1. CASE AfterRefusal[b] = row[b]
      BY <2>1, <3>1 DEF SlotOf
    <3>2. CASE row[b].state = "queued"
      BY <1>8, <1>9, <2>1, <3>2
    <3> QED BY <1>9, <3>1, <3>2
  <2>6. Cardinality(Occupied) < GlobalConcurrency
    BY <1>1, <1>10, RoomForAttempt DEF ClaimQueued
  <2>7. KeepOthers(a)
    BY <2>4, <2>5 DEF KeepOthers, Keeps
  <2>8. Reserves(a)
    BY <2>3, <2>4, <2>6, <2>7 DEF Reserves
  <2> QED BY <2>8 DEF SlotStep, Moves
<1>11. CASE RefuseQueued
  <2>1. row' = AfterRefusal /\ remote' = remote
    BY <1>11 DEF RefuseQueued
  <2>2. ASSUME NEW b \in Attempts PROVE SlotOf(b)' = SlotOf(b)
    <3>1. CASE AfterRefusal[b] = row[b]
      BY <2>1, <3>1 DEF SlotOf
    <3>2. CASE row[b].state = "queued"
      BY <1>8, <1>9, <2>1, <3>2
    <3> QED BY <1>9, <3>1, <3>2
  <2> QED BY <1>3, <2>1, <2>2
<1>12. ASSUME NEW r \in Runs, Cancel(r) PROVE SlotStep
  <2>1. remote' = remote
    BY <1>12 DEF Cancel
  <2>2. ASSUME NEW b \in Attempts PROVE SlotOf(b)' = SlotOf(b)
    <3>1. \/ row'[b] = row[b]
          \/ row'[b] = [row[b] EXCEPT !.cancelled = TRUE]
          \/ row'[b] = [row[b] EXCEPT !.cancelled = TRUE, !.state = "settled", !.status = "cancelled",
                                      !.actual = 0] /\ row[b].state = "queued"
      BY <1>12 DEF Cancel
    <3>2. row'[b].generation = row[b].generation
          /\ (row'[b].state = row[b].state \/ row[b].state = "queued")
      BY <1>2, <3>1 DEF Rows
    <3> QED BY <1>8, <3>2 DEF SlotOf
  <2> QED BY <1>3, <2>1, <2>2
<1>13. ASSUME NEW a \in Attempts, LeaseExpires(a) \/ HolderStalls(a) \/ BackOffEnds(a) PROVE SlotStep
  <2>1. \A b \in Attempts : row'[b].generation = row[b].generation /\ row'[b].state = row[b].state
    BY <1>1, <1>2, <1>13 DEF LeaseExpires, HolderStalls, BackOffEnds, TypeOK, Rows
  <2> QED BY <1>3, <1>13, <2>1 DEF LeaseExpires, HolderStalls, BackOffEnds, SlotOf
<1>14. ASSUME NEW o \in Owners, JobStarts(o) \/ JobSettles(o) PROVE SlotStep
  BY <1>3, <1>14 DEF JobStarts, JobSettles, SlotOf
<1> QED BY <1>4, <1>5, <1>6, <1>7, <1>10, <1>11, <1>12, <1>13, <1>14 DEF Next

(* The managed attempts, with their leases, crashes, lost replies and      *)
(* unproven cleanups, implement the slots PaidSlot promises.               *)
THEOREM AttemptsImplementSlots == Spec => ImplementsPaidSlot
<1>1. Init => Slots!Init
  BY DEF Init, Slots!Init, SlotOf, BrowserOf
<1>2. AttemptInvariant /\ [Next]_vars => [Slots!Next]_(Slots!vars)
  BY StepMovesSlots, SlotStepRefines
<1> QED BY <1>1, <1>2, AttemptsHold, PTL DEF Spec, ImplementsPaidSlot, Slots!Spec
-----------------------------------------------------------------------------
(* The ceilings and the budgets.                                           *)
LEMMA TotalOfOne ==
  ASSUME NEW g, NEW o, g[o] \in Int
  PROVE  Total(g, {o}) = g[o]
<1>1. IsFiniteSet({o})
  BY FS_Singleton
<1>2. PICK s \in Sums(g, SUBSET {o}) : Total(g, {o}) = s[{o}]
  BY <1>1, TotalIsSums
<1>3. {o} \in SUBSET {o} /\ {o} # {} /\ {} \in SUBSET {o} /\ Some({o}) = o /\ {o} \ {o} = {}
  BY DEF Some
<1>4. s[{o}] = g[o] + s[{}]
  BY <1>2, <1>3 DEF Sums
<1>5. s[{}] = 0
  BY <1>3 DEF Sums
<1> QED BY <1>2, <1>4, <1>5

OccupiedBy(o) == {a \in AttemptsOf(o) : row[a].state \notin {"queued", "settled"}}
OpenJobs == [o \in Owners |-> jobs[o].open]
JobCharges == [o \in Owners |-> SessionSeconds * (jobs[o].open + jobs[o].settled)]
SlotsByOwner == [o \in Owners |-> OpenSlots(o)]
CoveredAmounts == [a \in Attempts |-> Covered(a)]
ChargedAmounts == [a \in Attempts |-> Charge(a)]
ReservedAmounts == [a \in Attempts |-> row[a].reserved]
Booked == Total(JobCharges, Owners) + Total(CoveredAmounts, Attempts)

LEMMA CountTypes ==
  ASSUME TypeOK
  PROVE  /\ IsFiniteSet(Occupied) /\ Cardinality(Occupied) \in Nat
         /\ \A o : IsFiniteSet(OccupiedBy(o)) /\ Cardinality(OccupiedBy(o)) \in Nat
         /\ \A o \in Owners : /\ jobs[o] \in [open : Nat, settled : Nat]
                              /\ OpenJobs[o] \in Nat /\ JobCharges[o] \in Nat
                              /\ SlotsByOwner[o] \in Nat /\ SlotsByOwner[o] = OpenSlots(o)
                              /\ OpenSlots(o) = jobs[o].open + Cardinality(OccupiedBy(o))
<1>1. IsFiniteSet(Occupied) /\ Cardinality(Occupied) \in Nat
  BY AttemptsAssumption, FS_Subset, FS_CardinalityType DEF Occupied
<1>2. \A o : IsFiniteSet(OccupiedBy(o)) /\ Cardinality(OccupiedBy(o)) \in Nat
  BY AttemptsAssumption, FS_Subset, FS_CardinalityType DEF OccupiedBy, AttemptsOf
<1>3. ASSUME NEW o \in Owners
      PROVE  /\ jobs[o] \in [open : Nat, settled : Nat]
             /\ OpenJobs[o] \in Nat /\ JobCharges[o] \in Nat
             /\ SlotsByOwner[o] \in Nat /\ SlotsByOwner[o] = OpenSlots(o)
             /\ OpenSlots(o) = jobs[o].open + Cardinality(OccupiedBy(o))
  <2>1. jobs[o] \in [open : Nat, settled : Nat] /\ jobs[o].open \in Nat /\ jobs[o].settled \in Nat
    BY DEF TypeOK
  <2>2. OpenSlots(o) = jobs[o].open + Cardinality(OccupiedBy(o))
    BY DEF OpenSlots, OccupiedBy
  <2>3. OpenSlots(o) \in Nat
    BY <1>2, <2>1, <2>2
  <2>4. SessionSeconds * (jobs[o].open + jobs[o].settled) \in Nat
    <3> DEFINE n == jobs[o].open + jobs[o].settled
    <3>1. n \in Nat /\ SessionSeconds \in Nat
      BY <2>1, PolicyAssumption
    <3> HIDE DEF n
    <3>2. SessionSeconds * n \in Nat
      BY <3>1
    <3> QED BY <3>2 DEF n
  <2> QED BY <2>1, <2>2, <2>3, <2>4 DEF OpenJobs, JobCharges, SlotsByOwner
<1> QED BY <1>1, <1>2, <1>3

(* The owners' slots add up to the occupancy of all of them.               *)
LEMMA SlotsCounted ==
  ASSUME TypeOK
  PROVE  Total(SlotsByOwner, Owners) = Cardinality(Occupied) + Total(OpenJobs, Owners)
<1>1. IsFiniteSet(Owners)
  BY OwnersAssumption
<1>2. \A o \in Owners : SlotsByOwner[o] \in Int /\ OpenJobs[o] \in Int
  BY CountTypes
<1>3. PICK s \in Sums(SlotsByOwner, SUBSET Owners) : Total(SlotsByOwner, Owners) = s[Owners]
  BY <1>1, <1>2, TotalIsSums
<1>4. PICK t \in Sums(OpenJobs, SUBSET Owners) : Total(OpenJobs, Owners) = t[Owners]
  BY <1>1, <1>2, TotalIsSums
<1> DEFINE Of(x) == {a \in Occupied : OwnerOfAttempt(a) \in x}
           P == {x \in SUBSET Owners : s[x] = Cardinality(Of(x)) + t[x]}
<1>5. {} \in P
  <2>1. Of({}) = {} /\ {} \in SUBSET Owners
    OBVIOUS
  <2>2. s[{}] = 0 /\ t[{}] = 0
    BY <1>3, <1>4, <2>1 DEF Sums
  <2>3. Cardinality(Of({})) = 0
    BY <2>1, FS_EmptySet
  <2> QED BY <2>1, <2>2, <2>3
<1>6. ASSUME NEW x \in SUBSET Owners, x # {}, x \ {Some(x)} \in P PROVE x \in P
  <2> DEFINE o == Some(x)
             y == x \ {o}
  <2>1. o \in x /\ o \in Owners /\ y \in SUBSET Owners
    BY <1>6 DEF Some
  <2>2. s[x] = SlotsByOwner[o] + s[y] /\ t[x] = OpenJobs[o] + t[y] /\ t[y] \in Int
    BY <1>3, <1>4, <1>6, <2>1 DEF Sums
  <2>3. Of(x) = Of(y) \cup OccupiedBy(o) /\ Of(y) \cap OccupiedBy(o) = {}
    BY <2>1 DEF OccupiedBy, AttemptsOf, Occupied
  <2>4. IsFiniteSet(Of(y)) /\ IsFiniteSet(OccupiedBy(o))
    BY CountTypes, FS_Subset
  <2>5. /\ Cardinality(Of(y)) \in Nat /\ Cardinality(OccupiedBy(o)) \in Nat
        /\ Cardinality({}) = 0
    BY <2>4, FS_CardinalityType, FS_EmptySet
  <2>6. Cardinality(Of(x)) = Cardinality(Of(y)) + Cardinality(OccupiedBy(o))
    <3>1. Cardinality(Of(y) \cup OccupiedBy(o))
            = Cardinality(Of(y)) + Cardinality(OccupiedBy(o)) - Cardinality(Of(y) \cap OccupiedBy(o))
      BY <2>4, FS_Union
    <3> HIDE DEF Of, o, y
    <3>2. Cardinality(Of(y) \cap OccupiedBy(o)) = 0
      BY <2>3, <2>5
    <3>3. Cardinality(Of(y) \cup OccupiedBy(o)) = Cardinality(Of(y)) + Cardinality(OccupiedBy(o))
      BY <2>5, <3>1, <3>2
    <3> QED BY <2>3, <3>3
  <2>7. SlotsByOwner[o] = jobs[o].open + Cardinality(OccupiedBy(o)) /\ OpenJobs[o] = jobs[o].open
        /\ jobs[o].open \in Nat
    BY <2>1, CountTypes DEF OpenJobs
  <2>8. s[y] = Cardinality(Of(y)) + t[y]
    BY <1>6
  <2>9. s[x] = Cardinality(Of(x)) + t[x]
    <3> HIDE DEF Of, o, y
    <3> QED BY <2>2, <2>5, <2>6, <2>7, <2>8
  <2> QED BY <2>9
<1>7. P \in SUBSET (SUBSET Owners)
  OBVIOUS
<1>8. P = SUBSET Owners
  <2> HIDE DEF P
  <2> QED BY <1>1, <1>5, <1>6, <1>7, SubsetInduction
<1>9. Of(Owners) = Occupied
  BY OwnershipAssumption DEF OwnerOfAttempt, Occupied
<1>10. s[Owners] = Cardinality(Of(Owners)) + t[Owners]
  BY <1>8
<1> QED BY <1>3, <1>4, <1>9, <1>10

(* What claim() compares with the ceilings, and with the budgets.          *)
LEMMA GuardsCount ==
  ASSUME TypeOK
  PROVE  /\ ~GlobalFull => Cardinality(Occupied) + Total(OpenJobs, Owners) < GlobalConcurrency
         /\ \A o \in Owners : ~OwnerFull(o) => OpenSlots(o) < OwnerConcurrency
<1>1. {a \in Occupied : OwnerOfAttempt(a) \in Owners} = Occupied
  BY OwnershipAssumption DEF Occupied, OwnerOfAttempt
<1>2. Occupancy(Owners) = Cardinality(Occupied) + Total(OpenJobs, Owners)
  BY <1>1 DEF Occupancy, OpenJobs
<1>3. Total(OpenJobs, Owners) \in Nat
  BY CountTypes, OwnersAssumption, TotalType
<1>4. ASSUME NEW o \in Owners PROVE Occupancy({o}) = OpenSlots(o)
  <2>1. {a \in Occupied : OwnerOfAttempt(a) \in {o}} = OccupiedBy(o)
    BY DEF Occupied, OccupiedBy, AttemptsOf
  <2>2. Total(OpenJobs, {o}) = jobs[o].open
    BY CountTypes, TotalOfOne DEF OpenJobs
  <2>3. jobs[o].open \in Nat /\ Cardinality(OccupiedBy(o)) \in Nat
    BY CountTypes
  <2>4. Occupancy({o}) = Cardinality(OccupiedBy(o)) + jobs[o].open
    BY <2>1, <2>2 DEF Occupancy, OpenJobs
  <2> QED BY <2>3, <2>4, CountTypes
<1>5. \A o \in Owners : OpenSlots(o) \in Nat
  BY CountTypes
<1> QED BY <1>2, <1>3, <1>4, <1>5, CountTypes, PolicyAssumption DEF GlobalFull, OwnerFull

LEMMA AmountTypes ==
  ASSUME TypeOK
  PROVE  /\ \A a \in Attempts : /\ CoveredAmounts[a] \in Int /\ CoveredAmounts[a] = Covered(a)
                                /\ ChargedAmounts[a] \in Int /\ Covered(a) <= Charge(a)
                                /\ ChargedAmounts[a] = Charge(a)
                                /\ ReservedAmounts[a] \in Nat /\ ReservedAmounts[a] = row[a].reserved
         /\ Total(CoveredAmounts, Attempts) \in Int /\ Total(ReservedAmounts, Attempts) \in Int
         /\ Total(ChargedAmounts, Attempts) \in Int /\ Total(JobCharges, Owners) \in Nat
<1>1. ASSUME NEW a \in Attempts
      PROVE  /\ row[a].reserved \in Nat /\ Charge(a) \in Int /\ Covered(a) \in Int
             /\ Covered(a) <= Charge(a)
  <2>1. row[a].reserved \in Nat /\ row[a].released \in Nat /\ row[a].consumed \in Nat
    BY DEF TypeOK, Rows
  <2>2. Charge(a) \in Int
    BY <2>1 DEF Charge, Larger
  <2> QED BY <2>1, <2>2 DEF Covered
<1>2. ASSUME NEW g, \A a \in Attempts : g[a] \in Int PROVE Total(g, Attempts) \in Int
  <2>1. PICK s \in Sums(g, SUBSET Attempts) : Total(g, Attempts) = s[Attempts]
    BY <1>2, AttemptsAssumption, TotalIsSums
  <2> QED BY <2>1 DEF Sums
<1>3. Total(JobCharges, Owners) \in Nat
  BY CountTypes, OwnersAssumption, TotalType
<1> QED BY <1>1, <1>2, <1>3 DEF CoveredAmounts, ChargedAmounts, ReservedAmounts

LEMMA BudgetsCount ==
  ASSUME TypeOK, NEW o \in Owners, ~BudgetExhausted(o)
  PROVE  /\ Booked + Baseline + SessionSeconds <= DevelopmentBudget
         /\ Reserved + SessionSeconds <= LifetimeLimit
         /\ Reserved = Total(JobCharges, Owners) + Total(ReservedAmounts, Attempts)
<1>1. {a \in Attempts : OwnerOfAttempt(a) \in Owners} = Attempts
  BY OwnershipAssumption DEF OwnerOfAttempt
<1>2. Committed(Owners) = Total(JobCharges, Owners) + Total(ChargedAmounts, Attempts)
  BY <1>1 DEF Committed, JobSeconds, JobCharges, ChargedAmounts
<1>3. Reserved = Total(JobCharges, Owners) + Total(ReservedAmounts, Attempts)
  BY DEF Reserved, JobSeconds, JobCharges, ReservedAmounts
<1>4. Total(CoveredAmounts, Attempts) <= Total(ChargedAmounts, Attempts)
  BY AmountTypes, AttemptsAssumption, TotalMonotone
<1>5. /\ Committed(Owners) \in Int /\ Reserved \in Int /\ Booked \in Int
      /\ Booked <= Committed(Owners)
  BY <1>2, <1>3, <1>4, AmountTypes DEF Booked
<1>6. /\ ~(Committed(Owners) + Baseline + SessionSeconds > DevelopmentBudget)
      /\ ~(Reserved + SessionSeconds > LifetimeLimit)
  BY DEF BudgetExhausted
<1> QED BY <1>3, <1>5, <1>6, PolicyAssumption

(* A queued attempt has cost nothing, an open one holds its reservation.   *)
AmountsFit(r) ==
  /\ r.state = "queued" => r.reserved = 0 /\ r.consumed = 0 /\ r.released = 0
  /\ Open(r) => r.reserved = SessionSeconds /\ r.released = 0

LimitsInvariant ==
  /\ AttemptInvariant
  /\ \A a \in Attempts : AmountsFit(row[a])
  /\ Cardinality(Occupied) + Total(OpenJobs, Owners) <= GlobalConcurrency
  /\ \A o \in Owners : OpenSlots(o) <= OwnerConcurrency
  /\ Booked > 0 => Booked + Baseline <= DevelopmentBudget
  /\ Total(JobCharges, Owners) + Total(ReservedAmounts, Attempts) <= LifetimeLimit

(* The same of the next state.                                             *)
CountsTyped ==
  /\ Cardinality(Occupied) \in Nat
  /\ \A o \in Owners : /\ Cardinality(OccupiedBy(o)) \in Nat
                       /\ OpenJobs[o] \in Nat
                       /\ OpenSlots(o) = jobs[o].open + Cardinality(OccupiedBy(o))
  /\ \A a \in Attempts : CoveredAmounts[a] \in Int /\ CoveredAmounts[a] = Covered(a)
  /\ Total(CoveredAmounts, Attempts) \in Int

LEMMA TypesNext == TypeOK' => CountsTyped'
<1>1. TypeOK => CountsTyped
  BY CountTypes, AmountTypes DEF CountsTyped
<1> QED BY <1>1, PTL

LEMMA LimitsInit == Init => LimitsInvariant
<1> SUFFICES ASSUME Init PROVE LimitsInvariant
  OBVIOUS
<1>1. AttemptInvariant /\ TypeOK
  BY InvariantInit, TypeInit
<1>2. \A a \in Attempts : AmountsFit(row[a])
  BY DEF Init, AmountsFit, Open
<1>3. Occupied = {} /\ \A o : OccupiedBy(o) = {}
  BY DEF Init, Occupied, OccupiedBy, AttemptsOf
<1>4. Cardinality({}) = 0
  BY FS_EmptySet
<1>5. ASSUME NEW S, IsFiniteSet(S), NEW g, \A x \in S : g[x] = 0 PROVE Total(g, S) = 0
  <2>1. \A x \in S : g[x] \in Int
    BY <1>5
  <2>2. PICK s \in Sums(g, SUBSET S) : Total(g, S) = s[S]
    BY <1>5, <2>1, TotalIsSums
  <2> DEFINE P == {x \in SUBSET S : s[x] = 0}
  <2>3. {} \in P
    <3>1. {} \in SUBSET S
      OBVIOUS
    <3> QED BY <2>2, <3>1 DEF Sums
  <2>4. ASSUME NEW x \in SUBSET S, x # {}, x \ {Some(x)} \in P PROVE x \in P
    <3>1. Some(x) \in x
      BY <2>4 DEF Some
    <3>2. s[x] = g[Some(x)] + s[x \ {Some(x)}]
      BY <2>2, <2>4 DEF Sums
    <3> QED BY <1>5, <2>4, <3>1, <3>2
  <2>5. P \in SUBSET (SUBSET S)
    OBVIOUS
  <2>6. P = SUBSET S
    <3> HIDE DEF P
    <3> QED BY <1>5, <2>3, <2>4, <2>5, SubsetInduction
  <2> QED BY <2>2, <2>6
<1>6. \A o \in Owners : OpenJobs[o] = 0 /\ JobCharges[o] = 0
  BY PolicyAssumption DEF Init, OpenJobs, JobCharges
<1>7. \A a \in Attempts : CoveredAmounts[a] = 0 /\ ReservedAmounts[a] = 0
  BY DEF Init, CoveredAmounts, Covered, Charge, Larger, ReservedAmounts
<1>8. /\ Total(OpenJobs, Owners) = 0 /\ Total(JobCharges, Owners) = 0
      /\ Total(CoveredAmounts, Attempts) = 0 /\ Total(ReservedAmounts, Attempts) = 0
  BY <1>5, <1>6, <1>7, OwnersAssumption, AttemptsAssumption
<1>9. ASSUME NEW o \in Owners PROVE OpenSlots(o) = 0
  <2>1. OpenSlots(o) = jobs[o].open + Cardinality(OccupiedBy(o))
    BY <1>1, CountTypes
  <2>2. jobs[o].open = 0 /\ Cardinality(OccupiedBy(o)) = 0
    BY <1>3, <1>4 DEF Init
  <2> QED BY <2>1, <2>2
<1> QED BY <1>1, <1>2, <1>3, <1>4, <1>8, <1>9, PolicyAssumption DEF LimitsInvariant, Booked

(* No step but a claim and an ordinary job's start takes a slot or spends. *)
LEMMA LimitsKept ==
  ASSUME LimitsInvariant, AttemptInvariant',
         \A a \in Attempts : /\ AmountsFit(row'[a])
                             /\ row'[a].reserved = row[a].reserved
                             /\ Covered(a)' <= Covered(a)
                             /\ row'[a].state \notin {"queued", "settled"}
                                  => row[a].state \notin {"queued", "settled"},
         \A o \in Owners : jobs'[o].open <= jobs[o].open,
         JobCharges' = JobCharges
  PROVE  LimitsInvariant'
<1>1. TypeOK /\ TypeOK'
  BY DEF LimitsInvariant, AttemptInvariant
<1>2. Occupied' \subseteq Occupied /\ \A o : OccupiedBy(o)' \subseteq OccupiedBy(o)
  BY DEF Occupied, OccupiedBy, AttemptsOf
<1>3. /\ Cardinality(Occupied') <= Cardinality(Occupied)
      /\ \A o : Cardinality(OccupiedBy(o)') <= Cardinality(OccupiedBy(o))
  <2>1. IsFiniteSet(Occupied) /\ \A o : IsFiniteSet(OccupiedBy(o))
    BY <1>1, CountTypes
  <2> QED BY <1>2, <2>1, FS_Subset
<1>4. /\ Cardinality(Occupied) \in Nat /\ Cardinality(Occupied)' \in Nat
      /\ \A o \in Owners : /\ Cardinality(OccupiedBy(o)) \in Nat
                           /\ Cardinality(OccupiedBy(o)') \in Nat
                           /\ OpenJobs[o] \in Nat /\ OpenJobs'[o] \in Nat
                           /\ jobs[o].open \in Nat /\ jobs'[o].open \in Nat
                           /\ OpenSlots(o) = jobs[o].open + Cardinality(OccupiedBy(o))
                           /\ OpenSlots(o)' = jobs'[o].open + Cardinality(OccupiedBy(o)')
                           /\ OpenJobs'[o] <= OpenJobs[o]
  <2>1. ASSUME NEW o \in Owners PROVE OpenJobs[o] = jobs[o].open /\ OpenJobs'[o] = jobs'[o].open
    BY DEF OpenJobs
  <2>2. /\ Cardinality(Occupied)' \in Nat
        /\ \A o \in Owners : /\ Cardinality(OccupiedBy(o)') \in Nat
                             /\ OpenJobs'[o] \in Nat
                             /\ OpenSlots(o)' = jobs'[o].open + Cardinality(OccupiedBy(o)')
    BY <1>1, TypesNext DEF CountsTyped
  <2> QED BY <1>1, <2>1, <2>2, CountTypes
<1>5. Total(OpenJobs', Owners) <= Total(OpenJobs, Owners)
  <2>1. \A o \in Owners : OpenJobs[o] \in Int /\ OpenJobs'[o] \in Int
    BY <1>4
  <2> QED BY <1>4, <2>1, OwnersAssumption, TotalMonotone
<1>6. /\ Total(OpenJobs, Owners) \in Nat /\ Total(OpenJobs', Owners) \in Nat
  BY <1>4, OwnersAssumption, TotalType
<1>7. ReservedAmounts' = ReservedAmounts
  BY DEF ReservedAmounts
<1>8. ASSUME NEW a \in Attempts
      PROVE  CoveredAmounts[a] \in Int /\ CoveredAmounts'[a] \in Int
             /\ CoveredAmounts'[a] <= CoveredAmounts[a]
  <2>1. CoveredAmounts'[a] \in Int /\ CoveredAmounts'[a] = Covered(a)'
    BY <1>1, TypesNext DEF CountsTyped
  <2>2. CoveredAmounts[a] \in Int /\ CoveredAmounts[a] = Covered(a)
    BY <1>1, AmountTypes
  <2> QED BY <1>1, <2>1, <2>2
<1>9. Total(CoveredAmounts', Attempts) <= Total(CoveredAmounts, Attempts)
  BY <1>8, AttemptsAssumption, TotalMonotone
<1>10. /\ Total(CoveredAmounts, Attempts) \in Int /\ Total(JobCharges, Owners) \in Int
       /\ Total(CoveredAmounts', Attempts) \in Int
  <2>1. Total(CoveredAmounts', Attempts) \in Int
    BY <1>1, TypesNext DEF CountsTyped
  <2> QED BY <1>1, <2>1, AmountTypes
<1>11. Cardinality(Occupied') + Total(OpenJobs', Owners) <= GlobalConcurrency
  BY <1>3, <1>4, <1>5, <1>6, PolicyAssumption DEF LimitsInvariant
<1>12. ASSUME NEW o \in Owners PROVE OpenSlots(o)' <= OwnerConcurrency
  BY <1>3, <1>4, PolicyAssumption DEF LimitsInvariant
<1>13. Booked' > 0 => Booked' + Baseline <= DevelopmentBudget
  <2>1. Booked' <= Booked /\ Booked \in Int /\ Booked' \in Int
    BY <1>9, <1>10 DEF Booked
  <2> QED BY <2>1, PolicyAssumption DEF LimitsInvariant
<1>14. Total(JobCharges', Owners) + Total(ReservedAmounts', Attempts) <= LifetimeLimit
  BY <1>7 DEF LimitsInvariant
<1> QED BY <1>11, <1>12, <1>13, <1>14 DEF LimitsInvariant

LEMMA OneMore ==
  ASSUME NEW S, IsFiniteSet(S), NEW a, NEW T, T \subseteq S \cup {a}
  PROVE  Cardinality(T) <= Cardinality(S) + 1
<1>1. /\ IsFiniteSet(S \cup {a}) /\ Cardinality(S) \in Nat /\ Cardinality(S \cup {a}) \in Nat
      /\ Cardinality(S \cup {a}) <= Cardinality(S) + 1
  <2>1. IsFiniteSet(S \cup {a}) /\ Cardinality(S) \in Nat
    BY FS_AddElement, FS_CardinalityType
  <2>2. Cardinality(S \cup {a}) = Cardinality(S) \/ Cardinality(S \cup {a}) = Cardinality(S) + 1
    BY FS_AddElement
  <2> QED BY <2>1, <2>2
<1>2. Cardinality(T) <= Cardinality(S \cup {a}) /\ Cardinality(T) \in Nat
  BY <1>1, FS_Subset, FS_CardinalityType
<1> QED BY <1>1, <1>2

(* The claim of a queued attempt takes one slot and one reservation where  *)
(* the ceilings and the budgets leave room for them.                       *)
LEMMA LimitsClaim ==
  ASSUME LimitsInvariant, NEW a \in Attempts, ClaimQueued(a)
  PROVE  LimitsInvariant'
<1> DEFINE o == OwnerOfAttempt(a)
<1>1. AttemptInvariant /\ AttemptInvariant' /\ TypeOK /\ TypeOK'
  BY InvariantClaim DEF LimitsInvariant, AttemptInvariant
<1>2. \A b \in Attempts : row[b] \in Rows /\ AmountsFit(row[b])
  BY <1>1 DEF LimitsInvariant, TypeOK
<1>3. o \in Owners
  BY OwnershipAssumption DEF OwnerOfAttempt
<1>4. /\ row[a].state = "queued" /\ ~OwnerFull(o) /\ ~BudgetExhausted(o) /\ ~GlobalFull
      /\ jobs' = jobs
  BY DEF ClaimQueued, Grantable, Queued
<1>5. /\ row'[a].state = "reserved" /\ row'[a].reserved = SessionSeconds
      /\ row'[a].consumed = row[a].consumed /\ row'[a].released = row[a].released
      /\ \A b \in Attempts \ {a} : row'[b] = AfterRefusal[b]
  <2>1. a \notin Refused
    BY DEF ClaimQueued, Refused
  <2>2. AfterRefusal[a] = row[a] /\ AfterRefusal \in [Attempts -> Rows]
    BY <1>1, <2>1, TypeRefusal DEF AfterRefusal
  <2> DEFINE later == row[a].generation + 1
  <2>3. row'[a] = [row[a] EXCEPT !.state = "reserved", !.status = "running",
                                 !.reserved = SessionSeconds, !.generation = later,
                                 !.leaseLive = TRUE]
    BY <1>2, <2>2 DEF ClaimQueued, Acquire, Rows
  <2>4. \A b \in Attempts \ {a} : row'[b] = AfterRefusal[b]
    BY <2>2 DEF ClaimQueued, Acquire
  <2> HIDE DEF later
  <2> QED BY <1>2, <2>3, <2>4 DEF Rows
<1>6. ASSUME NEW b \in Attempts \ {a}
      PROVE  /\ row'[b].reserved = row[b].reserved /\ row'[b].consumed = row[b].consumed
             /\ row'[b].released = row[b].released
             /\ row'[b].state = row[b].state \/ row'[b].state = "settled"
  <2>1. \/ row'[b] = row[b]
        \/ row'[b] = [row[b] EXCEPT !.state = "settled", !.status = "failed", !.actual = 0]
    BY <1>5 DEF AfterRefusal
  <2> QED BY <1>2, <2>1 DEF Rows
<1>7. ASSUME NEW b \in Attempts PROVE AmountsFit(row'[b])
  <2>1. CASE b = a
    BY <1>2, <1>4, <1>5, <2>1 DEF AmountsFit, Open
  <2>2. CASE b # a
    BY <1>2, <1>6, <2>2 DEF AmountsFit, Open
  <2> QED BY <2>1, <2>2
<1>8. Covered(a) = 0 /\ Covered(a)' = SessionSeconds /\ row[a].reserved = 0
  <2>1. row[a].reserved = 0 /\ row[a].consumed = 0 /\ row[a].released = 0
    BY <1>2, <1>4 DEF AmountsFit
  <2>2. Covered(a) = 0
    BY <2>1 DEF Covered, Charge, Larger
  <2>3. Covered(a)' = SessionSeconds
    BY <1>5, <2>1, PolicyAssumption DEF Covered, Charge, Larger
  <2> QED BY <2>1, <2>2, <2>3
<1>9. \A b \in Attempts \ {a} : Covered(b)' = Covered(b)
  BY <1>6 DEF Covered, Charge
<1>10. /\ Cardinality(Occupied) \in Nat /\ Cardinality(Occupied)' \in Nat
       /\ Total(OpenJobs, Owners) \in Nat /\ OpenJobs' = OpenJobs /\ JobCharges' = JobCharges
  BY <1>1, <1>4, CountTypes, TypesNext, OwnersAssumption, TotalType
     DEF CountsTyped, OpenJobs, JobCharges
<1>11. Cardinality(Occupied)' <= Cardinality(Occupied) + 1
  <2>1. Occupied' \subseteq Occupied \cup {a}
    BY <1>6 DEF Occupied
  <2> QED BY <1>1, <2>1, OneMore, CountTypes
<1>12. Cardinality(Occupied') + Total(OpenJobs', Owners) <= GlobalConcurrency
  BY <1>1, <1>4, <1>10, <1>11, GuardsCount, PolicyAssumption
<1>13. ASSUME NEW p \in Owners PROVE OpenSlots(p)' <= OwnerConcurrency
  <2>1. /\ Cardinality(OccupiedBy(p)) \in Nat /\ Cardinality(OccupiedBy(p))' \in Nat
        /\ jobs[p].open \in Nat
        /\ OpenSlots(p) = jobs[p].open + Cardinality(OccupiedBy(p))
        /\ OpenSlots(p)' = jobs[p].open + Cardinality(OccupiedBy(p))'
        /\ IsFiniteSet(OccupiedBy(p))
    BY <1>1, <1>4, CountTypes, TypesNext DEF CountsTyped
  <2>2. CASE p = o
    <3>1. OccupiedBy(p)' \subseteq OccupiedBy(p) \cup {a}
      BY <1>6 DEF OccupiedBy, AttemptsOf
    <3>2. Cardinality(OccupiedBy(p))' <= Cardinality(OccupiedBy(p)) + 1
      BY <2>1, <3>1, OneMore
    <3>3. OpenSlots(p) < OwnerConcurrency
      BY <1>1, <1>4, <2>2, GuardsCount
    <3> QED BY <2>1, <3>2, <3>3, PolicyAssumption
  <2>3. CASE p # o
    <3>1. OccupiedBy(p)' \subseteq OccupiedBy(p)
      BY <1>6, <2>3 DEF OccupiedBy, AttemptsOf
    <3>2. Cardinality(OccupiedBy(p))' <= Cardinality(OccupiedBy(p))
      BY <2>1, <3>1, FS_Subset
    <3>3. OpenSlots(p) <= OwnerConcurrency
      BY DEF LimitsInvariant
    <3> QED BY <2>1, <3>2, <3>3, PolicyAssumption
  <2> QED BY <2>2, <2>3
<1>14. /\ \A b \in Attempts : /\ CoveredAmounts[b] \in Int /\ CoveredAmounts'[b] \in Int
                              /\ ReservedAmounts[b] \in Int /\ ReservedAmounts'[b] \in Int
       /\ \A b \in Attempts \ {a} : /\ CoveredAmounts[b] = CoveredAmounts'[b]
                                    /\ ReservedAmounts[b] = ReservedAmounts'[b]
       /\ CoveredAmounts[a] = 0 /\ CoveredAmounts'[a] = SessionSeconds
       /\ ReservedAmounts[a] = 0 /\ ReservedAmounts'[a] = SessionSeconds
  <2>1. \A b \in Attempts : CoveredAmounts[b] = Covered(b) /\ CoveredAmounts'[b] = Covered(b)'
    BY DEF CoveredAmounts
  <2>2. \A b \in Attempts : ReservedAmounts[b] = row[b].reserved /\ ReservedAmounts'[b] = row'[b].reserved
    BY DEF ReservedAmounts
  <2>3. \A b \in Attempts : row[b].reserved \in Int /\ row'[b].reserved \in Int
    BY <1>1 DEF TypeOK, Rows
  <2>4. \A b \in Attempts : CoveredAmounts[b] \in Int /\ CoveredAmounts'[b] \in Int
    BY <1>1, AmountTypes, TypesNext DEF CountsTyped
  <2> QED BY <1>5, <1>6, <1>8, <1>9, <2>1, <2>2, <2>3, <2>4
<1>15. /\ Total(CoveredAmounts', Attempts) = Total(CoveredAmounts, Attempts) + SessionSeconds
       /\ Total(ReservedAmounts', Attempts) = Total(ReservedAmounts, Attempts) + SessionSeconds
  <2>1. Total(CoveredAmounts', Attempts)
          = Total(CoveredAmounts, Attempts) + (CoveredAmounts'[a] - CoveredAmounts[a])
    <3>1. /\ \A b \in Attempts : CoveredAmounts[b] \in Int
          /\ \A b \in Attempts : CoveredAmounts'[b] \in Int
          /\ \A b \in Attempts \ {a} : CoveredAmounts[b] = CoveredAmounts'[b]
          /\ IsFiniteSet(Attempts)
      BY <1>14, AttemptsAssumption
    <3> QED BY <3>1, TotalChanged
  <2>2. Total(ReservedAmounts', Attempts)
          = Total(ReservedAmounts, Attempts) + (ReservedAmounts'[a] - ReservedAmounts[a])
    <3>1. /\ \A b \in Attempts : ReservedAmounts[b] \in Int
          /\ \A b \in Attempts : ReservedAmounts'[b] \in Int
          /\ \A b \in Attempts \ {a} : ReservedAmounts[b] = ReservedAmounts'[b]
          /\ IsFiniteSet(Attempts)
      BY <1>14, AttemptsAssumption
    <3> QED BY <3>1, TotalChanged
  <2> QED BY <1>14, <2>1, <2>2, PolicyAssumption
<1>16. /\ Total(JobCharges, Owners) \in Int /\ Total(CoveredAmounts, Attempts) \in Int
       /\ Total(ReservedAmounts, Attempts) \in Int
  BY <1>1, AmountTypes
<1>17. /\ Booked + Baseline + SessionSeconds <= DevelopmentBudget
       /\ Total(JobCharges, Owners) + Total(ReservedAmounts, Attempts) + SessionSeconds <= LifetimeLimit
  BY <1>1, <1>3, <1>4, BudgetsCount
<1>18. Booked' = Booked + SessionSeconds /\ Booked \in Int
  BY <1>10, <1>15, <1>16, PolicyAssumption DEF Booked
<1>19. Booked' + Baseline <= DevelopmentBudget
  BY <1>17, <1>18, PolicyAssumption
<1>20. Total(JobCharges', Owners) + Total(ReservedAmounts', Attempts) <= LifetimeLimit
  BY <1>10, <1>15, <1>16, <1>17, PolicyAssumption
<1> QED BY <1>1, <1>7, <1>12, <1>13, <1>19, <1>20 DEF LimitsInvariant

(* So does the start of an ordinary job.                                   *)
LEMMA LimitsJob ==
  ASSUME LimitsInvariant, NEW o \in Owners, JobStarts(o)
  PROVE  LimitsInvariant'
<1>1. AttemptInvariant /\ AttemptInvariant' /\ TypeOK /\ TypeOK'
  BY InvariantRows DEF LimitsInvariant, AttemptInvariant
<1>2. ~OwnerFull(o) /\ ~BudgetExhausted(o) /\ ~GlobalFull /\ row' = row
  BY DEF JobStarts
<1>3. /\ jobs[o].open \in Nat /\ jobs[o].settled \in Nat
      /\ jobs'[o].open = jobs[o].open + 1 /\ jobs'[o].settled = jobs[o].settled
      /\ \A p \in Owners \ {o} : jobs'[p] = jobs[p]
  BY <1>1 DEF JobStarts, TypeOK
<1>4. /\ \A a \in Attempts : AmountsFit(row'[a])
      /\ Occupied' = Occupied /\ CoveredAmounts' = CoveredAmounts /\ ReservedAmounts' = ReservedAmounts
      /\ \A p : OccupiedBy(p)' = OccupiedBy(p)
  BY <1>2 DEF LimitsInvariant, Occupied, OccupiedBy, AttemptsOf, CoveredAmounts, ReservedAmounts, Covered,
              Charge
<1>5. \A p \in Owners : /\ OpenJobs[p] \in Int /\ OpenJobs'[p] \in Int
                        /\ JobCharges[p] \in Int /\ JobCharges'[p] \in Int
  <2>1. TypeOK => \A p \in Owners : OpenJobs[p] \in Nat /\ JobCharges[p] \in Nat
    BY CountTypes
  <2>2. \A p \in Owners : OpenJobs'[p] \in Nat
    BY <1>1, TypesNext DEF CountsTyped
  <2>3. \A p \in Owners \ {o} : JobCharges'[p] = JobCharges[p]
    BY <1>3 DEF JobCharges
  <2>4. JobCharges'[o] = SessionSeconds * (jobs'[o].open + jobs'[o].settled)
    BY DEF JobCharges
  <2>5. JobCharges'[o] \in Int
    <3> DEFINE n == jobs'[o].open + jobs'[o].settled
    <3>1. n \in Int /\ SessionSeconds \in Int
      BY <1>3, PolicyAssumption
    <3> HIDE DEF n
    <3>2. SessionSeconds * n \in Int
      BY <3>1
    <3> QED BY <2>4, <3>2 DEF n
  <2> QED BY <1>1, <2>1, <2>2, <2>3, <2>5
<1>6. /\ OpenJobs'[o] = OpenJobs[o] + 1 /\ JobCharges'[o] = JobCharges[o] + SessionSeconds
      /\ \A p \in Owners \ {o} : OpenJobs[p] = OpenJobs'[p] /\ JobCharges[p] = JobCharges'[p]
  <2>1. /\ OpenJobs[o] = jobs[o].open /\ OpenJobs'[o] = jobs'[o].open
        /\ JobCharges[o] = SessionSeconds * (jobs[o].open + jobs[o].settled)
        /\ JobCharges'[o] = SessionSeconds * (jobs'[o].open + jobs'[o].settled)
    BY DEF OpenJobs, JobCharges
  <2>2. \A p \in Owners \ {o} : OpenJobs[p] = OpenJobs'[p] /\ JobCharges[p] = JobCharges'[p]
    BY <1>3 DEF OpenJobs, JobCharges
  <2>3. JobCharges'[o] = JobCharges[o] + SessionSeconds
    <3> DEFINE n == jobs[o].open + jobs[o].settled
    <3>1. n \in Int /\ SessionSeconds \in Int /\ jobs'[o].open + jobs'[o].settled = n + 1
      BY <1>3, PolicyAssumption
    <3>2. JobCharges[o] = SessionSeconds * n /\ JobCharges'[o] = SessionSeconds * (n + 1)
      BY <2>1, <3>1
    <3> HIDE DEF n
    <3>3. SessionSeconds * (n + 1) = SessionSeconds * n + SessionSeconds
      BY <3>1
    <3> QED BY <3>2, <3>3
  <2> QED BY <1>3, <2>1, <2>2, <2>3
<1>7. /\ Total(OpenJobs', Owners) = Total(OpenJobs, Owners) + 1
      /\ Total(JobCharges', Owners) = Total(JobCharges, Owners) + SessionSeconds
  <2>1. /\ Total(OpenJobs', Owners) = Total(OpenJobs, Owners) + (OpenJobs'[o] - OpenJobs[o])
        /\ Total(JobCharges', Owners) = Total(JobCharges, Owners) + (JobCharges'[o] - JobCharges[o])
    BY <1>5, <1>6, OwnersAssumption, TotalChanged
  <2> QED BY <1>5, <1>6, <2>1, PolicyAssumption
<1>8. /\ Cardinality(Occupied) \in Nat /\ Total(OpenJobs, Owners) \in Nat
      /\ Total(JobCharges, Owners) \in Int /\ Total(CoveredAmounts, Attempts) \in Int
      /\ Total(ReservedAmounts, Attempts) \in Int
  BY <1>1, CountTypes, AmountTypes, OwnersAssumption, TotalType
<1>9. Cardinality(Occupied') + Total(OpenJobs', Owners) <= GlobalConcurrency
  BY <1>1, <1>2, <1>4, <1>7, <1>8, GuardsCount, PolicyAssumption
<1>10. ASSUME NEW p \in Owners PROVE OpenSlots(p)' <= OwnerConcurrency
  <2>1. /\ Cardinality(OccupiedBy(p)) \in Nat /\ jobs[p].open \in Nat
        /\ OpenSlots(p) = jobs[p].open + Cardinality(OccupiedBy(p))
        /\ OpenSlots(p)' = jobs'[p].open + Cardinality(OccupiedBy(p))
    BY <1>1, <1>4, CountTypes, TypesNext DEF CountsTyped
  <2>2. CASE p = o
    <3>1. OpenSlots(p) < OwnerConcurrency
      BY <1>1, <1>2, <2>2, GuardsCount
    <3> QED BY <1>3, <2>1, <2>2, <3>1, PolicyAssumption
  <2>3. CASE p # o
    BY <1>3, <2>1, <2>3 DEF LimitsInvariant
  <2> QED BY <2>2, <2>3
<1>11. /\ Booked + Baseline + SessionSeconds <= DevelopmentBudget
       /\ Total(JobCharges, Owners) + Total(ReservedAmounts, Attempts) + SessionSeconds <= LifetimeLimit
  BY <1>1, <1>2, BudgetsCount
<1>12. Booked' = Booked + SessionSeconds /\ Booked \in Int
  BY <1>4, <1>7, <1>8, PolicyAssumption DEF Booked
<1>13. Booked' + Baseline <= DevelopmentBudget
  BY <1>11, <1>12, PolicyAssumption
<1>14. Total(JobCharges', Owners) + Total(ReservedAmounts', Attempts) <= LifetimeLimit
  BY <1>4, <1>7, <1>8, <1>11, PolicyAssumption
<1> QED BY <1>1, <1>4, <1>9, <1>10, <1>13, <1>14 DEF LimitsInvariant

(* The row finish() writes: an attempt that keeps its slot keeps its       *)
(* reservation, and one that settles is charged no more than that.         *)
LEMMA AmountsFinish ==
  ASSUME LimitsInvariant, NEW t \in tasks, Finish(t)
  PROVE  \A b \in Attempts :
           /\ AmountsFit(row'[b]) /\ row'[b].reserved = row[b].reserved /\ Covered(b)' <= Covered(b)
           /\ row'[b].state \notin {"queued", "settled"} => row[b].state \notin {"queued", "settled"}
<1> DEFINE a == t.attempt
<1>1. AttemptInvariant /\ TypeOK /\ TypeOK'
  BY TypeEnds DEF LimitsInvariant, AttemptInvariant
<1>2. t \in Tasks /\ a \in Attempts /\ row[a] \in Rows /\ row'[a] \in Rows
  BY <1>1 DEF TypeOK, Tasks
<1>3. /\ row[a].leaseLive /\ \A b \in Attempts \ {a} : row'[b] = row[b]
      /\ AmountsFit(row[a]) /\ RowFits(row[a], remote[a])
  BY <1>1, <1>2 DEF Finish, Holds, TypeOK, LimitsInvariant, AttemptInvariant, RowsFit
<1>4. Open(row[a]) /\ row[a].reserved = SessionSeconds /\ row[a].released = 0
  BY <1>3 DEF RowFits, AmountsFit
<1>5. /\ row'[a].reserved = row[a].reserved
      /\ row'[a].state = IF t.closed THEN "settled" ELSE "quarantined"
      /\ ~t.closed => row'[a].released = 0
  <2> DEFINE actual == IF t.seconds = NULL THEN row[a].actual
                       ELSE Larger(Known(row[a].actual), t.seconds)
             consumed == Consumed(t, actual)
             released == Refund(t, consumed)
             measured == IF actual = NULL /\ t.closed
                            /\ ~(row[a].dispatched \/ row[a].runKnown \/ t.allocated)
                         THEN 0 ELSE actual
             status == Status(t)
             state == IF t.closed THEN "settled" ELSE "quarantined"
             waits == ~t.closed
  <2>1. row'[a] = [row[a] EXCEPT !.state = state, !.status = status, !.actual = measured,
                                 !.consumed = consumed, !.released = released,
                                 !.leaseLive = FALSE, !.backingOff = waits]
    BY <1>1, <1>2 DEF Finish, TypeOK
  <2>2. ~t.closed => released = 0
    BY DEF Refund
  <2> HIDE DEF measured, consumed, released, status, state, waits
  <2>3. row'[a].reserved = row[a].reserved /\ row'[a].state = state /\ row'[a].released = released
    BY <1>2, <2>1 DEF Rows
  <2> QED BY <2>2, <2>3 DEF state
<1>6. AmountsFit(row'[a])
  BY <1>4, <1>5 DEF AmountsFit, Open
<1>7. Covered(a) = SessionSeconds
  <2>1. row[a].consumed \in Nat /\ SessionSeconds \in Nat
    BY <1>2, PolicyAssumption DEF Rows
  <2>2. Charge(a) >= SessionSeconds /\ Charge(a) \in Int
    BY <1>4, <2>1 DEF Charge, Larger
  <2> QED BY <1>4, <2>1, <2>2 DEF Covered
<1>8. Covered(a)' <= SessionSeconds
  <2>1. /\ row'[a].reserved = SessionSeconds /\ row'[a].released \in Nat /\ row'[a].consumed \in Nat
        /\ SessionSeconds \in Nat
    BY <1>2, <1>4, <1>5, PolicyAssumption DEF Rows
  <2>2. Charge(a)' \in Int
    BY <2>1 DEF Charge, Larger
  <2> QED BY <2>1, <2>2 DEF Covered
<1>9. ASSUME NEW b \in Attempts, b # a
      PROVE  /\ AmountsFit(row'[b]) /\ row'[b].reserved = row[b].reserved /\ Covered(b)' <= Covered(b)
             /\ row'[b].state = row[b].state
  <2>1. row'[b] = row[b]
    BY <1>3, <1>9
  <2>2. Covered(b)' = Covered(b) /\ Covered(b) \in Int
    BY <1>1, <2>1, AmountTypes DEF Covered, Charge
  <2> QED BY <2>1, <2>2 DEF LimitsInvariant
<1> QED BY <1>4, <1>5, <1>6, <1>7, <1>8, <1>9 DEF Open

(* The other steps leave the amounts alone, and open no row.               *)
LEMMA AmountsStay ==
  ASSUME LimitsInvariant, NEW b \in Attempts,
         /\ row'[b].reserved = row[b].reserved /\ row'[b].consumed = row[b].consumed
         /\ row'[b].released = row[b].released,
         row'[b].state = row[b].state \/ row'[b].state = "settled"
           \/ (Open(row[b]) /\ Open(row'[b]))
  PROVE  /\ AmountsFit(row'[b]) /\ row'[b].reserved = row[b].reserved /\ Covered(b)' <= Covered(b)
         /\ row'[b].state \notin {"queued", "settled"} => row[b].state \notin {"queued", "settled"}
<1>1. AmountsFit(row[b]) /\ TypeOK
  BY DEF LimitsInvariant, AttemptInvariant
<1>2. AmountsFit(row'[b])
  BY <1>1 DEF AmountsFit, Open
<1>3. Covered(b)' = Covered(b) /\ Covered(b) \in Int
  BY <1>1, AmountTypes DEF Covered, Charge
<1> QED BY <1>2, <1>3 DEF Open

LEMMA LimitsOther ==
  ASSUME LimitsInvariant, AttemptInvariant', jobs' = jobs,
         \A b \in Attempts :
           /\ row'[b].reserved = row[b].reserved /\ row'[b].consumed = row[b].consumed
           /\ row'[b].released = row[b].released
           /\ row'[b].state = row[b].state \/ row'[b].state = "settled"
                \/ (Open(row[b]) /\ Open(row'[b]))
  PROVE  LimitsInvariant'
<1>1. TypeOK
  BY DEF LimitsInvariant, AttemptInvariant
<1>2. \A o \in Owners : jobs'[o].open <= jobs[o].open
  <2>1. \A o \in Owners : jobs[o].open \in Nat
    BY <1>1 DEF TypeOK
  <2> QED BY <2>1
<1>3. JobCharges' = JobCharges
  BY DEF JobCharges
<1>4. \A b \in Attempts :
        /\ AmountsFit(row'[b]) /\ row'[b].reserved = row[b].reserved /\ Covered(b)' <= Covered(b)
        /\ row'[b].state \notin {"queued", "settled"} => row[b].state \notin {"queued", "settled"}
  BY AmountsStay
<1> QED BY <1>2, <1>3, <1>4, LimitsKept

LEMMA LimitsTask ==
  ASSUME LimitsInvariant, NEW t \in tasks, TaskStep(t) \/ Crash(t)
  PROVE  LimitsInvariant'
<1> DEFINE a == t.attempt
<1>1. AttemptInvariant /\ AttemptInvariant' /\ TypeOK /\ jobs' = jobs
  <2>1. AttemptInvariant'
    BY InvariantUnsaved, InvariantDispatch, InvariantCreate, InvariantReads, InvariantCloses,
       InvariantFinish, SMTT(60) DEF TaskStep, LimitsInvariant
  <2>2. jobs' = jobs
    BY DEF TaskStep, Dispatch, EndUnallocated, Create, ReceiveRun, PollRun, WatchSession, BeginRecovery,
           Discover, Verify, Interrupted, Contradicted, FenceThrows, LeaseLost, RequestStop, CleanupRun,
           CleanupSession, GiveUpCleanup, Publish, Finish, Crash
  <2> QED BY <2>1, <2>2 DEF LimitsInvariant, AttemptInvariant
<1>2. t \in Tasks /\ a \in Attempts /\ row \in [Attempts -> Rows] /\ row[a] \in Rows
  BY <1>1 DEF TypeOK, Tasks
<1>3. CASE Finish(t)
  <2>1. \A o \in Owners : jobs'[o].open <= jobs[o].open
    <3>1. \A o \in Owners : jobs[o].open \in Nat
      BY <1>1 DEF TypeOK
    <3> QED BY <1>1, <3>1
  <2>2. JobCharges' = JobCharges
    BY <1>1 DEF JobCharges
  <2> QED BY <1>1, <1>3, <2>1, <2>2, AmountsFinish, LimitsKept
<1>4. ASSUME NEW q, row' = [row EXCEPT ![a] = q],
             q.reserved = row[a].reserved, q.consumed = row[a].consumed, q.released = row[a].released,
             q.state = row[a].state \/ (Open(row[a]) /\ Open(q))
      PROVE  LimitsInvariant'
  BY <1>1, <1>2, <1>4, LimitsOther
<1>5. CASE Dispatch(t)
  <2> DEFINE q == [row[a] EXCEPT !.state = "dispatched", !.dispatched = TRUE]
  <2>1. row' = [row EXCEPT ![a] = q] /\ row[a].state = "reserved"
    BY <1>2, <1>5 DEF Dispatch, MayDispatch
  <2>2. /\ q.reserved = row[a].reserved /\ q.consumed = row[a].consumed /\ q.released = row[a].released
        /\ q.state = "dispatched"
    BY <1>2 DEF Rows
  <2> HIDE DEF q
  <2> QED BY <1>4, <2>1, <2>2 DEF Open
<1>6. CASE Publish(t)
  <2> DEFINE seen == row[a].replay \/ (t.closed /\ t.session /\ ~row[a].cancelled)
             q == [row[a] EXCEPT !.replay = seen]
  <2>1. row' = [row EXCEPT ![a] = q]
    BY <1>2, <1>6 DEF Publish
  <2> HIDE DEF seen
  <2>2. /\ q.reserved = row[a].reserved /\ q.consumed = row[a].consumed /\ q.released = row[a].released
        /\ q.state = row[a].state
    BY <1>2 DEF Rows
  <2> HIDE DEF q
  <2> QED BY <1>4, <2>1, <2>2
<1>7. CASE \/ ReceiveRun(t) \/ PollRun(t) \/ Discover(t) \/ Verify(t) \/ RequestStop(t)
           \/ CleanupRun(t)
  <2>1. PICK named, u : named \in BOOLEAN /\ Learns(t, named, u)
    BY <1>7 DEF ReceiveRun, PollRun, Discover, Verify, RequestStop, CleanupRun
  <2> DEFINE known == row[a].sessionKnown \/ named
             q == [row[a] EXCEPT !.runKnown = TRUE, !.sessionKnown = known]
  <2>2. row' = [row EXCEPT ![a] = q]
    BY <1>2, <2>1 DEF Learns
  <2> HIDE DEF known
  <2>3. /\ q.reserved = row[a].reserved /\ q.consumed = row[a].consumed /\ q.released = row[a].released
        /\ q.state = row[a].state
    BY <1>2 DEF Rows
  <2> HIDE DEF q
  <2> QED BY <1>4, <2>2, <2>3
<1>8. CASE \/ EndUnallocated(t) \/ BeginRecovery(t) \/ Interrupted(t) \/ Contradicted(t)
           \/ FenceThrows(t) \/ LeaseLost(t) \/ GiveUpCleanup(t) \/ Crash(t)
           \/ WatchSession(t) \/ CleanupSession(t) \/ Create(t)
  <2>1. row' = row
    BY <1>8 DEF EndUnallocated, BeginRecovery, Interrupted, Contradicted, FenceThrows, LeaseLost,
                GiveUpCleanup, Crash, WatchSession, CleanupSession, Create
  <2> QED BY <1>1, <2>1, LimitsOther
<1> QED BY <1>3, <1>5, <1>6, <1>7, <1>8 DEF TaskStep

LEMMA LimitsRows ==
  ASSUME LimitsInvariant,
         \/ \E a \in Attempts : \/ ClaimExpired(a) \/ ProviderStep(a)
                                \/ LeaseExpires(a) \/ HolderStalls(a) \/ BackOffEnds(a)
         \/ RefuseQueued
         \/ \E r \in Runs : Cancel(r)
  PROVE  LimitsInvariant'
<1>1. AttemptInvariant /\ AttemptInvariant' /\ TypeOK /\ jobs' = jobs
  <2>1. AttemptInvariant'
    BY InvariantClaim, InvariantProvider, InvariantRows, ZenonT(60) DEF LimitsInvariant
  <2>2. jobs' = jobs
    BY ZenonT(60) DEF ClaimExpired, ProviderStep, ProviderRuns, ProviderOpensSession, ProviderEndsRun,
           ProviderEndsSession, LeaseExpires, HolderStalls, BackOffEnds, RefuseQueued, Cancel
  <2> QED BY <2>1, <2>2 DEF LimitsInvariant, AttemptInvariant
<1>2. ASSUME NEW b \in Attempts
      PROVE  /\ row'[b].reserved = row[b].reserved /\ row'[b].consumed = row[b].consumed
             /\ row'[b].released = row[b].released
             /\ row'[b].state = row[b].state \/ row'[b].state = "settled"
                  \/ (Open(row[b]) /\ Open(row'[b]))
  <2> DEFINE r == row[b]
             q == row'[b]
  <2>1. r \in Rows
    BY <1>1 DEF TypeOK
  <2>2. ASSUME NEW a \in Attempts, ClaimExpired(a)
        PROVE  /\ q.reserved = r.reserved /\ q.consumed = r.consumed /\ q.released = r.released
               /\ q.state = r.state \/ (Open(r) /\ Open(q))
    <3>1. CASE b # a
      <4>1. q = r
        BY <1>1, <2>2, <3>1 DEF ClaimExpired, Acquire, TypeOK
      <4> QED BY <4>1, SMTT(60)
    <3>2. CASE b = a
      <4> DEFINE again == row[a].recoveries + 1
                 later == row[a].generation + 1
      <4>1. q = [r EXCEPT !.recoveries = again, !.state = "quarantined",
                          !.status = "cleanup_required", !.generation = later, !.leaseLive = TRUE]
        BY <1>1, <2>1, <2>2, <3>2, ZenonT(60) DEF ClaimExpired, Acquire, TypeOK, Rows
      <4>2. r.state \notin {"queued", "settled"}
        BY <2>2, <3>2 DEF ClaimExpired, Expired, Occupied
      <4> HIDE DEF again, later, q
      <4>3. /\ q.reserved = r.reserved /\ q.consumed = r.consumed /\ q.released = r.released
            /\ q.state = "quarantined"
        BY <2>1, <4>1 DEF Rows
      <4>4. Open(r)
        BY <2>1, <4>2 DEF Open, Rows, RowStates
      <4> QED BY <4>3, <4>4, SMTT(60) DEF Open
    <3> QED BY <3>1, <3>2
  <2>3. ASSUME NEW a \in Attempts,
               ProviderStep(a) \/ LeaseExpires(a) \/ HolderStalls(a) \/ BackOffEnds(a)
        PROVE  q = r \/ q = [r EXCEPT !.leaseLive = FALSE] \/ q = [r EXCEPT !.backingOff = FALSE]
    BY <1>1, <2>3 DEF ProviderStep, ProviderRuns, ProviderOpensSession, ProviderEndsRun,
                      ProviderEndsSession, LeaseExpires, HolderStalls, BackOffEnds, TypeOK
  <2>4. ASSUME RefuseQueued
        PROVE  q = r \/ q = [r EXCEPT !.state = "settled", !.status = "failed", !.actual = 0]
    BY <2>4 DEF RefuseQueued, AfterRefusal
  <2>5. ASSUME NEW s \in Runs, Cancel(s)
        PROVE  \/ q = r \/ q = [r EXCEPT !.cancelled = TRUE]
               \/ q = [r EXCEPT !.cancelled = TRUE, !.state = "settled", !.status = "cancelled",
                                !.actual = 0]
    BY <2>5 DEF Cancel
  <2>6. ASSUME \/ q = r \/ q = [r EXCEPT !.leaseLive = FALSE] \/ q = [r EXCEPT !.backingOff = FALSE]
               \/ q = [r EXCEPT !.state = "settled", !.status = "failed", !.actual = 0]
               \/ q = [r EXCEPT !.cancelled = TRUE]
               \/ q = [r EXCEPT !.cancelled = TRUE, !.state = "settled", !.status = "cancelled",
                                !.actual = 0]
        PROVE  /\ q.reserved = r.reserved /\ q.consumed = r.consumed /\ q.released = r.released
               /\ q.state = r.state \/ q.state = "settled"
    <3> HIDE DEF q
    <3> QED BY <2>1, <2>6 DEF Rows
  <2> QED BY <2>2, <2>3, <2>4, <2>5, <2>6
<1> QED BY <1>1, <1>2, LimitsOther

LEMMA LimitsStep ==
  ASSUME LimitsInvariant, [Next]_vars
  PROVE  LimitsInvariant'
<1>1. AttemptInvariant /\ AttemptInvariant' /\ TypeOK
  BY AttemptStep DEF LimitsInvariant, AttemptInvariant
<1>2. CASE UNCHANGED vars
  BY <1>1, <1>2, LimitsOther DEF vars
<1>3. ASSUME NEW o \in Owners, JobSettles(o) PROVE LimitsInvariant'
  <2>1. row' = row /\ \A a \in Attempts : Covered(a)' = Covered(a)
    BY <1>3 DEF JobSettles, Covered, Charge
  <2>2. /\ jobs[o].open \in Nat /\ jobs[o].settled \in Nat /\ jobs[o].open > 0
        /\ jobs'[o].open = jobs[o].open - 1 /\ jobs'[o].settled = jobs[o].settled + 1
        /\ \A p \in Owners \ {o} : jobs'[p] = jobs[p]
        /\ \A p \in Owners : jobs[p].open \in Nat
    BY <1>1, <1>3 DEF JobSettles, TypeOK
  <2>3. \A p \in Owners : jobs'[p].open <= jobs[p].open
    BY <2>2
  <2>4. jobs'[o].open + jobs'[o].settled = jobs[o].open + jobs[o].settled
    BY <2>2
  <2>5. JobCharges' = JobCharges
    BY <2>2, <2>4 DEF JobCharges
  <2>6. ASSUME NEW a \in Attempts
        PROVE  /\ AmountsFit(row'[a]) /\ row'[a].reserved = row[a].reserved /\ Covered(a)' <= Covered(a)
               /\ row'[a].state \notin {"queued", "settled"} => row[a].state \notin {"queued", "settled"}
    BY <2>1, AmountsStay
  <2> QED BY <1>1, <2>3, <2>5, <2>6, LimitsKept
<1> QED BY <1>2, <1>3, LimitsTask, LimitsRows, LimitsClaim, LimitsJob DEF Next

(* Managed attempts and ordinary jobs together stay within the ceilings,   *)
(* and their reservations within the budgets (occupancy(), accounting()).  *)
THEOREM LimitsAreShared == Spec => []SharedLimits
<1>1. Init => LimitsInvariant
  BY LimitsInit
<1>2. LimitsInvariant /\ [Next]_vars => LimitsInvariant'
  BY LimitsStep
<1>3. LimitsInvariant => SharedLimits
  <2> SUFFICES ASSUME LimitsInvariant PROVE SharedLimits
    OBVIOUS
  <2>1. TypeOK
    BY DEF LimitsInvariant, AttemptInvariant
  <2>2. Total(SlotsByOwner, Owners) <= GlobalConcurrency
    BY <2>1, SlotsCounted DEF LimitsInvariant
  <2>3. Reserved = Total(JobCharges, Owners) + Total(ReservedAmounts, Attempts)
    BY DEF Reserved, JobSeconds, JobCharges, ReservedAmounts
  <2>4. Booked = JobSeconds(Owners) + Total([a \in Attempts |-> Covered(a)], Attempts)
    BY DEF Booked, JobSeconds, JobCharges, CoveredAmounts
  <2> QED BY <2>2, <2>3, <2>4 DEF LimitsInvariant, SharedLimits, SlotsByOwner
<1> QED BY <1>1, <1>2, <1>3, PTL DEF Spec
-----------------------------------------------------------------------------
(* What an attempt costs, against what the provider measured.  An open     *)
(* attempt has consumed and released nothing yet, a back-off belongs to a  *)
(* quarantine, an allocation follows a dispatch, and a bill exists only    *)
(* once the session has ended.                                             *)
BillFits(r, m) ==
  /\ r.state = "queued" =>
       r.reserved = 0 /\ r.consumed = 0 /\ r.released = 0 /\ r.actual = NULL
  /\ Open(r) =>
       r.reserved = SessionSeconds /\ r.consumed = 0 /\ r.released = 0 /\ r.actual = NULL
  /\ r.state = "settled" =>
       /\ Larger(r.reserved - r.released, r.consumed)
            = IF r.actual = NULL THEN SessionSeconds ELSE Known(m.seconds)
       /\ r.actual # NULL => r.actual = Known(m.seconds)
  /\ r.backingOff => r.state = "quarantined"
  /\ r.runKnown => r.dispatched
  /\ m.seconds # NULL => m.session \in {"over", "errored"}

(* What an execution has learned of the bill is the bill.                  *)
TaskBilled(t, r, m) ==
  /\ t.seconds # NULL => t.closed /\ m.session = "over" /\ t.seconds = m.seconds
  /\ t.allocated => r.dispatched

RowsBilled == \A a \in Attempts : BillFits(row[a], remote[a])
TasksBilled == \A t \in tasks : TaskBilled(t, row[t.attempt], remote[t.attempt])
BillInvariant == AttemptInvariant /\ RowsBilled /\ TasksBilled

LEMMA BillInit == Init => BillInvariant
<1> SUFFICES ASSUME Init PROVE BillInvariant
  OBVIOUS
<1>1. RowsBilled
  BY DEF Init, RowsBilled, BillFits, Open
<1>2. TasksBilled
  BY DEF Init, TasksBilled
<1> QED BY <1>1, <1>2, InvariantInit DEF BillInvariant

(* The claim of a and the refusals it makes on its way, for other rows.    *)
LEMMA ClaimedOthers ==
  ASSUME TypeOK, NEW a \in Attempts, ClaimExpired(a) \/ ClaimQueued(a), NEW b \in Attempts, b # a
  PROVE  \/ row'[b] = row[b]
         \/ /\ row'[b] = [row[b] EXCEPT !.state = "settled", !.status = "failed", !.actual = 0]
            /\ row[b].state = "queued"
<1>1. CASE ClaimExpired(a)
  BY <1>1 DEF ClaimExpired, Acquire, TypeOK
<1>2. CASE ClaimQueued(a)
  <2>1. row'[b] = AfterRefusal[b]
    BY <1>2, TypeRefusal DEF ClaimQueued, Acquire
  <2> QED BY <2>1 DEF AfterRefusal, Refused, Queued
<1> QED BY <1>1, <1>2

(* Only the holder of a lease writes a row or asks anything of the         *)
(* provider, and a settled attempt has no lease.                           *)
LEMMA SettledStays ==
  ASSUME BillInvariant, NEW a \in Attempts, row[a].state = "settled", [Next]_vars
  PROVE  row'[a] = row[a] /\ remote'[a] = remote[a]
<1>1. /\ TypeOK /\ row[a] \in Rows /\ RowFits(row[a], remote[a]) /\ BillFits(row[a], remote[a])
      /\ row \in [Attempts -> Rows] /\ remote \in [Attempts -> Remotes]
  BY DEF BillInvariant, AttemptInvariant, TypeOK, RowsFit, RowsBilled
<1>2. /\ ~row[a].leaseLive /\ ~row[a].backingOff /\ ~MayStillRun(remote[a])
  BY <1>1 DEF RowFits, Open, BillFits
<1>3. ASSUME NEW t \in tasks, TaskStep(t) \/ Crash(t)
      PROVE  row'[a] = row[a] /\ remote'[a] = remote[a]
  <2>1. CASE LeaseLost(t) \/ Crash(t)
    BY <2>1 DEF LeaseLost, Crash
  <2>2. CASE ~(LeaseLost(t) \/ Crash(t))
    <3>1. \/ \E q : row' = [row EXCEPT ![t.attempt] = q]
          \/ row' = row
      <4>1. CASE Dispatch(t)
        BY <4>1, ZenonT(60) DEF Dispatch
      <4>2. CASE Finish(t)
        BY <4>2, ZenonT(60) DEF Finish
      <4>3. CASE Publish(t)
        BY <4>3, ZenonT(60) DEF Publish
      <4>4. ASSUME NEW named, NEW u, Learns(t, named, u)
            PROVE  \E q : row' = [row EXCEPT ![t.attempt] = q]
        BY <4>4, ZenonT(60) DEF Learns
      <4> QED BY <1>3, <2>2, <4>1, <4>2, <4>3, <4>4
              DEF TaskStep, EndUnallocated, Create, ReceiveRun, PollRun, WatchSession, BeginRecovery,
                  Discover, Verify, Interrupted, Contradicted, FenceThrows, RequestStop, CleanupRun,
                  CleanupSession, GiveUpCleanup
    <3>2. \/ \E n : remote' = [remote EXCEPT ![t.attempt] = n]
          \/ remote' = remote
      BY <1>3, <2>2, ZenonT(60) DEF TaskStep, Dispatch, EndUnallocated, Create, ReceiveRun, PollRun, WatchSession,
         BeginRecovery, Discover, Verify, Interrupted, Contradicted, FenceThrows, RequestStop, CleanupRun,
         CleanupSession, GiveUpCleanup, Publish, Finish, StopsRun
    <3>3. Holds(t)
      BY <1>3, <2>2 DEF TaskStep, Dispatch, EndUnallocated, Create, ReceiveRun, PollRun, WatchSession,
         BeginRecovery, Discover, Verify, Interrupted, Contradicted, FenceThrows, RequestStop, CleanupRun,
         CleanupSession, GiveUpCleanup, Publish, Finish
    <3>4. t.attempt # a
      BY <1>2, <3>3 DEF Holds
    <3> QED BY <1>1, <3>1, <3>2, <3>4, SMTT(60)
  <2> QED BY <2>1, <2>2
<1>4. ASSUME NEW b \in Attempts, ProviderStep(b)
      PROVE  row'[a] = row[a] /\ remote'[a] = remote[a]
  <2>1. row' = row /\ \E n : remote' = [remote EXCEPT ![b] = n]
    BY <1>4 DEF ProviderStep, ProviderRuns, ProviderOpensSession, ProviderEndsRun, ProviderEndsSession
  <2>2. b # a
    BY <1>2, <1>4 DEF ProviderStep, ProviderRuns, ProviderOpensSession, ProviderEndsRun,
                      ProviderEndsSession, MayStillRun
  <2> QED BY <1>1, <2>1, <2>2
<1>5. ASSUME NEW b \in Attempts, ClaimExpired(b) \/ ClaimQueued(b)
      PROVE  row'[a] = row[a] /\ remote'[a] = remote[a]
  <2>1. b # a
    BY <1>5 DEF ClaimExpired, Expired, Occupied, ClaimQueued, Grantable, Queued
  <2>2. remote' = remote
    BY <1>5 DEF ClaimExpired, ClaimQueued
  <2> QED BY <1>1, <1>5, <2>1, <2>2, ClaimedOthers
<1>6. ASSUME NEW b \in Attempts, LeaseExpires(b) \/ HolderStalls(b) \/ BackOffEnds(b)
      PROVE  row'[a] = row[a] /\ remote'[a] = remote[a]
  BY <1>1, <1>2, <1>6 DEF LeaseExpires, HolderStalls, BackOffEnds
<1>7. ASSUME RefuseQueued PROVE row'[a] = row[a] /\ remote'[a] = remote[a]
  BY <1>7 DEF RefuseQueued, AfterRefusal, Refused, Queued
<1>8. ASSUME NEW r \in Runs, Cancel(r) PROVE row'[a] = row[a] /\ remote'[a] = remote[a]
  BY <1>8 DEF Cancel, OpenOfRun
<1>9. ASSUME NEW o \in Owners, JobStarts(o) \/ JobSettles(o)
      PROVE  row'[a] = row[a] /\ remote'[a] = remote[a]
  BY <1>9 DEF JobStarts, JobSettles
<1>10. CASE UNCHANGED vars
  BY <1>10 DEF vars
<1> QED BY <1>3, <1>4, <1>5, <1>6, <1>7, <1>8, <1>9, <1>10 DEF Next

(* A row the step leaves in place, or moves between open states, with its  *)
(* amounts; an allocation it may gain by a dispatch.                       *)
RowMoves(r, q) ==
  /\ q.state = r.state \/ (r.state = "reserved" /\ q.state = "dispatched")
       \/ (Open(r) /\ q.state = "quarantined" /\ ~q.backingOff)
  /\ q.reserved = r.reserved /\ q.consumed = r.consumed /\ q.released = r.released
  /\ q.actual = r.actual
  /\ q.backingOff => r.backingOff
  /\ r.dispatched => q.dispatched
  /\ q.runKnown => q.dispatched

(* The provider measures a session when it ends, once.                     *)
Measures(m, n) ==
  /\ n.seconds # m.seconds => m.session = "running"
  /\ m.session \in {"over", "errored"} => n.session = m.session
  /\ n.seconds # NULL => n.session \in {"over", "errored"}

LEMMA BillMoves ==
  ASSUME NEW r \in Rows, NEW q, NEW m, NEW n, RowFits(r, m), BillFits(r, m), RowMoves(r, q),
         Measures(m, n)
  PROVE  BillFits(q, n)
<1>1. r.state = "settled" => n.seconds = m.seconds
  BY DEF RowFits, MayStillRun, Measures
<1>2. (Open(q) <=> Open(r)) /\ (q.state = "queued" <=> r.state = "queued")
      /\ (q.state = "settled" <=> r.state = "settled")
  BY DEF RowMoves, Open
<1>3. q.backingOff => q.state = "quarantined"
  BY DEF RowMoves, BillFits
<1> QED BY <1>1, <1>2, <1>3 DEF RowMoves, BillFits, Measures

LEMMA BilledTaskStays ==
  ASSUME NEW t, NEW r, NEW q, NEW m, NEW n, TaskBilled(t, r, m), Measures(m, n),
         r.dispatched => q.dispatched
  PROVE  TaskBilled(t, q, n)
<1>1. m.session = "over" => n.session = "over" /\ n.seconds = m.seconds
  BY DEF Measures
<1> QED BY <1>1 DEF TaskBilled

(* A queued row that settles at once costs nothing, and nothing ran.       *)
LEMMA BillUnclaimed ==
  ASSUME NEW r \in Rows, NEW q, NEW m, RowFits(r, m), BillFits(r, m), r.state = "queued",
         q.state = "settled", q.actual = 0, q.reserved = r.reserved, q.consumed = r.consumed,
         q.released = r.released, q.backingOff = r.backingOff, q.runKnown = r.runKnown,
         q.dispatched = r.dispatched
  PROVE  BillFits(q, m)
<1>1. m.session = "none"
  <2>1. r.generation = 0 /\ r.generation \in Nat
    BY DEF RowFits, Rows
  <2>2. ~r.dispatched
    BY <2>1 DEF RowFits
  <2> QED BY <2>2 DEF RowFits
<1>2. m.seconds = NULL
  BY <1>1 DEF BillFits
<1>3. Larger(q.reserved - q.released, q.consumed) = 0
  BY DEF BillFits, Larger
<1>4. q.actual # NULL /\ Known(m.seconds) = 0
  <2>1. 0 # NULL
    BY NullAssumption
  <2>2. Known(m.seconds) = 0
    BY <1>2, ZenonT(60) DEF Known
  <2> QED BY <2>1, <2>2
<1> QED BY <1>2, <1>3, <1>4 DEF BillFits, Open

(* The requests, the provider's own steps and the passage of time.         *)
LEMMA MeasuresStep ==
  ASSUME BillInvariant, [Next]_vars, NEW b \in Attempts
  PROVE  Measures(remote[b], remote'[b])
<1> DEFINE m == remote[b]
<1>1. /\ remote \in [Attempts -> Remotes] /\ tasks \subseteq Tasks /\ m \in Remotes
      /\ BillFits(row[b], m)
  BY DEF BillInvariant, AttemptInvariant, TypeOK, RowsBilled
<1>2. Measures(m, m)
  BY <1>1 DEF Measures, BillFits
<1>3. ASSUME NEW a \in Attempts, NEW n, remote' = [remote EXCEPT ![a] = n],
             a = b => Measures(m, n)
      PROVE  Measures(m, remote'[b])
  BY <1>1, <1>2, <1>3
<1>4. ASSUME NEW run PROVE Measures(m, [m EXCEPT !.run = run])
  BY <1>1, <1>2 DEF Measures, Remotes
<1>5. ASSUME NEW a \in Attempts, StopsRun(a) PROVE Measures(m, remote'[b])
  <2>1. remote' = [remote EXCEPT ![a] = [remote[a] EXCEPT
                     !.run = IF remote[a].run = "running" THEN "failed" ELSE remote[a].run]]
    BY <1>1, <1>5 DEF StopsRun
  <2> QED BY <1>3, <1>4, <2>1
<1>6. ASSUME NEW session \in {"over", "errored"}, NEW d, m.session = "running"
      PROVE  Measures(m, [m EXCEPT !.session = session, !.seconds = d])
  BY <1>1, <1>6 DEF Measures, Remotes
<1>7. ASSUME NEW a \in Attempts, ProviderStep(a) PROVE Measures(m, remote'[b])
  <2>1. CASE ProviderRuns(a) \/ ProviderEndsRun(a)
    <3>1. PICK run : remote' = [remote EXCEPT ![a].run = run]
      BY <2>1 DEF ProviderRuns, ProviderEndsRun
    <3>2. remote' = [remote EXCEPT ![a] = [remote[a] EXCEPT !.run = run]]
      BY <3>1, Zenon
    <3> QED BY <1>3, <1>4, <3>2
  <2>2. CASE ProviderOpensSession(a)
    <3>1. remote' = [remote EXCEPT ![a] = [remote[a] EXCEPT !.session = "running"]]
          /\ remote[a].session = "none"
      BY <2>2 DEF ProviderOpensSession
    <3>2. m.session = "none" => Measures(m, [m EXCEPT !.session = "running"])
      BY <1>1 DEF Measures, Remotes, BillFits
    <3> QED BY <1>3, <3>1, <3>2
  <2>3. CASE ProviderEndsSession(a)
    <3>1. PICK session \in {"over", "errored"}, d \in Durations :
            remote' = [remote EXCEPT ![a].session = session, ![a].seconds = d]
      BY <2>3 DEF ProviderEndsSession
    <3>2. remote' = [remote EXCEPT ![a] = [remote[a] EXCEPT !.session = session, !.seconds = d]]
      BY <3>1, Zenon
    <3>3. remote[a].session = "running"
      BY <2>3 DEF ProviderEndsSession
    <3> QED BY <1>3, <1>6, <3>2, <3>3
  <2> QED BY <1>7, <2>1, <2>2, <2>3 DEF ProviderStep
<1>8. ASSUME NEW t \in tasks, TaskStep(t) \/ Crash(t) PROVE Measures(m, remote'[b])
  <2> DEFINE a == t.attempt
  <2>1. a \in Attempts
    BY <1>1 DEF Tasks
  <2>2. CASE Create(t)
    <3> DEFINE more == remote[a].requests + 1
    <3>1. remote' = [remote EXCEPT ![a] = [remote[a] EXCEPT !.run = "asked", !.requests = more]]
      BY <2>2 DEF Create
    <3> HIDE DEF more
    <3>2. Measures(m, [m EXCEPT !.run = "asked", !.requests = more])
      BY <1>1, <1>2 DEF Measures, Remotes
    <3> QED BY <1>3, <2>1, <3>1, <3>2
  <2>3. CASE CleanupSession(t) /\ remote' # remote
    <3>1. /\ remote[a].session = "running"
          /\ \E d \in Durations : remote' = [remote EXCEPT ![a].session = "over", ![a].seconds = d]
      BY <2>3 DEF CleanupSession
    <3>2. PICK d \in Durations : remote' = [remote EXCEPT ![a].session = "over", ![a].seconds = d]
      BY <3>1
    <3>3. remote' = [remote EXCEPT ![a] = [remote[a] EXCEPT !.session = "over", !.seconds = d]]
      BY <3>2, Zenon
    <3> QED BY <1>3, <1>6, <2>1, <3>1, <3>3
  <2>4. CASE ~Create(t) /\ ~CleanupSession(t)
    <3>1. StopsRun(a) \/ remote' = remote
      BY <1>8, <2>4 DEF TaskStep, Dispatch, EndUnallocated, ReceiveRun, PollRun, WatchSession,
         BeginRecovery, Discover, Verify, Interrupted, Contradicted, FenceThrows, LeaseLost, RequestStop,
         CleanupRun, GiveUpCleanup, Publish, Finish, Crash
    <3> QED BY <1>2, <1>5, <2>1, <3>1, SMTT(60)
  <2> QED BY <1>2, <2>2, <2>3, <2>4
<1>9. CASE remote' = remote
  BY <1>2, <1>9
<1> QED BY <1>7, <1>8, <1>9, ZenonT(60) DEF Next, vars, ClaimExpired, ClaimQueued, LeaseExpires, HolderStalls, BackOffEnds,
           RefuseQueued, Cancel, JobStarts, JobSettles

(* finish(): the row that settles, and the one that waits for a recovery.  *)
LEMMA BillFinish ==
  ASSUME BillInvariant, NEW t \in tasks, Finish(t)
  PROVE  BillFits(row'[t.attempt], remote[t.attempt])
<1> DEFINE a == t.attempt
           r == row[a]
           q == row'[a]
           m == remote[a]
           S == SessionSeconds
<1>1. TypeOK /\ t \in Tasks /\ a \in Attempts /\ r \in Rows /\ m \in Remotes /\ q \in Rows
  <2>1. TypeOK /\ TypeOK'
    BY TypeEnds DEF BillInvariant, AttemptInvariant
  <2> QED BY <2>1 DEF TypeOK, Tasks
<1>2. /\ TaskFits(t, r, m) /\ RowFits(r, m) /\ BillFits(r, m) /\ TaskBilled(t, r, m)
      /\ r.leaseLive /\ r.generation = t.generation /\ t.at = "report"
  BY <1>1 DEF BillInvariant, AttemptInvariant, TasksFit, RowsFit, RowsBilled, TasksBilled, Finish, Holds
<1>3. r.reserved = S /\ r.consumed = 0 /\ r.released = 0 /\ r.actual = NULL /\ S \in Nat
  <2>1. Open(r)
    BY <1>2 DEF RowFits
  <2> QED BY <1>2, <2>1, PolicyAssumption DEF BillFits
<1> DEFINE allocated == r.dispatched \/ r.runKnown \/ t.allocated
           actual == IF t.seconds = NULL THEN r.actual ELSE Larger(Known(r.actual), t.seconds)
           consumed == Consumed(t, actual)
           released == Refund(t, consumed)
           measured == IF actual = NULL /\ t.closed /\ ~allocated THEN 0 ELSE actual
           status == Status(t)
           state == IF t.closed THEN "settled" ELSE "quarantined"
           waits == ~t.closed
<1>4. /\ q.state = state /\ q.reserved = S /\ q.consumed = consumed /\ q.released = released
      /\ q.actual = measured /\ q.backingOff = waits /\ q.runKnown = r.runKnown
      /\ q.dispatched = r.dispatched
  <2>1. q = [r EXCEPT !.state = state, !.status = status, !.actual = measured,
                      !.consumed = consumed, !.released = released,
                      !.leaseLive = FALSE, !.backingOff = waits]
    BY <1>1 DEF Finish, TypeOK
  <2> HIDE DEF q, measured, consumed, released, status, state, waits
  <2>2. /\ q.state = state /\ q.reserved = r.reserved /\ q.consumed = consumed /\ q.released = released
        /\ q.actual = measured /\ q.backingOff = waits /\ q.runKnown = r.runKnown
        /\ q.dispatched = r.dispatched
    BY <1>1, <2>1 DEF Rows
  <2> QED BY <1>3, <2>2
<1>5. t.seconds # NULL =>
        t.seconds \in Nat /\ t.closed /\ allocated /\ t.seconds = m.seconds /\ actual = t.seconds
  <2> SUFFICES ASSUME t.seconds # NULL
               PROVE  t.seconds \in Nat /\ t.closed /\ allocated /\ t.seconds = m.seconds /\ actual = t.seconds
    OBVIOUS
  <2>1. t.seconds \in Nat /\ t.closed /\ m.session = "over" /\ t.seconds = m.seconds
    BY <1>1, <1>2 DEF TaskBilled, Tasks
  <2>2. r.dispatched
    BY <1>2, <2>1 DEF RowFits
  <2>3. actual = t.seconds
    BY <1>3, <2>1 DEF Larger, Known
  <2> QED BY <2>1, <2>2, <2>3
<1>6. t.seconds = NULL => actual = NULL
  BY <1>3
<1>7. consumed = Larger(0, Larger(Known(actual), IF t.closed /\ allocated /\ t.seconds = NULL THEN S ELSE 0))
  BY <1>3 DEF Consumed
<1>8. released = IF t.closed THEN Larger(0, S - consumed) ELSE 0
  BY <1>3 DEF Refund
<1>9. ~allocated => m.seconds = NULL
  <2> SUFFICES ASSUME ~r.dispatched PROVE m.seconds = NULL
    OBVIOUS
  <2>1. m.session = "none"
    BY <1>2 DEF RowFits
  <2> QED BY <1>2, <2>1 DEF BillFits
<1>10. m.seconds # NULL => m.session \in {"over", "errored"}
  BY <1>2 DEF BillFits
<1>11. r.runKnown => r.dispatched
  BY <1>2 DEF BillFits
<1>12. (q.runKnown => q.dispatched) /\ (m.seconds # NULL => m.session \in {"over", "errored"})
  BY <1>4, <1>10, <1>11
<1> HIDE DEF q, r, m, allocated, consumed, released, actual
<1>13. CASE ~t.closed
  <2>1. t.seconds = NULL /\ actual = NULL
    BY <1>5, <1>6, <1>13
  <2>2. consumed = 0 /\ released = 0
    BY <1>7, <1>8, <1>13, <2>1 DEF Larger, Known
  <2>3. /\ q.state = "quarantined" /\ q.reserved = S /\ q.consumed = 0 /\ q.released = 0
        /\ q.actual = NULL
    BY <1>4, <1>13, <2>1, <2>2
  <2> QED BY <1>12, <2>3 DEF BillFits, Open, q, m
<1>14. CASE t.closed /\ t.seconds # NULL
  <2>1. actual \in Nat /\ actual = m.seconds /\ actual # NULL /\ allocated
    BY <1>5, <1>14
  <2>2. consumed = actual
    BY <1>7, <1>14, <2>1 DEF Larger, Known
  <2>3. released = Larger(0, S - actual)
    BY <1>8, <1>14, <2>2
  <2>4. Larger(S - released, consumed) = actual
    BY <1>3, <2>1, <2>2, <2>3 DEF Larger
  <2>5. measured = actual /\ Known(m.seconds) = actual
    BY <2>1 DEF Known
  <2>6. /\ q.state = "settled" /\ q.reserved = S /\ q.actual = actual /\ ~q.backingOff
        /\ q.consumed = consumed /\ q.released = released
    BY <1>4, <1>14, <2>5
  <2> QED BY <1>12, <2>1, <2>4, <2>5, <2>6 DEF BillFits, Open, q, m
<1>15. CASE t.closed /\ t.seconds = NULL /\ allocated
  <2>1. actual = NULL /\ measured = NULL
    BY <1>6, <1>15
  <2>2. consumed = S
    BY <1>3, <1>7, <1>15, <2>1 DEF Larger, Known
  <2>3. released = 0
    BY <1>3, <1>8, <1>15, <2>2 DEF Larger
  <2>4. Larger(S - released, consumed) = S
    BY <1>3, <2>2, <2>3 DEF Larger
  <2>5. /\ q.state = "settled" /\ q.reserved = S /\ q.actual = NULL /\ ~q.backingOff
        /\ q.consumed = consumed /\ q.released = released
    BY <1>4, <1>15, <2>1
  <2> QED BY <1>12, <2>4, <2>5 DEF BillFits, Open, q, m
<1>16. CASE t.closed /\ t.seconds = NULL /\ ~allocated
  <2>1. measured = 0 /\ actual = NULL /\ m.seconds = NULL
    BY <1>6, <1>9, <1>16
  <2>2. consumed = 0
    BY <1>7, <1>16, <2>1 DEF Larger, Known
  <2>3. released = S
    BY <1>3, <1>8, <1>16, <2>2 DEF Larger
  <2>4. Larger(S - released, consumed) = 0
    BY <1>3, <2>2, <2>3 DEF Larger
  <2>5. Known(m.seconds) = 0 /\ NULL # 0
    BY <2>1, NullAssumption DEF Known
  <2>6. /\ q.state = "settled" /\ q.reserved = S /\ q.actual = 0 /\ ~q.backingOff
        /\ q.consumed = consumed /\ q.released = released
    BY <1>4, <1>16, <2>1
  <2> QED BY <1>12, <2>4, <2>5, <2>6 DEF BillFits, Open, q, m
<1> QED BY <1>13, <1>14, <1>15, <1>16 DEF q, m

(* What every step does to a row, but for the one that finish() writes.    *)
LEMMA RowsBilledStep ==
  ASSUME BillInvariant, [Next]_vars, NEW b \in Attempts
  PROVE  /\ BillFits(row'[b], remote'[b])
         /\ row[b].dispatched => row'[b].dispatched
<1> DEFINE r == row[b]
           q == row'[b]
           m == remote[b]
           n == remote'[b]
<1>1. /\ TypeOK /\ r \in Rows /\ RowFits(r, m) /\ BillFits(r, m)
      /\ row \in [Attempts -> Rows] /\ tasks \subseteq Tasks
  BY DEF BillInvariant, AttemptInvariant, TypeOK, RowsFit, RowsBilled
<1>2. Measures(m, n)
  BY MeasuresStep
<1>3. ASSUME RowMoves(r, q) PROVE BillFits(q, n) /\ (r.dispatched => q.dispatched)
  <2>1. r.dispatched => q.dispatched
    BY <1>3 DEF RowMoves
  <2> HIDE DEF q, n, m, r
  <2> QED BY <1>1, <1>2, <1>3, <2>1, BillMoves DEF r
<1>4. RowMoves(r, r)
  BY <1>1 DEF RowMoves, BillFits
<1>5. ASSUME NEW a \in Attempts, NEW p, row' = [row EXCEPT ![a] = p], a = b => RowMoves(r, p)
      PROVE  BillFits(q, n) /\ (r.dispatched => q.dispatched)
  <2>1. RowMoves(r, q)
    BY <1>1, <1>4, <1>5
  <2> QED BY <1>3, <2>1
<1>6. ASSUME row' = row PROVE BillFits(q, n) /\ (r.dispatched => q.dispatched)
  BY <1>3, <1>4, <1>6
<1>7. ASSUME r.state = "queued", n = m,
             \/ q = [r EXCEPT !.state = "settled", !.status = "failed", !.actual = 0]
             \/ q = [r EXCEPT !.cancelled = TRUE, !.state = "settled", !.status = "cancelled",
                              !.actual = 0]
      PROVE  BillFits(q, n) /\ (r.dispatched => q.dispatched)
  <2> HIDE DEF q, n, m
  <2>1. /\ q.state = "settled" /\ q.actual = 0 /\ q.reserved = r.reserved /\ q.consumed = r.consumed
        /\ q.released = r.released /\ q.backingOff = r.backingOff /\ q.runKnown = r.runKnown
        /\ q.dispatched = r.dispatched
    BY <1>1, <1>7, ZenonT(60) DEF Rows
  <2> HIDE DEF r
  <2> QED BY <1>1, <1>7, <2>1, BillUnclaimed DEF r
<1>8. ASSUME NEW t \in tasks, TaskStep(t) \/ Crash(t)
      PROVE  BillFits(q, n) /\ (r.dispatched => q.dispatched)
  <2> DEFINE a == t.attempt
  <2>1. t \in Tasks /\ a \in Attempts /\ TaskBilled(t, row[a], remote[a]) /\ row[a] \in Rows
        /\ TaskFits(t, row[a], remote[a]) /\ BillFits(row[a], remote[a])
    BY <1>1 DEF Tasks, BillInvariant, TasksBilled, AttemptInvariant, TasksFit, RowsBilled
  <2>2. CASE Finish(t)
    <3>1. CASE b # a
      <4>1. q = r
        BY <1>1, <2>2, <3>1 DEF Finish
      <4> QED BY <1>3, <1>4, <4>1
    <3>2. CASE b = a
      <4>1. n = m /\ BillFits(q, m)
        BY <2>2, <3>2, BillFinish DEF Finish
      <4>2. q.dispatched = r.dispatched
        <5>1. row'[a] = [row[a] EXCEPT !.state = row'[a].state, !.status = row'[a].status,
                          !.actual = row'[a].actual, !.consumed = row'[a].consumed,
                          !.released = row'[a].released, !.leaseLive = row'[a].leaseLive,
                          !.backingOff = row'[a].backingOff]
          BY <1>1, <2>1, <2>2, ZenonT(60) DEF Finish, Rows
        <5> QED BY <1>1, <3>2, <5>1 DEF Rows
      <4> QED BY <4>1, <4>2, SMTT(60)
    <3> QED BY <3>1, <3>2
  <2>3. CASE Dispatch(t)
    <3> DEFINE p == [row[a] EXCEPT !.state = "dispatched", !.dispatched = TRUE]
    <3>1. row' = [row EXCEPT ![a] = p] /\ row[a].state = "reserved"
      BY <2>1, <2>3 DEF Dispatch, MayDispatch
    <3>2. RowMoves(row[a], p)
      BY <2>1, <3>1 DEF RowMoves, Rows, Open
    <3> HIDE DEF p
    <3> QED BY <1>5, <2>1, <3>1, <3>2
  <2>4. CASE Publish(t)
    <3> DEFINE seen == row[a].replay \/ (t.closed /\ t.session /\ ~row[a].cancelled)
               p == [row[a] EXCEPT !.replay = seen]
    <3>1. row' = [row EXCEPT ![a] = p]
      BY <2>1, <2>4 DEF Publish
    <3> HIDE DEF seen
    <3>2. RowMoves(row[a], p)
      BY <2>1 DEF RowMoves, Rows, BillFits
    <3> HIDE DEF p
    <3> QED BY <1>5, <2>1, <3>1, <3>2
  <2>5. ASSUME NEW named, NEW u, Learns(t, named, u), t.allocated
        PROVE  BillFits(q, n) /\ (r.dispatched => q.dispatched)
    <3> DEFINE known == row[a].sessionKnown \/ named
               p == [row[a] EXCEPT !.runKnown = TRUE, !.sessionKnown = known]
    <3>1. row' = [row EXCEPT ![a] = p]
      BY <2>1, <2>5 DEF Learns
    <3>2. row[a].dispatched
      BY <2>1, <2>5 DEF TaskBilled
    <3> HIDE DEF known
    <3>3. RowMoves(row[a], p)
      BY <2>1, <3>2 DEF RowMoves, Rows, BillFits
    <3> HIDE DEF p
    <3> QED BY <1>5, <2>1, <3>1, <3>3
  <2>6. CASE \/ ReceiveRun(t) \/ PollRun(t) \/ Discover(t) \/ Verify(t) \/ RequestStop(t)
             \/ CleanupRun(t)
    <3>1. t.allocated
      BY <2>1, <2>6 DEF ReceiveRun, PollRun, Discover, Verify, RequestStop, CleanupRun, TaskFits
    <3>2. \E named, u : Learns(t, named, u)
      BY <2>6 DEF ReceiveRun, PollRun, Discover, Verify, RequestStop, CleanupRun
    <3> QED BY <2>5, <3>1, <3>2
  <2>7. CASE \/ EndUnallocated(t) \/ BeginRecovery(t) \/ Interrupted(t) \/ Contradicted(t)
             \/ FenceThrows(t) \/ LeaseLost(t) \/ GiveUpCleanup(t) \/ Crash(t)
             \/ WatchSession(t) \/ CleanupSession(t) \/ Create(t)
    <3>1. row' = row
      BY <2>7 DEF EndUnallocated, BeginRecovery, Interrupted, Contradicted, FenceThrows, LeaseLost,
                  GiveUpCleanup, Crash, WatchSession, CleanupSession, Create
    <3> QED BY <1>6, <3>1, SMTT(60)
  <2> QED BY <1>8, <2>2, <2>3, <2>4, <2>6, <2>7 DEF TaskStep
<1>9. ASSUME NEW a \in Attempts, ClaimExpired(a) \/ ClaimQueued(a)
      PROVE  BillFits(q, n) /\ (r.dispatched => q.dispatched)
  <2>0. remote' = remote
    BY <1>9 DEF ClaimExpired, ClaimQueued
  <2>1. CASE b # a
    <3>1. \/ q = r
          \/ /\ q = [r EXCEPT !.state = "settled", !.status = "failed", !.actual = 0]
             /\ r.state = "queued"
      BY <1>1, <1>9, <2>1, ClaimedOthers
    <3> QED BY <1>3, <1>4, <1>7, <2>0, <3>1
  <2>2. CASE b = a /\ ClaimExpired(a)
    <3> DEFINE again == row[a].recoveries + 1
               later == row[a].generation + 1
    <3>1. q = [r EXCEPT !.recoveries = again, !.state = "quarantined",
                        !.status = "cleanup_required", !.generation = later, !.leaseLive = TRUE]
      BY <1>1, <2>2, ZenonT(60) DEF ClaimExpired, Acquire, Rows
    <3>2. r.state \notin {"queued", "settled"} /\ ~r.backingOff
      BY <2>2 DEF ClaimExpired, Expired, Occupied
    <3> HIDE DEF again, later, q
    <3>3. RowMoves(r, q)
      BY <1>1, <3>1, <3>2 DEF RowMoves, Rows, RowStates, Open, BillFits
    <3> QED BY <1>3, <3>3
  <2>3. CASE b = a /\ ClaimQueued(a)
    <3> DEFINE later == row[a].generation + 1
    <3>1. a \notin Refused /\ r.state = "queued"
      BY <2>3 DEF ClaimQueued, Refused, Grantable, Queued
    <3>2. AfterRefusal[a] = row[a] /\ AfterRefusal \in [Attempts -> Rows]
      BY <1>1, <3>1, TypeRefusal DEF AfterRefusal
    <3>3. q = [r EXCEPT !.state = "reserved", !.status = "running", !.reserved = SessionSeconds,
                        !.generation = later, !.leaseLive = TRUE]
      BY <1>1, <2>3, <3>2, ZenonT(60) DEF ClaimQueued, Acquire, Rows
    <3> HIDE DEF later, q
    <3>4. /\ q.state = "reserved" /\ q.reserved = SessionSeconds /\ q.consumed = r.consumed
          /\ q.released = r.released /\ q.actual = r.actual /\ q.backingOff = r.backingOff
          /\ q.runKnown = r.runKnown /\ q.dispatched = r.dispatched
      BY <1>1, <3>3 DEF Rows
    <3>5. BillFits(q, m)
      BY <1>1, <3>1, <3>4 DEF BillFits, Open
    <3> QED BY <2>0, <3>4, <3>5
  <2> QED BY <1>9, <2>1, <2>2, <2>3
<1>10. ASSUME NEW a \in Attempts,
              ProviderStep(a) \/ LeaseExpires(a) \/ HolderStalls(a) \/ BackOffEnds(a)
       PROVE  BillFits(q, n) /\ (r.dispatched => q.dispatched)
  <2>1. q = r \/ q = [r EXCEPT !.leaseLive = FALSE] \/ q = [r EXCEPT !.backingOff = FALSE]
    BY <1>1, <1>10 DEF ProviderStep, ProviderRuns, ProviderOpensSession, ProviderEndsRun,
                       ProviderEndsSession, LeaseExpires, HolderStalls, BackOffEnds
  <2> HIDE DEF q
  <2>2. RowMoves(r, q)
    BY <1>1, <2>1 DEF RowMoves, Rows, BillFits
  <2> QED BY <1>3, <2>2
<1>11. ASSUME RefuseQueued PROVE BillFits(q, n) /\ (r.dispatched => q.dispatched)
  <2>1. \/ q = r
        \/ /\ q = [r EXCEPT !.state = "settled", !.status = "failed", !.actual = 0]
           /\ r.state = "queued"
    BY <1>11 DEF RefuseQueued, AfterRefusal, Refused, Queued
  <2>2. n = m
    BY <1>11 DEF RefuseQueued
  <2> QED BY <1>3, <1>4, <1>7, <2>1, <2>2
<1>12. ASSUME NEW s \in Runs, Cancel(s) PROVE BillFits(q, n) /\ (r.dispatched => q.dispatched)
  <2>1. \/ q = r \/ q = [r EXCEPT !.cancelled = TRUE]
        \/ /\ q = [r EXCEPT !.cancelled = TRUE, !.state = "settled", !.status = "cancelled",
                            !.actual = 0]
           /\ r.state = "queued"
    BY <1>12 DEF Cancel
  <2>2. n = m
    BY <1>12 DEF Cancel
  <2>3. CASE q = [r EXCEPT !.cancelled = TRUE]
    <3> HIDE DEF q
    <3>1. RowMoves(r, q)
      BY <1>1, <2>3 DEF RowMoves, Rows, BillFits
    <3> QED BY <1>3, <3>1
  <2> QED BY <1>3, <1>4, <1>7, <2>1, <2>2, <2>3
<1>13. CASE row' = row
  BY <1>6, <1>13
<1> QED BY <1>8, <1>9, <1>10, <1>11, <1>12, <1>13 DEF Next, vars, JobStarts, JobSettles

(* What an execution turns into keeps what it has learned of the bill.     *)
SameTask(t, u) ==
  u.attempt = t.attempt /\ u.allocated = t.allocated /\ u.closed = t.closed /\ u.seconds = t.seconds

LEMMA MovesOn ==
  ASSUME NEW t \in Tasks, NEW p, NEW e, NEW v, NEW s
  PROVE  /\ SameTask(t, [t EXCEPT !.at = p])
         /\ SameTask(t, [t EXCEPT !.at = p, !.error = e])
         /\ SameTask(t, [t EXCEPT !.at = p, !.verified = v])
         /\ SameTask(t, [t EXCEPT !.at = p, !.verified = v, !.error = e])
         /\ SameTask(t, [t EXCEPT !.verified = v])
         /\ SameTask(t, [t EXCEPT !.stopped = s]) /\ SameTask(t, [t EXCEPT !.released = s])
  BY DEF SameTask, Tasks

(* An execution that replaces t, with the same knowledge of the bill, or   *)
(* with none, or with what a session that is over has been billed.         *)
Learned(t, u, m) ==
  /\ u.attempt = t.attempt /\ u.allocated = t.allocated
  /\ u.seconds # NULL =>
       u.closed /\ (u.seconds = t.seconds \/ (m.session = "over" /\ u.seconds = m.seconds))

LEMMA LearnsBill ==
  ASSUME BillInvariant, NEW t \in tasks
  PROVE  /\ \A u : SameTask(t, u) => Learned(t, u, remote[t.attempt])
         /\ \A u, named : Learns(t, named, u) /\ SameTask(t, u) /\ u \in Tasks
              => \E v : Becomes(t, v) /\ Learned(t, v, remote[t.attempt])
<1> DEFINE m == remote[t.attempt]
<1>1. t \in Tasks /\ TaskBilled(t, row[t.attempt], m)
  BY DEF BillInvariant, AttemptInvariant, TypeOK, TasksBilled
<1>2. ASSUME NEW u, SameTask(t, u) PROVE Learned(t, u, m)
  BY <1>1, <1>2 DEF SameTask, Learned, TaskBilled
<1>3. ASSUME NEW u, NEW named, Learns(t, named, u), SameTask(t, u), u \in Tasks
      PROVE  \E v : Becomes(t, v) /\ Learned(t, v, m)
  <2> DEFINE session == u.session \/ named
             v == [u EXCEPT !.run = "owned", !.session = session]
  <2>1. Becomes(t, v)
    BY <1>3 DEF Learns
  <2>2. SameTask(t, v)
    BY <1>3 DEF SameTask, Tasks
  <2> HIDE DEF v
  <2> QED BY <1>2, <2>1, <2>2
<1> QED BY <1>2, <1>3

(* Every step of an execution but the dispatch and its end.                *)
LEMMA TaskLearns ==
  ASSUME BillInvariant, NEW t \in tasks, TaskStep(t) \/ Crash(t), ~Dispatch(t)
  PROVE  \/ tasks' = tasks \ {t}
         \/ \E u : Becomes(t, u) /\ Learned(t, u, remote[t.attempt])
<1> DEFINE a == t.attempt
           m == remote[a]
           Done == \E u : Becomes(t, u) /\ Learned(t, u, m)
           verdict == Verdict(a)
<1>1. /\ t \in Tasks /\ a \in Attempts /\ m \in Remotes /\ TaskFits(t, row[a], m)
      /\ TaskBilled(t, row[a], m) /\ row[a].cancelled \in BOOLEAN
  BY DEF BillInvariant, AttemptInvariant, TypeOK, Tasks, TasksBilled, TasksFit, Rows
<1>2. ASSUME NEW u, Becomes(t, u), SameTask(t, u) PROVE Done
  BY <1>2, LearnsBill
<1>3. ASSUME NEW u \in Tasks, NEW named, Learns(t, named, u), SameTask(t, u) PROVE Done
  BY <1>3, LearnsBill
<1>4. ASSUME NEW u \in Tasks, SameTask(t, u)
      PROVE  Proceeds(t, u) \in Tasks /\ SameTask(t, Proceeds(t, u))
  <2>1. [u EXCEPT !.at = "cleanup", !.error = "cancelled"] \in Tasks
    BY ZenonT(60) DEF Tasks, Places
  <2>2. SameTask(u, [u EXCEPT !.at = "cleanup", !.error = "cancelled"])
    BY MovesOn, ZenonT(60)
  <2> QED BY <1>4, <2>1, <2>2 DEF Proceeds, SameTask
<1>5. verdict \in {NULL, "completed", "failed"}
  BY DEF Verdict
<1> HIDE DEF verdict
<1>6. CASE ReceiveRun(t) \/ PollRun(t)
  <2> DEFINE u == [t EXCEPT !.at = "polling"]
             v == [t EXCEPT !.at = "watching", !.verified = verdict]
  <2>1. \E named : Learns(t, named, Proceeds(t, u)) \/ Learns(t, named, Proceeds(t, v))
    BY <1>6 DEF ReceiveRun, PollRun, verdict
  <2>2. u \in Tasks /\ v \in Tasks
    BY <1>1, <1>5, ZenonT(60) DEF Tasks, Places
  <2>3. SameTask(t, u) /\ SameTask(t, v)
    BY <1>1, MovesOn, ZenonT(60)
  <2> HIDE DEF u, v
  <2> QED BY <1>3, <1>4, <2>1, <2>2, <2>3
<1>7. CASE Discover(t) \/ RequestStop(t) \/ CleanupRun(t)
  <2> DEFINE lost == [t EXCEPT !.at = "cleanup", !.error = "failed"]
             found == [t EXCEPT !.at = "verifying"]
             asked == [t EXCEPT !.stopped = TRUE]
             seen == [t EXCEPT !.verified = verdict]
  <2>1. \E named : \/ Learns(t, named, IF row[a].cancelled THEN lost ELSE found)
                   \/ Learns(t, named, asked) \/ Learns(t, named, seen)
    BY <1>7 DEF Discover, RequestStop, CleanupRun, verdict
  <2>2. lost \in Tasks /\ found \in Tasks /\ asked \in Tasks /\ seen \in Tasks
    BY <1>1, <1>5, ZenonT(60) DEF Tasks, Places
  <2>3. SameTask(t, lost) /\ SameTask(t, found) /\ SameTask(t, asked) /\ SameTask(t, seen)
    BY <1>1, MovesOn, ZenonT(60)
  <2> HIDE DEF lost, found, asked, seen
  <2> QED BY <1>3, <2>1, <2>2, <2>3
<1>8. CASE Verify(t)
  <2>1. PICK named \in BOOLEAN, error \in {"failed", "cancelled"} :
          Learns(t, named, [t EXCEPT !.at = "cleanup", !.verified = verdict,
                                     !.error = IF row[a].cancelled THEN "failed"
                                               ELSE IF verdict = NULL THEN error ELSE NULL])
    BY <1>8 DEF Verify, verdict
  <2> DEFINE said == IF row[a].cancelled THEN "failed" ELSE IF verdict = NULL THEN error ELSE NULL
             u == [t EXCEPT !.at = "cleanup", !.verified = verdict, !.error = said]
  <2>2. said \in {NULL, "failed", "cancelled"}
    OBVIOUS
  <2>3. Learns(t, named, u)
    BY <2>1
  <2> HIDE DEF said
  <2>4. u \in Tasks
    BY <1>1, <1>5, <2>2, ZenonT(60) DEF Tasks, Places
  <2>5. SameTask(t, u)
    BY <1>1, MovesOn, ZenonT(60)
  <2> HIDE DEF u
  <2> QED BY <1>3, <2>3, <2>4, <2>5
<1>9. CASE \/ Create(t) \/ BeginRecovery(t) \/ Interrupted(t) \/ FenceThrows(t) \/ GiveUpCleanup(t)
           \/ Publish(t)
  <2>1. \E p : Becomes(t, [t EXCEPT !.at = p]) \/ \E e : Becomes(t, [t EXCEPT !.at = p, !.error = e])
    <3>1. CASE Create(t)
      BY <3>1 DEF Create
    <3>2. CASE BeginRecovery(t)
      BY <3>2, ZenonT(60) DEF BeginRecovery
    <3>3. CASE Interrupted(t)
      <4>1. \E e : Becomes(t, [t EXCEPT !.at = "cleanup", !.error = e])
        BY <3>3, ZenonT(60) DEF Interrupted
      <4> QED BY <4>1
    <3>4. CASE FenceThrows(t)
      BY <3>4 DEF FenceThrows
    <3>5. CASE GiveUpCleanup(t)
      BY <3>5, ZenonT(60) DEF GiveUpCleanup
    <3>6. CASE Publish(t)
      <4>1. \E e : Becomes(t, [t EXCEPT !.at = "report", !.error = e])
        BY <3>6, ZenonT(60) DEF Publish
      <4> QED BY <4>1
    <3> QED BY <1>9, <3>1, <3>2, <3>3, <3>4, <3>5, <3>6
  <2> QED BY <1>1, <1>2, <2>1, MovesOn, ZenonT(60)
<1>10. CASE EndUnallocated(t)
  <2>1. PICK error : Becomes(t, [t EXCEPT !.at = "report", !.closed = TRUE, !.error = error])
    BY <1>10 DEF EndUnallocated
  <2> DEFINE u == [t EXCEPT !.at = "report", !.closed = TRUE, !.error = error]
  <2>2. u.attempt = a /\ u.allocated = t.allocated /\ u.closed /\ u.seconds = t.seconds
    BY <1>1 DEF Tasks
  <2>3. Becomes(t, u)
    BY <2>1
  <2> HIDE DEF u
  <2> QED BY <2>2, <2>3 DEF Learned
<1>11. CASE Contradicted(t)
  <2> DEFINE u == [t EXCEPT !.at = "report", !.closed = FALSE, !.seconds = NULL, !.error = "failed"]
  <2>1. Becomes(t, u)
    BY <1>11 DEF Contradicted
  <2>2. u.attempt = a /\ u.allocated = t.allocated /\ u.seconds = NULL
    BY <1>1 DEF Tasks
  <2> HIDE DEF u
  <2> QED BY <2>1, <2>2 DEF Learned
<1>12. ASSUME NEW u \in Tasks, SameTask(t, u), SeesSession(t, u) PROVE Done
  <2>1. CASE Closed(t)
    <3>1. PICK seconds \in {m.seconds, NULL} :
            Becomes(t, [u EXCEPT !.closed = TRUE, !.seconds = seconds])
      BY <1>12, <2>1 DEF SeesSession
    <3> DEFINE v == [u EXCEPT !.closed = TRUE, !.seconds = seconds]
    <3>2. v.attempt = a /\ v.allocated = t.allocated /\ v.closed /\ v.seconds = seconds
      BY <1>12 DEF Tasks, SameTask
    <3>3. Becomes(t, v) /\ m.session = "over"
      BY <2>1, <3>1 DEF Closed
    <3> HIDE DEF v
    <3> QED BY <3>1, <3>2, <3>3 DEF Learned
  <2>2. CASE ~Closed(t)
    BY <1>2, <1>12, <2>2 DEF SeesSession
  <2> QED BY <2>1, <2>2
<1>13. CASE WatchSession(t)
  <2> DEFINE place == IF t.verified # NULL THEN "cleanup" ELSE "polling"
  <2>1. place \in {"cleanup", "polling"}
    BY SMTT(60)
  <2> DEFINE v == [t EXCEPT !.at = place]
  <2>2. SeesSession(t, Proceeds(t, v))
    BY <1>13 DEF WatchSession
  <2> HIDE DEF place
  <2>3. v \in Tasks /\ SameTask(t, v)
    <3>1. v \in Tasks
      BY <1>1, <2>1 DEF Tasks, Places
    <3> QED BY <1>1, <3>1, MovesOn
  <2> HIDE DEF v
  <2> QED BY <1>4, <1>12, <2>2, <2>3
<1>14. CASE CleanupSession(t)
  <2> DEFINE ended == [t EXCEPT !.at = "publish", !.closed = TRUE]
             seen == [t EXCEPT !.at = "publish"]
             asked == [t EXCEPT !.released = TRUE]
  <2>1. Becomes(t, ended) \/ SeesSession(t, seen) \/ Becomes(t, asked)
    BY <1>14, ZenonT(60) DEF CleanupSession
  <2>2. seen \in Tasks /\ SameTask(t, seen) /\ SameTask(t, asked)
    <3>1. seen \in Tasks
      BY <1>1 DEF Tasks, Places
    <3> QED BY <1>1, <3>1, MovesOn
  <2>3. ended.attempt = a /\ ended.allocated = t.allocated /\ ended.closed /\ ended.seconds = t.seconds
    BY <1>1 DEF Tasks
  <2> HIDE DEF ended, seen, asked
  <2>4. Learned(t, ended, m)
    BY <2>3 DEF Learned
  <2> QED BY <1>2, <1>12, <2>1, <2>2, <2>4
<1>15. CASE LeaseLost(t) \/ Crash(t) \/ Finish(t)
  BY <1>15, ZenonT(60) DEF LeaseLost, Crash, Finish
<1> QED BY <1>6, <1>7, <1>8, <1>9, <1>10, <1>11, <1>13, <1>14, <1>15 DEF TaskStep

LEMMA TasksBilledStep ==
  ASSUME BillInvariant, [Next]_vars
  PROVE  TasksBilled'
<1>1. /\ TypeOK /\ tasks \subseteq Tasks /\ row \in [Attempts -> Rows]
      /\ \A t \in tasks : t.attempt \in Attempts /\ TaskBilled(t, row[t.attempt], remote[t.attempt])
  BY DEF BillInvariant, AttemptInvariant, TypeOK, TasksBilled, Tasks
<1>2. \A b \in Attempts : /\ Measures(remote[b], remote'[b])
                          /\ row[b].dispatched => row'[b].dispatched
  BY MeasuresStep, RowsBilledStep
<1>3. ASSUME NEW v \in tasks PROVE TaskBilled(v, row'[v.attempt], remote'[v.attempt])
  BY <1>1, <1>2, BilledTaskStays
<1>4. CASE tasks' \subseteq tasks
  BY <1>3, <1>4 DEF TasksBilled
<1>5. ASSUME NEW t \in tasks, NEW u, Becomes(t, u), TaskBilled(u, row'[u.attempt], remote'[u.attempt])
      PROVE  TasksBilled'
  BY <1>3, <1>5 DEF TasksBilled, Becomes
<1>6. ASSUME NEW t \in tasks, TaskStep(t) \/ Crash(t) PROVE TasksBilled'
  <2> DEFINE a == t.attempt
  <2>1. CASE Dispatch(t)
    <3> DEFINE u == [t EXCEPT !.at = "dispatched", !.allocated = TRUE]
    <3>1. Becomes(t, u) /\ row'[a].dispatched
      <4>1. row' = [row EXCEPT ![a] = [row[a] EXCEPT !.state = "dispatched", !.dispatched = TRUE]]
        BY <2>1 DEF Dispatch
      <4>2. row[a] \in Rows /\ a \in Attempts
        BY <1>1
      <4> QED BY <1>1, <2>1, <4>1, <4>2 DEF Dispatch, Rows
    <3>2. u.attempt = a /\ u.seconds = t.seconds /\ u.closed = t.closed
      BY <1>1 DEF Tasks
    <3> HIDE DEF u
    <3>3. TaskBilled(u, row'[a], remote'[a])
      BY <1>3, <3>1, <3>2 DEF TaskBilled
    <3> QED BY <1>5, <3>1, <3>2, <3>3
  <2>2. CASE ~Dispatch(t)
    <3>1. CASE tasks' = tasks \ {t}
      BY <1>4, <3>1
    <3>2. ASSUME NEW u, Becomes(t, u), Learned(t, u, remote[a]) PROVE TasksBilled'
      <4>1. TaskBilled(t, row'[a], remote'[a]) /\ Measures(remote[a], remote'[a])
        BY <1>1, <1>2, <1>3
      <4>2. TaskBilled(u, row'[a], remote'[a])
        <5>1. u.allocated => row'[a].dispatched
          BY <3>2, <4>1 DEF Learned, TaskBilled
        <5>2. u.seconds # NULL =>
                u.closed /\ remote'[a].session = "over" /\ u.seconds = remote'[a].seconds
          BY <3>2, <4>1 DEF Learned, TaskBilled, Measures
        <5> QED BY <5>1, <5>2 DEF TaskBilled
      <4> QED BY <1>5, <3>2, <4>2 DEF Learned
    <3> QED BY <1>6, <2>2, <3>1, <3>2, TaskLearns
  <2> QED BY <2>1, <2>2
<1>7. ASSUME NEW a \in Attempts, ClaimExpired(a) \/ ClaimQueued(a) PROVE TasksBilled'
  <2>1. PICK r : Acquire(a, r)
    BY <1>7 DEF ClaimExpired, ClaimQueued
  <2> DEFINE new ==
        [attempt |-> a, generation |-> row[a].generation + 1, at |-> "start",
         allocated |-> AllocationPossible(a),
         run |-> IF row[a].runKnown THEN "named" ELSE "unknown", session |-> row[a].sessionKnown,
         verified |-> NULL, closed |-> FALSE, seconds |-> NULL,
         stopped |-> FALSE, released |-> FALSE, error |-> NULL]
  <2>2. tasks' = tasks \cup {new}
    BY <2>1 DEF Acquire
  <2>3. new.attempt = a /\ new.seconds = NULL /\ new.allocated = AllocationPossible(a)
    OBVIOUS
  <2>4. AllocationPossible(a) => row[a].dispatched
    <3>1. BillFits(row[a], remote[a]) /\ RowFits(row[a], remote[a])
      BY DEF BillInvariant, RowsBilled, AttemptInvariant, RowsFit
    <3> QED BY <3>1 DEF AllocationPossible, BillFits, RowFits
  <2> HIDE DEF new
  <2>5. TaskBilled(new, row'[a], remote'[a])
    BY <1>2, <2>3, <2>4 DEF TaskBilled
  <2> QED BY <1>3, <2>2, <2>3, <2>5 DEF TasksBilled
<1> QED BY <1>4, <1>6, <1>7
        DEF Next, vars, ProviderStep, ProviderRuns, ProviderOpensSession, ProviderEndsRun,
            ProviderEndsSession, LeaseExpires, HolderStalls, BackOffEnds, RefuseQueued, Cancel,
            JobStarts, JobSettles

LEMMA BillStep ==
  ASSUME BillInvariant, [Next]_vars
  PROVE  BillInvariant'
<1>1. AttemptInvariant'
  BY AttemptStep DEF BillInvariant
<1>2. RowsBilled'
  BY RowsBilledStep DEF RowsBilled
<1> QED BY <1>1, <1>2, TasksBilledStep DEF BillInvariant

(* What an attempt costs: its reservation while it holds a slot, and what  *)
(* the provider billed once it has settled, or the reservation when the    *)
(* bill could not be read, whatever crashes and recoveries came between    *)
(* (finish(), accounting(), observeSession()).                             *)
THEOREM AttemptsAreChargedAsBilled == Spec => []ChargedAsBilled
<1>1. Init => BillInvariant
  BY BillInit
<1>2. BillInvariant /\ [Next]_vars => BillInvariant'
  BY BillStep
<1>3. BillInvariant => ChargedAsBilled
  <2> SUFFICES ASSUME BillInvariant, NEW a \in Attempts
               PROVE  /\ row[a].state \notin {"queued", "settled"} =>
                           Charge(a) = SessionSeconds /\ row[a].actual = NULL
                      /\ row[a].state = "settled" =>
                           Charge(a) = IF row[a].actual = NULL THEN SessionSeconds
                                       ELSE Known(remote[a].seconds)
                      /\ row[a].actual # NULL => row[a].actual = Known(remote[a].seconds)
    BY DEF ChargedAsBilled
  <2>1. BillFits(row[a], remote[a]) /\ row[a] \in Rows /\ row[a].state \in RowStates
    BY DEF BillInvariant, RowsBilled, AttemptInvariant, TypeOK, Rows
  <2>2. Open(row[a]) => Charge(a) = SessionSeconds
    BY <2>1, PolicyAssumption DEF BillFits, Charge, Larger
  <2>3. row[a].state \notin {"queued", "settled"} <=> Open(row[a])
    BY <2>1 DEF Open, RowStates
  <2> QED BY <2>1, <2>2, <2>3 DEF BillFits, Charge, RowStates
<1> QED BY <1>1, <1>2, <1>3, PTL DEF Spec

(* Nothing of a settled attempt changes any more, neither its row nor      *)
(* anything at the provider: an execution that lost its lease writes and   *)
(* asks for nothing (assertLease(), finish()).                             *)
THEOREM SettledAttemptsStand == Spec => SettledIsFinal
<1>1. Init => BillInvariant
  BY BillInit
<1>2. BillInvariant /\ [Next]_vars => BillInvariant'
  BY BillStep
<1>3. BillInvariant /\ [Next]_vars =>
        [\A a \in Attempts :
           row[a].state = "settled" => row'[a] = row[a] /\ remote'[a] = remote[a]]_vars
  BY SettledStays
<1> QED BY <1>1, <1>2, <1>3, PTL DEF Spec, SettledIsFinal
=============================================================================
