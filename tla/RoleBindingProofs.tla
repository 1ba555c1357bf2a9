------------------------- MODULE RoleBindingProofs -------------------------
(***************************************************************************)
(* Proof that the service account of every namespace with an Egress is     *)
(* bound when the reconcilers have come to rest, for any set of Egresses,  *)
(* any number of edits, failing calls and restarts.                        *)
(***************************************************************************)
EXTENDS RoleBinding, FiniteSetTheorems, TLAPS

\* A finite set of numbers can be listed in order: each number stands at the
\* place that is the number of elements up to it.
LEMMA SortedListing ==
    ASSUME NEW S \in SUBSET Nat, IsFiniteSet(S)
    PROVE  \E s \in SetToSeqs(S) : \A i, j \in DOMAIN s : i < j => s[i] < s[j]
  <1> DEFINE n       == Cardinality(S)
             upTo(x) == {y \in S : y <= x}
             rank    == [x \in S |-> Cardinality(upTo(x))]
             s       == [i \in 1..n |-> CHOOSE x \in S : rank[x] = i]
  <1>0. n \in Nat
    BY FS_CardinalityType
  <1>1. \A x \in S : IsFiniteSet(upTo(x)) /\ rank[x] \in 1..n
    <2> SUFFICES ASSUME NEW x \in S
                 PROVE  IsFiniteSet(upTo(x)) /\ rank[x] \in 1..n
      OBVIOUS
    <2>1. IsFiniteSet(upTo(x)) /\ Cardinality(upTo(x)) <= n
      BY FS_Subset
    <2>2. x \in upTo(x)
      OBVIOUS
    <2>3. Cardinality(upTo(x)) \in Nat /\ Cardinality(upTo(x)) # 0
      BY <2>1, <2>2, FS_CardinalityType, FS_EmptySet
    <2> QED
      BY <1>0, <2>1, <2>3
  <1>2. \A x, y \in S : x < y => rank[x] < rank[y]
    <2> SUFFICES ASSUME NEW x \in S, NEW y \in S, x < y
                 PROVE  rank[x] < rank[y]
      OBVIOUS
    <2>0. x \in Nat /\ y \in Nat
      OBVIOUS
    <2>1. /\ \A z \in Nat : z <= x => z <= y
          /\ y \in upTo(y) /\ y \notin upTo(x)
      BY <2>0
    <2>2. /\ Cardinality(upTo(x)) <= Cardinality(upTo(y))
          /\ Cardinality(upTo(y)) # Cardinality(upTo(x))
      <3>1. upTo(x) \in SUBSET upTo(y)
        BY <2>1
      <3> QED
        BY <1>1, <2>1, <3>1, FS_Subset
    <2> QED
      BY <1>0, <1>1, <2>2
  <1> HIDE DEF n, rank
  <1>3. rank \in [S -> 1..n]
    BY <1>1 DEF rank
  <1>4. rank \in Injection(S, 1..n)
    <2>1. \A x, y \in S : rank[x] = rank[y] => x = y
      <3> SUFFICES ASSUME NEW x \in S, NEW y \in S, x # y
                   PROVE  rank[x] # rank[y]
        OBVIOUS
      <3>1. x < y \/ y < x
        OBVIOUS
      <3>2. rank[x] \in Nat /\ rank[y] \in Nat
        BY <1>0, <1>3
      <3>3. rank[x] < rank[y] \/ rank[y] < rank[x]
        BY <1>2, <3>1
      <3> QED
        BY <3>2, <3>3
    <2> QED
      BY <1>3, <2>1 DEF Injection, IsInjective
  <1>5. \A i \in 1..n : \E x \in S : rank[x] = i
    <2>1. IsFiniteSet(1..n) /\ Cardinality(1..n) = n
      BY <1>0, FS_Interval
    <2>2. rank \in Surjection(S, 1..n)
      BY <1>4, <2>1, FS_Injection DEF n
    <2> QED
      BY <2>2 DEF Surjection
  <1>6. \A i \in 1..n : s[i] \in S /\ rank[s[i]] = i
    BY <1>5
  <1> HIDE DEF s
  <1>7. \A i, j \in 1..n : i < j => s[i] < s[j]
    <2> SUFFICES ASSUME NEW i \in 1..n, NEW j \in 1..n, i < j, ~ (s[i] < s[j])
                 PROVE  FALSE
      OBVIOUS
    <2>1. s[i] \in S /\ s[j] \in S /\ rank[s[i]] = i /\ rank[s[j]] = j
      BY <1>6
    <2>2. s[j] = s[i] \/ s[j] < s[i]
      <3>1. s[i] \in Nat /\ s[j] \in Nat
        BY <2>1
      <3> QED
        BY <3>1
    <2>3. j = i \/ j < i
      BY <1>2, <2>1, <2>2
    <2> QED
      BY <1>0, <2>3
  <1>8. DOMAIN s = 1..n /\ s \in [1..n -> S]
    BY <1>6 DEF s
  <1>9. \A i, j \in 1..n : i # j => s[i] # s[j]
    BY <1>0, <1>6
  <1>10. s \in SetToSeqs(S)
    BY <1>8, <1>9 DEF SetToSeqs, n
  <1> QED
    BY <1>7, <1>8, <1>10

\* A listing of a finite set without repetition has all its elements.
LEMMA ListingComplete ==
    ASSUME NEW S, IsFiniteSet(S), NEW s \in SetToSeqs(S)
    PROVE  s \in Seq(S) /\ ToSet(s) = S
  <1> DEFINE n == Cardinality(S)
  <1>1. n \in Nat
    BY FS_CardinalityType
  <1>2. IsFiniteSet(1..n) /\ Cardinality(1..n) = n
    BY <1>1, FS_Interval
  <1>3. s \in Injection(1..n, S)
    BY DEF SetToSeqs, Injection, IsInjective
  <1>4. s \in Surjection(1..n, S)
    BY <1>2, <1>3, FS_Injection
  <1>5. s \in [1..n -> S]
    BY <1>3 DEF Injection
  <1> HIDE DEF n
  <1>6. ToSet(s) = S
    BY <1>4, <1>5 DEF ToSet, Surjection
  <1> QED
    BY <1>1, <1>5, <1>6

\* The subjects that reconcileCRB computes are the namespaces of the Egresses in
\* the cache.
LEMMA SubjectsComplete ==
    ASSUME cache.egress \subseteq E
    PROVE  Subjects \in Seq(Nat) /\ ToSet(Subjects) = {NS[e] : e \in cache.egress}
  <1>1. IsFiniteSet(cache.egress) /\ Namespaces \subseteq Nat
    BY BindingAssumption, FS_Subset DEF Namespaces
  <1>2. IsFiniteSet(Namespaces)
    <2> DEFINE f == [e \in cache.egress |-> NS[e]]
    <2>1. f \in Surjection(cache.egress, Namespaces)
      BY DEF Surjection, Namespaces
    <2> QED
      BY <1>1, <2>1, FS_Surjection
  <1>3. Subjects \in SetToSeqs(Namespaces)
    BY <1>1, <1>2, SortedListing DEF Subjects
  <1>4. Subjects \in Seq(Namespaces) /\ ToSet(Subjects) = Namespaces
    BY <1>2, <1>3, ListingComplete
  <1> QED
    BY <1>1, <1>4 DEF Namespaces

\* A list that needs no update has all the subjects.
LEMMA DerivativeHolds ==
    ASSUME NEW s \in Seq(Nat), NEW t \in Seq(Nat), DeepDerivative(s, t)
    PROVE  ToSet(s) \subseteq ToSet(t)
  <1>1. Len(s) <= Len(t) /\ SubSeq(s, 1, Len(s)) = SubSeq(t, 1, Len(s))
    BY DEF DeepDerivative, IsPrefix
  <1>2. \A i \in 1..Len(s) : s[i] = t[i] /\ i \in 1..Len(t)
    <2> SUFFICES ASSUME NEW i \in 1..Len(s) PROVE s[i] = t[i] /\ i \in 1..Len(t)
      OBVIOUS
    <2>1. SubSeq(s, 1, Len(s))[i] = s[i] /\ SubSeq(t, 1, Len(s))[i] = t[i]
      BY <1>1
    <2> QED
      BY <1>1, <2>1
  <1> QED
    BY <1>2 DEF ToSet

-----------------------------------------------------------------------------
(***************************************************************************)
(* The invariant.                                                          *)
(***************************************************************************)

\* A call that is not idle is one of reconcileCRB, and an idle one holds nothing.
LEMMA CallFields ==
    ASSUME TypeOK, NEW r \in Callers
    PROVE  /\ call[r] # Idle => call[r] \in Call
           /\ call[r].pc \in {"List", "Update"} => call[r] # Idle
           /\ call[r].latest => call[r] # Idle
  BY DEF TypeOK, Idle

\* A copy that is outdated stays what it was otherwise.
LEMMA OutdatedCalls ==
    ASSUME TypeOK
    PROVE  /\ Outdated \in [Callers -> Call \cup {Idle}]
           /\ \A r \in Callers : ~ Outdated[r].latest
  <1> SUFFICES ASSUME NEW r \in Callers
               PROVE  /\ [call[r] EXCEPT !.latest = FALSE] \in Call \cup {Idle}
                      /\ ~ [call[r] EXCEPT !.latest = FALSE].latest
    BY DEF Outdated
  <1>1. CASE call[r] \in Call
    BY <1>1 DEF Call
  <1>2. CASE call[r] = Idle
    <2>1. Idle \in [req : {"none"}, pc : {"idle"}, copy : {<<>>}, latest : {FALSE},
                    subjects : {<<>>}]
      BY DEF Idle
    <2>2. [Idle EXCEPT !.latest = FALSE] = Idle
      BY <2>1
    <2> QED
      BY <1>2, <2>1, <2>2
  <1> QED
    BY <1>1, <1>2 DEF TypeOK

\* Every variable keeps its type.
LEMMA TypeInductive ==
    ASSUME TypeOK, [Next]_vars
    PROVE  TypeOK'
  <1> USE DEF TypeOK
  <1>1. ASSUME NEW e \in E, EditEgress(e) \/ Ignore(e)
        PROVE  TypeOK'
    BY <1>1, BindingAssumption DEF EditEgress, Ignore, Edit
  <1>2. ASSUME NEW s \in Leftovers, EditCRB(s)
        PROVE  TypeOK'
    BY <1>2, OutdatedCalls, BindingAssumption DEF EditCRB, Edit
  <1>3. CASE SyncEgress \/ SyncCRB
    BY <1>3 DEF SyncEgress, SyncCRB
  <1>4. CASE Restart
    BY <1>4, BindingAssumption DEF Restart
  <1>5. ASSUME NEW r \in Callers,
               Reconcile(r) \/ List(r) \/ Update(r) \/ Conflict(r) \/ Fault(r)
        PROVE  TypeOK'
    <2>1. CASE Reconcile(r)
      <3>1. PICK q \in queue :
               /\ queue' = queue \ {q}
               /\ Set(r, [req |-> q, pc |-> "List", copy |-> cache.crb,
                          latest |-> "CRB" \notin events, subjects |-> <<>>])
        BY <2>1 DEF Reconcile
      <3>2. [req |-> q, pc |-> "List", copy |-> cache.crb,
             latest |-> "CRB" \notin events, subjects |-> <<>>] \in Call
        BY DEF Call
      <3> QED
        BY <2>1, <3>1, <3>2 DEF Reconcile, Set
    <2>2. CASE List(r)
      <3>1. Subjects \in Seq(Nat) /\ call[r] \in Call
        BY <2>2, CallFields, SubjectsComplete DEF List
      <3>2. [call[r] EXCEPT !.pc = "Update", !.subjects = Subjects] \in Call
        BY <3>1 DEF Call
      <3> QED
        BY <2>2, <3>2 DEF List, Set
    <2>3. CASE Update(r)
      <3>1. [Outdated EXCEPT ![r] = Idle] \in [Callers -> Call \cup {Idle}]
        BY OutdatedCalls
      <3>2. call[r] \in Call
        BY <2>3, CallFields DEF Update
      <3> QED
        BY <2>3, <3>1, <3>2 DEF Update, Call
    <2>4. CASE Conflict(r) \/ Fault(r)
      <3>1. call[r].req \in E \cup {"CRB"}
        BY <2>4, CallFields DEF Conflict, Fault, Call
      <3> QED
        BY <2>4, <3>1, BindingAssumption DEF Conflict, Fault, Set
    <2> QED
      BY <1>5, <2>1, <2>2, <2>3, <2>4
  <1>6. CASE UNCHANGED vars
    BY <1>6 DEF vars
  <1> QED
    BY <1>1, <1>2, <1>3, <1>4, <1>5, <1>6 DEF Next

\* The caches follow, and what a caller holds as the latest version is that.
LEMMA FollowsInductive ==
    ASSUME TypeOK, CacheFollows, LatestCopy, [Next]_vars
    PROVE  CacheFollows' /\ LatestCopy'
  <1> USE DEF CacheFollows, LatestCopy
  <1>1. ASSUME NEW e \in E, EditEgress(e) \/ Ignore(e)
        PROVE  CacheFollows' /\ LatestCopy'
    BY <1>1, BindingAssumption DEF EditEgress, Ignore
  <1>2. ASSUME NEW s \in Leftovers, EditCRB(s)
        PROVE  CacheFollows' /\ LatestCopy'
    BY <1>2, OutdatedCalls, BindingAssumption DEF EditCRB
  <1>3. CASE SyncEgress \/ SyncCRB
    BY <1>3, BindingAssumption DEF SyncEgress, SyncCRB, TypeOK
  <1>4. CASE Restart
    BY <1>4 DEF Restart, Idle
  <1>5. ASSUME NEW r \in Callers,
               Reconcile(r) \/ List(r) \/ Update(r) \/ Conflict(r) \/ Fault(r)
        PROVE  CacheFollows' /\ LatestCopy'
    <2>1. CASE Reconcile(r)
      <3>1. PICK q \in queue :
               Set(r, [req |-> q, pc |-> "List", copy |-> cache.crb,
                       latest |-> "CRB" \notin events, subjects |-> <<>>])
        BY <2>1 DEF Reconcile
      <3>2. call'[r] = [req |-> q, pc |-> "List", copy |-> cache.crb,
                        latest |-> "CRB" \notin events, subjects |-> <<>>]
        BY <3>1 DEF Set, TypeOK
      <3>3. call'[r].copy = cache.crb /\ call'[r].latest = ("CRB" \notin events)
        BY <3>2
      <3>4. \A p \in Callers \ {r} : call'[p] = call[p]
        BY <3>1 DEF Set, TypeOK
      <3> QED
        BY <2>1, <3>3, <3>4 DEF Reconcile
    <2>2. CASE List(r)
      <3>1. call[r] \in Call
        BY <2>2, CallFields DEF List
      <3>2. call'[r].latest => call'[r].copy = crb
        BY <2>2, <3>1 DEF List, Set, TypeOK, Idle, Call
      <3> QED
        BY <2>2, <3>2 DEF List, Set, TypeOK
    <2>3. CASE Update(r)
      <3>1. \A q \in Callers : ~ call'[q].latest
        BY <2>3, OutdatedCalls DEF Update, Idle
      <3> QED
        BY <2>3, <3>1, BindingAssumption DEF Update
    <2>4. CASE Conflict(r) \/ Fault(r)
      BY <2>4 DEF Conflict, Fault, Set, TypeOK, Idle
    <2> QED
      BY <1>5, <2>1, <2>2, <2>3, <2>4
  <1>6. CASE UNCHANGED vars
    BY <1>6 DEF vars
  <1> QED
    BY <1>1, <1>2, <1>3, <1>4, <1>5, <1>6 DEF Next

\* No step lets go of an Egress that is not bound.
LEMMA CoveredInductive ==
    ASSUME BindingInv, [Next]_vars
    PROVE  Covered'
  <1>0. TypeOK /\ CacheFollows /\ LatestCopy /\ Covered
    BY DEF BindingInv
  <1> SUFFICES ASSUME NEW e \in egress', NS[e] \notin ToSet(crb'),
                      e \notin events' \cup queue', "CRB" \notin events' \cup queue'
               PROVE  \E r \in Callers : WillBind(r, e)'
    BY DEF Covered
  <1>1. ASSUME NEW r \in Callers, call'[r] = call[r], WillBind(r, e)
        PROVE  WillBind(r, e)'
    BY <1>1 DEF WillBind
  <1>2. ASSUME e \in egress, UNCHANGED crb, {e, "CRB"} \cap (events \cup queue) = {}
        PROVE  \E r \in Callers : WillBind(r, e)
    BY <1>0, <1>2 DEF Covered
  <1>3. ASSUME NEW f \in E, EditEgress(f)
        PROVE  \E r \in Callers : WillBind(r, e)'
    <2>1. e \in egress /\ {e, "CRB"} \cap (events \cup queue) = {} /\ UNCHANGED <<crb, call>>
      BY <1>3 DEF EditEgress
    <2> QED
      BY <1>1, <1>2, <2>1
  <1>4. ASSUME NEW f \in E, Ignore(f)
        PROVE  \E r \in Callers : WillBind(r, e)'
    <2>1. e \in egress /\ e \in cache.egress /\ UNCHANGED <<crb, call>>
      BY <1>0, <1>4 DEF Ignore, CacheFollows, TypeOK
    <2>2. {e, "CRB"} \cap (events \cup queue) = {}
      BY <1>4, <2>1, BindingAssumption DEF Ignore
    <2> QED
      BY <1>1, <1>2, <2>1, <2>2
  <1>5. CASE SyncEgress
    <2>1. e \in egress /\ {e, "CRB"} \cap (events \cup queue) = {} /\ UNCHANGED <<crb, call>>
      BY <1>5, BindingAssumption DEF SyncEgress
    <2> QED
      BY <1>1, <1>2, <2>1
  <1>6. ASSUME \/ \E s \in Leftovers : EditCRB(s)
               \/ SyncCRB \/ Restart
               \/ \E r \in Callers : Update(r)
        PROVE  FALSE
    BY <1>6 DEF EditCRB, SyncCRB, Restart, Update
  <1>7. ASSUME NEW r \in Callers, Reconcile(r)
        PROVE  \E q \in Callers : WillBind(q, e)'
    <2>1. PICK q \in queue :
             /\ queue' = queue \ {q}
             /\ Set(r, [req |-> q, pc |-> "List", copy |-> cache.crb,
                        latest |-> "CRB" \notin events, subjects |-> <<>>])
      BY <1>7 DEF Reconcile
    <2>2. CASE q \in {e, "CRB"}
      <3>1. call'[r] = [req |-> q, pc |-> "List", copy |-> cache.crb,
                        latest |-> "CRB" \notin events, subjects |-> <<>>]
        BY <1>0, <2>1 DEF Set, TypeOK
      <3>2. "CRB" \notin events
        BY <1>7 DEF Reconcile
      <3>3. /\ call'[r].latest = ("CRB" \notin events)
            /\ call'[r].req = q /\ call'[r].pc = "List"
        BY <3>1
      <3>4. WillBind(r, e)'
        BY <2>2, <3>2, <3>3 DEF WillBind
      <3> QED
        BY <3>4
    <2>3. CASE q \notin {e, "CRB"}
      <3>1. PICK q0 \in Callers : WillBind(q0, e)
        BY <1>2, <1>7, <2>1, <2>3 DEF Reconcile
      <3>2. q0 # r
        BY <1>7, <3>1 DEF WillBind, Reconcile, Idle
      <3> QED
        BY <1>0, <1>1, <2>1, <3>1, <3>2 DEF Set, TypeOK
    <2> QED
      BY <2>2, <2>3
  <1>8. ASSUME NEW r \in Callers, List(r)
        PROVE  \E q \in Callers : WillBind(q, e)'
    <2>1. PICK q \in Callers : WillBind(q, e)
      BY <1>2, <1>8 DEF List
    <2>2. CASE q # r
      BY <1>0, <1>1, <1>8, <2>1, <2>2 DEF List, Set, TypeOK
    <2>3. CASE q = r
      <3>1. call[r] \in Call /\ call[r].copy = crb
        BY <1>0, <1>8, <2>1, <2>3, CallFields DEF List, WillBind, LatestCopy
      <3>2. e \in cache.egress
        BY <1>0, <1>8 DEF List, CacheFollows, TypeOK
      <3>3. NS[e] \in ToSet(Subjects) /\ Subjects \in Seq(Nat)
        BY <1>0, <3>2, SubjectsComplete DEF TypeOK
      <3>4. ~ DeepDerivative(Subjects, call[r].copy)
        BY <1>0, <1>8, <3>1, <3>3, DerivativeHolds DEF List, TypeOK
      <3>5. call'[r] = [call[r] EXCEPT !.pc = "Update", !.subjects = Subjects]
        BY <1>0, <1>8, <3>4 DEF List, Set, TypeOK
      <3>6. WillBind(r, e)'
        BY <2>1, <2>3, <3>1, <3>3, <3>5 DEF WillBind, Call
      <3> QED
        BY <3>6
    <2> QED
      BY <2>2, <2>3
  <1>9. ASSUME NEW r \in Callers, Conflict(r) \/ Fault(r)
        PROVE  \E q \in Callers : WillBind(q, e)'
    <2>1. PICK q \in Callers : WillBind(q, e)
      BY <1>2, <1>9 DEF Conflict, Fault
    <2>2. q # r
      BY <1>9, <2>1 DEF WillBind, Conflict, Fault
    <2> QED
      BY <1>0, <1>1, <1>9, <2>1, <2>2 DEF Conflict, Fault, Set, TypeOK
  <1>10. CASE UNCHANGED vars
    BY <1>1, <1>2, <1>10 DEF vars
  <1> QED
    BY <1>3, <1>4, <1>5, <1>6, <1>7, <1>8, <1>9, <1>10 DEF Next

\* When both reconcilers have nothing left to do, the service account of every
\* namespace with an Egress is bound: whatever was overwritten from old lists, was
\* edited by hand, failed, or was stopped half way.
THEOREM AllBound == Spec => []QuietBound
  <1>1. Init => BindingInv
    <2> SUFFICES ASSUME Init PROVE BindingInv
      OBVIOUS
    <2>1. TypeOK
      BY BindingAssumption DEF Init, TypeOK
    <2>2. CacheFollows /\ LatestCopy /\ Covered
      BY DEF Init, CacheFollows, LatestCopy, Covered, Idle
    <2> QED
      BY <2>1, <2>2 DEF BindingInv
  <1>2. BindingInv /\ [Next]_vars => BindingInv'
    BY TypeInductive, FollowsInductive, CoveredInductive DEF BindingInv
  <1>3. BindingInv => QuietBound
    BY DEF BindingInv, QuietBound, Quiet, Covered, WillBind, Idle
  <1> QED
    BY <1>1, <1>2, <1>3, PTL DEF Spec
=============================================================================
