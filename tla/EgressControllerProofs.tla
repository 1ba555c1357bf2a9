----------------------- MODULE EgressControllerProofs -----------------------
(***************************************************************************)
(* Proof that every Egress has what it needs when the reconciler has come  *)
(* to rest, for any set of Egresses and specifications and any number of   *)
(* edits, failing calls and restarts.                                      *)
(***************************************************************************)
EXTENDS EgressController, TLAPS

\* A worker that is not idle works on an Egress.
LEMMA WorkerFields ==
    ASSUME TypeOK
    PROVE  /\ w # Idle => w \in Working
           /\ w.pc # "idle" <=> w # Idle
           /\ w.key \in E <=> w # Idle
  <1>1. CASE w = Idle
    BY <1>1, SpecAssumption DEF Idle
  <1>2. CASE w \in Working
    BY <1>2, SpecAssumption DEF Working, Idle, Kinds
  <1> QED
    BY <1>1, <1>2 DEF TypeOK

\* A new version of an Egress.
LEMMA WriteEgressStep ==
    ASSUME TypeOK, NEW e \in E, NEW obj \in AnEgress \cup {None}, WriteEgress(e, obj)
    PROVE  /\ egress' \in [E -> AnEgress \cup {None}]
           /\ stale' \subseteq (Kinds \cup {"Egress"}) \X E
           /\ <<"Egress", e>> \in stale'
           /\ \A f \in E \ {e} : egress'[f] = egress[f]
           /\ \A k \in Kinds \cup {"Egress"}, f \in E :
                 <<k, f>> \in stale' <=> <<k, f>> \in stale \/ (k = "Egress" /\ f = e)
  BY DEF TypeOK, WriteEgress

\* A new version of a child.
LEMMA WriteChildStep ==
    ASSUME TypeOK, NEW k \in Kinds, NEW e \in E, NEW obj \in AChild \cup {None},
           WriteChild(k, e, obj)
    PROVE  /\ child' \in [Kinds -> [E -> AChild \cup {None}]]
           /\ stale' \subseteq (Kinds \cup {"Egress"}) \X E
           /\ <<k, e>> \in stale'
           /\ \A l \in Kinds, f \in E : <<l, f>> # <<k, e>> => child'[l][f] = child[l][f]
           /\ \A l \in Kinds \cup {"Egress"}, f \in E :
                 <<l, f>> \in stale' <=> <<l, f>> \in stale \/ <<l, f>> = <<k, e>>
  BY DEF TypeOK, WriteChild

\* The worker goes on after somebody else's write.
LEMMA OutdateStep ==
    ASSUME TypeOK, NEW e \in E, Outdate(e)
    PROVE  /\ w' \in Working \cup {Idle}
           /\ w'.pc = w.pc /\ w'.key = w.key /\ w'.eg = w.eg
           /\ w' = Idle <=> w = Idle
  <1>1. CASE w = Idle
    BY <1>1, SpecAssumption DEF Outdate, Idle
  <1>2. CASE w \in Working
    <2>1. /\ w' \in Working
          /\ w'.pc = w.pc /\ w'.key = w.key /\ w'.eg = w.eg
      BY <1>2 DEF Outdate, Working
    <2>2. w # Idle /\ w' # Idle
      BY <1>2, <2>1 DEF Working, Idle, Kinds
    <2> QED
      BY <2>1, <2>2
  <1> QED
    BY <1>1, <1>2 DEF TypeOK

\* A step of the worker within a reconciliation.
LEMMA GotoStep ==
    ASSUME w \in Working, NEW pc \in {"sa", "status"} \cup Kinds, Goto(pc)
    PROVE  w' \in Working /\ w'.pc = pc /\ w'.key = w.key /\ w'.eg = w.eg /\ w' # Idle
  BY DEF Goto, Working, Idle, Kinds

\* What the worker writes.
LEMMA WorkerObjects ==
    ASSUME TypeOK, w \in Working
    PROVE  /\ New \in AChild
           /\ \A obj \in AChild : Mutated(obj) \in AChild
           /\ \A n \in {0, 1} : [w.eg EXCEPT !.status = n] \in AnEgress
  BY DEF New, Mutated, Optional, AChild, AnEgress, Working

\* Every variable keeps its type.
LEMMA TypeInductive ==
    ASSUME TypeOK, [Next]_vars
    PROVE  TypeOK'
  <1>1. ASSUME NEW e \in E, NEW s \in Specs, CreateEgress(e, s) \/ EditEgress(e, s)
        PROVE  TypeOK'
    <2>1. PICK obj \in AnEgress : WriteEgress(e, obj)
      <3>1. CASE CreateEgress(e, s)
        <4>1. [uid |-> edits, spec |-> s, status |-> Unset, term |-> FALSE] \in AnEgress
          BY DEF TypeOK, AnEgress
        <4> QED
          BY <3>1, <4>1 DEF CreateEgress
      <3>2. CASE EditEgress(e, s)
        <4>1. [egress[e] EXCEPT !.spec = s] \in AnEgress
          BY <3>2 DEF TypeOK, AnEgress, EditEgress
        <4> QED
          BY <3>2, <4>1 DEF EditEgress
      <3> QED
        BY <1>1, <3>1, <3>2
    <2>2. /\ Edit /\ Outdate(e) /\ UNCHANGED <<child, sa, saLost, cache, queue, faults>>
      BY <1>1 DEF CreateEgress, EditEgress
    <2>3. edits' \in 0..MaxEdits
      BY <2>2, SpecAssumption DEF Edit, TypeOK
    <2> QED
      BY <2>1, <2>2, <2>3, WriteEgressStep, OutdateStep DEF TypeOK
  <1>2. ASSUME NEW e \in E, DeleteEgress(e) \/ CollectEgress(e)
        PROVE  TypeOK'
    <2>1. PICK obj \in AnEgress \cup {None} : WriteEgress(e, obj)
      <3>1. egress[e] \in AnEgress /\ [egress[e] EXCEPT !.term = TRUE] \in AnEgress
        BY <1>2 DEF DeleteEgress, CollectEgress, TypeOK, AnEgress
      <3> QED
        BY <1>2, <3>1 DEF DeleteEgress, CollectEgress
    <2>2. Outdate(e) /\ UNCHANGED <<child, sa, saLost, cache, queue, faults>>
      BY <1>2 DEF DeleteEgress, CollectEgress
    <2>3. edits' \in 0..MaxEdits
      BY <1>2, SpecAssumption DEF DeleteEgress, CollectEgress, Edit, TypeOK
    <2> QED
      BY <2>1, <2>2, <2>3, WriteEgressStep, OutdateStep DEF TypeOK
  <1>3. ASSUME NEW e \in E, NEW k \in Kinds,
               EditChild(k, e) \/ CollectChild(k, e) \/ Vanish(k, e)
        PROVE  TypeOK'
    <2>1. PICK obj \in AChild \cup {None} : WriteChild(k, e, obj)
      <3>1. child[k][e] \in AChild
        BY <1>3 DEF EditChild, CollectChild, Vanish, TypeOK
      <3>2. /\ [child[k][e] EXCEPT !.main = Unset] \in AChild
            /\ [child[k][e] EXCEPT !.term = TRUE] \in AChild
        BY <3>1 DEF AChild
      <3> QED
        BY <1>3, <3>2 DEF EditChild, CollectChild, Vanish
    <2>2. UNCHANGED <<egress, sa, saLost, cache, queue, w, faults>>
      BY <1>3 DEF EditChild, CollectChild, Vanish
    <2>3. edits' \in 0..MaxEdits
      BY <1>3, SpecAssumption DEF EditChild, CollectChild, Vanish, Edit, TypeOK
    <2> QED
      BY <2>1, <2>2, <2>3, WriteChildStep DEF TypeOK
  <1>4. ASSUME NEW e \in E, Rollout(e)
        PROVE  TypeOK'
    <2>1. PICK obj \in AChild : WriteChild("Deployment", e, obj)
      BY <1>4 DEF Rollout, TypeOK, AChild, Kinds
    <2> QED
      BY <1>4, <2>1, WriteChildStep DEF Rollout, TypeOK, Kinds
  <1>5. ASSUME NEW n \in sa, DeleteServiceAccount(n)
        PROVE  TypeOK'
    BY <1>5, SpecAssumption DEF DeleteServiceAccount, Edit, TypeOK
  <1>6. CASE SyncEgress \/ SyncSA
    BY <1>6 DEF SyncEgress, SyncSA, TypeOK, objects, Enqueued, Changed
  <1>7. ASSUME NEW k \in Kinds, SyncChild(k)
        PROVE  TypeOK'
    BY <1>7 DEF SyncChild, TypeOK, objects, Enqueued, Changed
  <1>8. ASSUME NEW e \in E, Reconcile(e)
        PROVE  TypeOK'
    <2>1. w' \in Working \cup {Idle}
      BY <1>8 DEF Reconcile, Skip, TypeOK, Working, AnEgress
    <2> QED
      BY <1>8, <2>1 DEF Reconcile, TypeOK, objects
  <1>9. CASE reconcileServiceAccount
    <2>1. w \in Working
      BY <1>9, WorkerFields DEF reconcileServiceAccount
    <2>2. w' \in Working /\ UNCHANGED queue
      BY <1>9, <2>1, GotoStep DEF reconcileServiceAccount, Kinds, Goto
    <2>3. sa' \subseteq Nat
      <3>1. ns \in Nat
        BY <2>1, SpecAssumption DEF ns, Working
      <3> QED
        BY <1>9, <3>1 DEF reconcileServiceAccount, TypeOK
    <2> QED
      BY <1>9, <2>2, <2>3 DEF reconcileServiceAccount, TypeOK
  <1>10. ASSUME NEW k \in Kinds, Create(k) \/ Update(k)
         PROVE  TypeOK'
    <2>1. w \in Working /\ w.key \in E
      BY <1>10, WorkerFields DEF Create, Update, Kinds
    <2>2. w' \in Working /\ UNCHANGED queue
      BY <1>10, <2>1, GotoStep DEF Create, Update, After, Kinds, Goto
    <2>3. \/ UNCHANGED <<child, stale>>
          \/ \E obj \in AChild : WriteChild(k, w.key, obj)
      BY <1>10, <2>1, WorkerObjects DEF Create, Update, TypeOK
    <2> QED
      BY <1>10, <2>1, <2>2, <2>3, WriteChildStep DEF Create, Update, TypeOK
  <1>11. CASE updateStatus
    <2>1. w \in Working /\ w.key \in E
      BY <1>11, WorkerFields DEF updateStatus
    <2>2. \/ UNCHANGED <<egress, stale>>
          \/ \E obj \in AnEgress : WriteEgress(w.key, obj)
      <3>1. Deployment.avail \in {0, 1}
        <4>1. Deployment \in AChild
          BY <1>11, <2>1 DEF updateStatus, Deployment, TypeOK, Kinds
        <4> QED
          BY <4>1 DEF AChild
      <3> QED
        BY <1>11, <2>1, <3>1, WorkerObjects DEF updateStatus
    <2> QED
      BY <1>11, <2>1, <2>2, WriteEgressStep DEF updateStatus, Done, TypeOK
  <1>12. ASSUME \/ ServiceAccountExists \/ StatusFails \/ Fault
                \/ \E k \in Kinds : Refused(k)
         PROVE  TypeOK'
    <2>1. w.key \in E
      BY <1>12, WorkerFields DEF ServiceAccountExists, StatusFails, Fault, Refused, Kinds
    <2>2. Requeue /\ UNCHANGED <<egress, child, sa, saLost, cache, stale, edits>>
      BY <1>12 DEF ServiceAccountExists, StatusFails, Fault, Refused, objects
    <2>3. faults' \in 0..MaxFaults
      <3>1. faults' = faults \/ (faults < MaxFaults /\ faults' = faults + 1)
        BY <1>12 DEF ServiceAccountExists, StatusFails, Fault, Refused
      <3> QED
        BY <3>1, SpecAssumption DEF TypeOK
    <2> QED
      BY <2>1, <2>2, <2>3 DEF Requeue, TypeOK
  <1>13. CASE Restart
    BY <1>13, SpecAssumption DEF Restart, Listed, TypeOK
  <1>14. CASE UNCHANGED vars
    BY <1>14 DEF vars, objects, TypeOK
  <1> QED
    BY <1>1, <1>2, <1>3, <1>4, <1>5, <1>6, <1>7, <1>8, <1>9, <1>10, <1>11, <1>12, <1>13,
       <1>14 DEF Next, User, EgressWorker

-----------------------------------------------------------------------------
(***************************************************************************)
(* What a step may change.                                                 *)
(***************************************************************************)

\* Every write makes what was written pending, and only the worker ends what is
\* pending.
LEMMA StepKeeps ==
    ASSUME TypeOK, [Next]_vars, ~ Restart, NEW e \in E, ~ Pending(e)'
    PROVE  /\ egress'[e] = egress[e]
           /\ \A k \in Kinds : child'[k][e] = child[k][e]
           /\ Pending(e) => Reconcile(e)
  <1>0. e \notin queue' /\ \A k \in Kinds \cup {"Egress"} : <<k, e>> \notin stale'
    BY DEF Pending
  <1>1. ASSUME NEW f \in E, NEW obj, WriteEgress(f, obj), UNCHANGED <<child, queue>>
        PROVE  egress'[e] = egress[e] /\ UNCHANGED child /\ ~ Pending(e)
    <2>1. f # e /\ stale \subseteq stale' /\ egress'[e] = egress[e]
      BY <1>0, <1>1 DEF WriteEgress, TypeOK
    <2> QED
      BY <1>0, <1>1, <2>1 DEF Pending
  <1>2. ASSUME NEW k \in Kinds, NEW f \in E, NEW obj, WriteChild(k, f, obj),
               UNCHANGED <<egress, queue>>
        PROVE  /\ UNCHANGED egress
               /\ \A l \in Kinds : child'[l][e] = child[l][e]
               /\ ~ Pending(e)
    <2>1. f # e /\ stale \subseteq stale'
      BY <1>0, <1>2 DEF WriteChild
    <2>2. \A l \in Kinds : child'[l][e] = child[l][e]
      BY <1>2, <2>1 DEF WriteChild, TypeOK
    <2> QED
      BY <1>0, <1>2, <2>1, <2>2 DEF Pending
  <1>3. ASSUME NEW f \in E,
               \/ \E s \in Specs : CreateEgress(f, s) \/ EditEgress(f, s)
               \/ DeleteEgress(f) \/ CollectEgress(f)
        PROVE  egress'[e] = egress[e] /\ UNCHANGED child /\ ~ Pending(e)
    <2>1. PICK obj : WriteEgress(f, obj)
      BY <1>3 DEF CreateEgress, EditEgress, DeleteEgress, CollectEgress
    <2> QED
      BY <1>1, <1>3, <2>1 DEF CreateEgress, EditEgress, DeleteEgress, CollectEgress
  <1>4. ASSUME NEW k \in Kinds, NEW f \in E,
               EditChild(k, f) \/ CollectChild(k, f) \/ Vanish(k, f)
        PROVE  /\ UNCHANGED egress
               /\ \A l \in Kinds : child'[l][e] = child[l][e]
               /\ ~ Pending(e)
    <2>1. PICK obj : WriteChild(k, f, obj)
      BY <1>4 DEF EditChild, CollectChild, Vanish
    <2> QED
      BY <1>2, <1>4, <2>1 DEF EditChild, CollectChild, Vanish
  <1>5. ASSUME NEW f \in E, Rollout(f)
        PROVE  /\ UNCHANGED egress
               /\ \A l \in Kinds : child'[l][e] = child[l][e]
               /\ ~ Pending(e)
    BY <1>2, <1>5 DEF Rollout, Kinds
  <1>6. ASSUME \/ \E n \in sa : DeleteServiceAccount(n)
               \/ SyncSA \/ reconcileServiceAccount
               \/ UNCHANGED vars
        PROVE  UNCHANGED <<egress, child>> /\ ~ Pending(e)
    BY <1>0, <1>6 DEF DeleteServiceAccount, SyncSA, reconcileServiceAccount, Goto, vars,
                      objects, Pending
  <1>7. CASE SyncEgress \/ \E k \in Kinds : SyncChild(k)
    BY <1>0, <1>7 DEF SyncEgress, SyncChild, Enqueued, Changed, objects, Pending, TypeOK, Kinds
  <1>8. ASSUME NEW f \in E, Reconcile(f)
        PROVE  UNCHANGED <<egress, child>> /\ (Pending(e) => Reconcile(e))
    BY <1>0, <1>8 DEF Reconcile, objects, Pending
  <1>9. ASSUME NEW k \in Kinds, Create(k) \/ Update(k)
        PROVE  /\ UNCHANGED egress
               /\ \A l \in Kinds : child'[l][e] = child[l][e]
               /\ ~ Pending(e)
    <2>1. w.key \in E /\ UNCHANGED <<egress, queue>>
      BY <1>9, WorkerFields DEF Create, Update, Goto, Kinds
    <2>2. CASE UNCHANGED <<child, stale>>
      BY <1>0, <2>1, <2>2 DEF Pending
    <2>3. ASSUME NEW obj, WriteChild(k, w.key, obj)
          PROVE  (\A l \in Kinds : child'[l][e] = child[l][e]) /\ ~ Pending(e)
      BY <1>2, <2>1, <2>3
    <2> QED
      BY <1>9, <2>1, <2>2, <2>3 DEF Create, Update
  <1>10. CASE updateStatus
    <2>1. w.key \in E /\ UNCHANGED <<child, queue>>
      BY <1>10, WorkerFields DEF updateStatus, Done
    <2>2. CASE UNCHANGED <<egress, stale>>
      BY <1>0, <2>1, <2>2 DEF Pending
    <2>3. ASSUME NEW obj, WriteEgress(w.key, obj)
          PROVE  egress'[e] = egress[e] /\ ~ Pending(e)
      BY <1>1, <2>1, <2>3
    <2> QED
      BY <1>10, <2>1, <2>2, <2>3 DEF updateStatus
  <1>11. ASSUME \/ ServiceAccountExists \/ StatusFails \/ Fault
                \/ \E k \in Kinds : Refused(k)
         PROVE  UNCHANGED <<egress, child>> /\ ~ Pending(e)
    <2>1. Requeue /\ UNCHANGED <<egress, child, stale>>
      BY <1>11 DEF ServiceAccountExists, StatusFails, Fault, Refused, objects
    <2> QED
      BY <1>0, <2>1 DEF Requeue, Pending
  <1> QED
    BY <1>3, <1>4, <1>5, <1>6, <1>7, <1>8, <1>9, <1>10, <1>11
       DEF Next, User, EgressWorker

\* A service account that was there is there, or was deleted under this leader.
LEMMA AccountsKept ==
    ASSUME [Next]_vars, ~ Restart
    PROVE  sa \cup saLost \subseteq sa' \cup saLost'
  <1>1. ASSUME NEW e \in E,
               \/ \E s \in Specs : CreateEgress(e, s) \/ EditEgress(e, s)
               \/ DeleteEgress(e) \/ CollectEgress(e) \/ Rollout(e) \/ Reconcile(e)
               \/ \E k \in Kinds : EditChild(k, e) \/ CollectChild(k, e) \/ Vanish(k, e)
        PROVE  UNCHANGED <<sa, saLost>>
    BY <1>1 DEF CreateEgress, EditEgress, DeleteEgress, CollectEgress, Rollout, EditChild,
                CollectChild, Vanish, Reconcile, objects
  <1>2. ASSUME \/ SyncEgress \/ SyncSA \/ ServiceAccountExists \/ updateStatus
               \/ StatusFails \/ Fault \/ UNCHANGED vars
               \/ \E k \in Kinds : SyncChild(k) \/ Create(k) \/ Update(k) \/ Refused(k)
        PROVE  UNCHANGED <<sa, saLost>>
    BY <1>2 DEF SyncEgress, SyncSA, SyncChild, ServiceAccountExists, updateStatus,
                StatusFails, Fault, Create, Update, Refused, vars, objects
  <1>3. ASSUME NEW n \in sa, DeleteServiceAccount(n)
        PROVE  sa \cup saLost \subseteq sa' \cup saLost'
    BY <1>3 DEF DeleteServiceAccount
  <1>4. CASE reconcileServiceAccount
    BY <1>4 DEF reconcileServiceAccount
  <1> QED
    BY <1>1, <1>2, <1>3, <1>4 DEF Next, User, EgressWorker

\* The caches follow.
LEMMA CacheInductive ==
    ASSUME TypeOK, CacheFollows, [Next]_vars
    PROVE  CacheFollows'
  <1>0. ~ Restart => sa \cup saLost \subseteq sa' \cup saLost'
    BY AccountsKept
  <1>1. ASSUME NEW e \in E, NEW obj, WriteEgress(e, obj), UNCHANGED <<child, cache>>,
               ~ Restart
        PROVE  CacheFollows'
    BY <1>0, <1>1 DEF WriteEgress, CacheFollows, TypeOK, Kinds
  <1>2. ASSUME NEW k \in Kinds, NEW e \in E, NEW obj, WriteChild(k, e, obj),
               UNCHANGED <<egress, cache>>, ~ Restart
        PROVE  CacheFollows'
    <2>1. \A l \in Kinds, f \in E : <<l, f>> \notin stale' =>
              <<l, f>> \notin stale /\ child'[l][f] = child[l][f]
      BY <1>2 DEF WriteChild, TypeOK
    <2>2. stale \subseteq stale'
      BY <1>2 DEF WriteChild
    <2> QED
      BY <1>0, <1>2, <2>1, <2>2 DEF CacheFollows
  <1>3. ASSUME UNCHANGED <<egress, child, cache, stale>>, ~ Restart
        PROVE  CacheFollows'
    BY <1>0, <1>3 DEF CacheFollows
  <1>4. ASSUME NEW e \in E,
               \/ \E s \in Specs : CreateEgress(e, s) \/ EditEgress(e, s)
               \/ DeleteEgress(e) \/ CollectEgress(e),
               ~ Restart
        PROVE  CacheFollows'
    <2>1. PICK obj : WriteEgress(e, obj)
      BY <1>4 DEF CreateEgress, EditEgress, DeleteEgress, CollectEgress
    <2> QED
      BY <1>1, <1>4, <2>1 DEF CreateEgress, EditEgress, DeleteEgress, CollectEgress
  <1>5. ASSUME NEW k \in Kinds, NEW e \in E,
               EditChild(k, e) \/ CollectChild(k, e) \/ Vanish(k, e), ~ Restart
        PROVE  CacheFollows'
    <2>1. PICK obj : WriteChild(k, e, obj)
      BY <1>5 DEF EditChild, CollectChild, Vanish
    <2> QED
      BY <1>2, <1>5, <2>1 DEF EditChild, CollectChild, Vanish
  <1>6. ASSUME NEW e \in E, Rollout(e), ~ Restart
        PROVE  CacheFollows'
    BY <1>2, <1>6 DEF Rollout, Kinds
  <1>7. ASSUME \/ \E n \in sa : DeleteServiceAccount(n)
               \/ reconcileServiceAccount \/ \E e \in E : Reconcile(e)
               \/ ServiceAccountExists \/ StatusFails \/ Fault
               \/ \E k \in Kinds : Refused(k)
               \/ UNCHANGED vars,
               ~ Restart
        PROVE  CacheFollows'
    BY <1>3, <1>7 DEF DeleteServiceAccount, reconcileServiceAccount, Reconcile,
           ServiceAccountExists, StatusFails, Fault, Refused, vars, objects
  <1>8. CASE SyncEgress
    <2>1. /\ cache'.egress = egress /\ cache'.child = cache.child /\ cache'.sa = cache.sa
          /\ \A k \in Kinds, e \in E : <<k, e>> \in stale => <<k, e>> \in stale'
      BY <1>8 DEF SyncEgress, TypeOK, Kinds
    <2> QED
      BY <1>8, <2>1 DEF SyncEgress, CacheFollows, objects
  <1>9. ASSUME NEW k \in Kinds, SyncChild(k)
        PROVE  CacheFollows'
    <2>1. /\ cache'.egress = cache.egress /\ cache'.sa = cache.sa
          /\ cache'.child[k] = child[k]
          /\ \A l \in Kinds \ {k} : cache'.child[l] = cache.child[l]
          /\ \A l \in (Kinds \cup {"Egress"}) \ {k}, e \in E :
                <<l, e>> \in stale => <<l, e>> \in stale'
      BY <1>9 DEF SyncChild, TypeOK
    <2> QED
      BY <1>9, <2>1 DEF SyncChild, CacheFollows, objects, Kinds
  <1>10. CASE SyncSA
    <2>1. cache'.egress = cache.egress /\ cache'.child = cache.child /\ cache'.sa = sa
      BY <1>10 DEF SyncSA, TypeOK
    <2> QED
      BY <1>10, <2>1 DEF SyncSA, CacheFollows, objects
  <1>11. ASSUME NEW k \in Kinds, Create(k) \/ Update(k), ~ Restart
         PROVE  CacheFollows'
    <2>1. w.key \in E /\ UNCHANGED <<egress, cache>>
      BY <1>11, WorkerFields DEF Create, Update, Kinds
    <2>2. UNCHANGED <<child, stale>> \/ \E obj : WriteChild(k, w.key, obj)
      BY <1>11 DEF Create, Update
    <2> QED
      BY <1>2, <1>3, <1>11, <2>1, <2>2
  <1>12. CASE updateStatus /\ ~ Restart
    <2>1. w.key \in E /\ UNCHANGED <<child, cache>>
      BY <1>12, WorkerFields DEF updateStatus
    <2>2. UNCHANGED <<egress, stale>> \/ \E obj : WriteEgress(w.key, obj)
      BY <1>12 DEF updateStatus
    <2> QED
      BY <1>1, <1>3, <1>12, <2>1, <2>2
  <1>13. CASE Restart
    BY <1>13 DEF Restart, CacheFollows
  <1> QED
    BY <1>4, <1>5, <1>6, <1>7, <1>8, <1>9, <1>10, <1>11, <1>12, <1>13
       DEF Next, User, EgressWorker

-----------------------------------------------------------------------------
(***************************************************************************)
(* The invariant.                                                          *)
(***************************************************************************)

\* A child that nobody wrote is asked for as before.
LEMMA AskedKept ==
    ASSUME NEW e \in E, NEW k \in Kinds, egress'[e] = egress[e], child'[k][e] = child[k][e]
    PROVE  ChildAsked(k, e)' <=> ChildAsked(k, e)
  BY DEF ChildAsked

\* An Update that is not made leaves a child that is as the worker's copy asks for.
LEMMA MutatedSame ==
    ASSUME w \in Working, NEW obj \in AChild, Mutated(obj) = obj, ~ obj.term
    PROVE  /\ obj.main = w.eg.spec.main
           /\ w.eg.spec.opt # Unset => obj.opt = w.eg.spec.opt
  <1>1. obj = [obj EXCEPT !.main = w.eg.spec.main, !.opt = Optional(obj.opt)]
    BY DEF Mutated
  <1>2. obj.main = w.eg.spec.main /\ obj.opt = Optional(obj.opt)
    BY <1>1 DEF AChild
  <1> QED
    BY <1>2 DEF Optional

\* What the worker has done stays done, or will be done again.
LEMMA WorkInductive ==
    ASSUME ControllerInv, [Next]_vars
    PROVE  WorkDone'
  <1>0. TypeOK /\ TypeOK' /\ CacheFollows /\ CacheFollows' /\ WorkDone
    BY TypeInductive, CacheInductive DEF ControllerInv
  <1>a. CASE w' = Idle
    BY <1>a DEF WorkDone
  <1>b. ASSUME NEW e \in E, w'.key = e,
               w'.pc # "sa" => NS[e] \in sa' \cup saLost',
               ~ Pending(e)' =>
                   /\ w'.eg = egress'[e]
                   /\ w'.pc \in {"Service", "status"} => ChildAsked("Deployment", e)'
                   /\ w'.pc = "status" => ChildAsked("Service", e)'
        PROVE  WorkDone'
    BY <1>b DEF WorkDone, Pending, ChildAsked
  <1>c. ASSUME NEW e \in E, w.key = e, ~ Restart
        PROVE  /\ w.pc # "sa" => NS[e] \in sa' \cup saLost'
               /\ ~ Pending(e)' =>
                     /\ w.eg = egress[e]
                     /\ egress'[e] = egress[e]
                     /\ \A k \in Kinds : child'[k][e] = child[k][e]
                     /\ w.pc \in {"Service", "status"} => ChildAsked("Deployment", e)'
                     /\ w.pc = "status" => ChildAsked("Service", e)'
    <2>1. w # Idle
      BY <1>0, <1>c, WorkerFields
    <2>2. w.pc # "sa" => NS[e] \in sa' \cup saLost'
      BY <1>0, <1>c, <2>1, AccountsKept DEF WorkDone
    <2>3. ASSUME ~ Pending(e)'
          PROVE  /\ egress'[e] = egress[e] /\ ~ Pending(e)
                 /\ \A k \in Kinds : child'[k][e] = child[k][e]
      BY <1>0, <1>c, <2>1, <2>3, StepKeeps DEF Reconcile
    <2>4. ASSUME ~ Pending(e)', NEW k \in Kinds, ChildAsked(k, e)
          PROVE  ChildAsked(k, e)'
      BY <2>3, <2>4, AskedKept
    <2>5. ~ Pending(e) =>
              /\ w.eg = egress[e]
              /\ w.pc \in {"Service", "status"} => ChildAsked("Deployment", e)
              /\ w.pc = "status" => ChildAsked("Service", e)
      BY <1>0, <1>c, <2>1 DEF WorkDone
    <2> QED
      BY <2>2, <2>3, <2>4, <2>5 DEF Kinds
  <1>1. ASSUME w'.pc = w.pc, w'.key = w.key, w'.eg = w.eg, w' = Idle <=> w = Idle, ~ Restart
        PROVE  WorkDone'
    <2>1. CASE w = Idle
      BY <1>1, <2>1 DEF WorkDone
    <2>2. CASE w # Idle
      <3>1. PICK e \in E : w.key = e
        BY <1>0, <2>2, WorkerFields
      <3> QED
        BY <1>1, <1>b, <1>c, <3>1
    <2> QED
      BY <2>1, <2>2
  <1>2. ASSUME NEW e \in E,
               \/ \E s \in Specs : CreateEgress(e, s) \/ EditEgress(e, s)
               \/ DeleteEgress(e) \/ CollectEgress(e),
               ~ Restart
        PROVE  WorkDone'
    <2>1. Outdate(e)
      BY <1>2 DEF CreateEgress, EditEgress, DeleteEgress, CollectEgress
    <2> QED
      BY <1>0, <1>1, <1>2, <2>1, OutdateStep
  <1>3. ASSUME \/ \E e \in E, k \in Kinds :
                     EditChild(k, e) \/ CollectChild(k, e) \/ Vanish(k, e)
               \/ \E e \in E : Rollout(e)
               \/ \E n \in sa : DeleteServiceAccount(n)
               \/ SyncEgress \/ SyncSA \/ \E k \in Kinds : SyncChild(k)
               \/ UNCHANGED vars,
               ~ Restart
        PROVE  WorkDone'
    <2>1. UNCHANGED w
      BY <1>3 DEF EditChild, CollectChild, Vanish, Rollout, DeleteServiceAccount, SyncEgress,
                  SyncSA, SyncChild, vars
    <2> QED
      BY <1>1, <1>3, <2>1
  <1>4. ASSUME NEW e \in E, Reconcile(e)
        PROVE  WorkDone'
    <2>1. CASE Skip(e)
      BY <1>a, <1>4, <2>1 DEF Reconcile
    <2>2. CASE ~ Skip(e)
      <3>1. w'.pc = "sa" /\ w'.key = e /\ w'.eg = cache.egress[e]
        BY <1>4, <2>2 DEF Reconcile
      <3>2. ~ Pending(e)' => w'.eg = egress'[e]
        BY <1>0, <1>4, <3>1 DEF Reconcile, Pending, CacheFollows, objects
      <3> QED
        BY <1>b, <3>1, <3>2
    <2> QED
      BY <2>1, <2>2
  <1>5. ASSUME reconcileServiceAccount, ~ Restart
        PROVE  WorkDone'
    <2>1. w \in Working /\ w.pc = "sa"
      BY <1>0, <1>5, WorkerFields DEF reconcileServiceAccount
    <2>2. PICK e \in E : w.key = e
      BY <2>1 DEF Working
    <2>3. w'.pc = "Deployment" /\ w'.key = e /\ w'.eg = w.eg
      BY <1>5, <2>1, <2>2, GotoStep DEF reconcileServiceAccount, Kinds
    <2>4. NS[e] \in sa' \cup saLost'
      BY <1>0, <1>5, <2>2 DEF reconcileServiceAccount, ns, CacheFollows
    <2> QED
      BY <1>5, <1>b, <1>c, <2>2, <2>3, <2>4
  <1>6. ASSUME NEW k \in Kinds, Create(k) \/ Update(k), ~ Restart
        PROVE  WorkDone'
    <2>1. w \in Working /\ w.pc = k
      BY <1>0, <1>6, WorkerFields DEF Create, Update, Kinds
    <2>2. PICK e \in E : w.key = e
      BY <2>1 DEF Working
    <2>3. w'.pc = After(k) /\ w'.key = e /\ w'.eg = w.eg
      BY <1>6, <2>1, <2>2, GotoStep DEF Create, Update, After, Kinds
    <2>4. ASSUME ~ Pending(e)'
          PROVE  ChildAsked(k, e)'
      <3>1. /\ w.eg = egress[e] /\ egress'[e] = egress[e]
            /\ child'[k][e] = child[k][e]
        BY <1>6, <1>c, <2>2, <2>4
      <3>2. <<k, e>> \notin stale'
        BY <2>4 DEF Pending
      <3>3. Update(k) /\ Mutated(cache.child[k][e]) = cache.child[k][e] /\ UNCHANGED stale
        BY <1>6, <2>2, <3>2 DEF Create, Update, WriteChild
      <3>4. cache.child[k][e] = child[k][e] /\ child[k][e] # None
        BY <1>0, <2>2, <3>2, <3>3 DEF CacheFollows, Update
      <3>5. child[k][e] \in AChild
        BY <1>0, <3>4 DEF TypeOK
      <3>6. ChildAsked(k, e)
        BY <2>1, <3>1, <3>3, <3>4, <3>5, MutatedSame DEF ChildAsked
      <3> QED
        BY <3>1, <3>6, AskedKept
    <2> QED
      BY <1>6, <1>b, <1>c, <2>1, <2>2, <2>3, <2>4 DEF After, Kinds
  <1>7. ASSUME \/ ServiceAccountExists \/ updateStatus \/ StatusFails \/ Fault
               \/ \E k \in Kinds : Refused(k)
               \/ Restart
        PROVE  WorkDone'
    BY <1>a, <1>7 DEF ServiceAccountExists, updateStatus, StatusFails, Fault, Refused, Requeue,
                      Done, Restart
  <1> QED
    BY <1>2, <1>3, <1>4, <1>5, <1>6, <1>7 DEF Next, User, EgressWorker

\* Only a reconciliation that has come to its end is not followed by another.
LEMMA RestInductive ==
    ASSUME ControllerInv, [Next]_vars
    PROVE  RestDone'
  <1>0. TypeOK /\ CacheFollows /\ CacheFollows' /\ WorkDone /\ RestDone
    BY TypeInductive, CacheInductive DEF ControllerInv
  <1> SUFFICES ASSUME NEW e \in E, w'.key # e, ~ Pending(e)', egress'[e] # None,
                      ~ egress'[e].term
               PROVE  Reconciled(e)'
    BY DEF RestDone
  <1>1. ~ Restart
    BY DEF Restart, Listed, Pending
  <1>2. /\ egress'[e] = egress[e]
        /\ \A k \in Kinds : child'[k][e] = child[k][e]
        /\ Pending(e) => Reconcile(e)
    BY <1>0, <1>1, StepKeeps
  <1>3. ASSUME Reconciled(e)
        PROVE  Reconciled(e)'
    <2>1. \A k \in Kinds : ChildAsked(k, e)'
      BY <1>2, <1>3, AskedKept DEF Reconciled
    <2> QED
      BY <1>1, <1>2, <1>3, <2>1, AccountsKept DEF Reconciled, Kinds
  <1>4. ~ Reconcile(e)
    <2> SUFFICES ASSUME Reconcile(e) PROVE FALSE
      OBVIOUS
    <2>1. cache.egress[e] = egress[e]
      BY <1>0 DEF Reconcile, Pending, CacheFollows
    <2> QED
      BY <1>2, <2>1 DEF Reconcile, Skip
  <1>5. CASE w.key # e
    BY <1>0, <1>2, <1>3, <1>4, <1>5 DEF RestDone
  <1>6. CASE w.key = e
    <2>1. w # Idle /\ w \in Working
      BY <1>0, <1>6, WorkerFields
    <2>2. updateStatus
      <3>1. ASSUME NEW f \in E, Outdate(f)
            PROVE  FALSE
        BY <1>0, <1>6, <3>1, OutdateStep
      <3>2. ASSUME NEW pc \in {"sa", "status"} \cup Kinds, Goto(pc)
            PROVE  FALSE
        BY <1>6, <2>1, <3>2, GotoStep
      <3>3. ~ UNCHANGED w
        BY <1>6
      <3>4. ~ Requeue
        BY <1>6 DEF Requeue, Pending
      <3>5. ASSUME NEW f \in E,
                   \/ \E s \in Specs : CreateEgress(f, s) \/ EditEgress(f, s)
                   \/ DeleteEgress(f) \/ CollectEgress(f)
            PROVE  FALSE
        BY <3>1, <3>5 DEF CreateEgress, EditEgress, DeleteEgress, CollectEgress
      <3>6. ASSUME \/ \E f \in E, k \in Kinds :
                         EditChild(k, f) \/ CollectChild(k, f) \/ Vanish(k, f)
                   \/ \E f \in E : Rollout(f)
                   \/ \E n \in sa : DeleteServiceAccount(n)
                   \/ SyncEgress \/ SyncSA \/ \E k \in Kinds : SyncChild(k)
                   \/ UNCHANGED vars
            PROVE  FALSE
        BY <3>3, <3>6 DEF EditChild, CollectChild, Vanish, Rollout, DeleteServiceAccount,
               SyncEgress, SyncSA, SyncChild, vars
      <3>7. ASSUME \/ reconcileServiceAccount
                   \/ \E k \in Kinds : Create(k) \/ Update(k)
            PROVE  FALSE
        BY <3>2, <3>7 DEF reconcileServiceAccount, Create, Update, After, Kinds
      <3>8. ASSUME \/ ServiceAccountExists \/ StatusFails \/ Fault
                   \/ \E k \in Kinds : Refused(k)
            PROVE  FALSE
        BY <3>4, <3>8 DEF ServiceAccountExists, StatusFails, Fault, Refused
      <3>9. ASSUME NEW f \in E, Reconcile(f)
            PROVE  FALSE
        BY <2>1, <3>9 DEF Reconcile
      <3> QED
        BY <1>1, <3>5, <3>6, <3>7, <3>8, <3>9 DEF Next, User, EgressWorker
    <2>3. ~ Pending(e)
      BY <1>2, <1>4
    <2>4. w.pc = "status" /\ w.eg = egress[e] /\ NS[e] \in sa \cup saLost
      BY <1>0, <1>6, <2>1, <2>2, <2>3 DEF WorkDone, updateStatus
    <2>5. \A k \in Kinds : ChildAsked(k, e)
      BY <1>0, <1>6, <2>1, <2>3, <2>4 DEF WorkDone, Kinds
    <2>6. cache.child["Deployment"][e] = child["Deployment"][e]
      BY <1>0, <2>3 DEF CacheFollows, Pending, Kinds
    <2>7. egress[e].status = child["Deployment"][e].avail
      <3>1. <<"Egress", e>> \notin stale'
        BY DEF Pending
      <3>2. w.eg.status = Deployment.avail
        BY <1>6, <2>2, <3>1 DEF updateStatus, WriteEgress
      <3> QED
        BY <1>6, <2>4, <2>6, <3>2 DEF Deployment
    <2> QED
      BY <1>3, <2>4, <2>5, <2>7 DEF Reconciled
  <1> QED
    BY <1>5, <1>6

\* When the reconciler has nothing left to do, every Egress has its Deployment and
\* its Service as specified, its service account and its status: whatever was
\* edited, deleted, collected or created again meanwhile, whichever calls failed,
\* and wherever former leaders were stopped.
THEOREM EgressesServed == Spec => []QuietServed
  <1>1. Init => ControllerInv
    <2> SUFFICES ASSUME Init PROVE ControllerInv
      OBVIOUS
    <2>1. TypeOK
      BY SpecAssumption DEF Init, TypeOK, Nothing
    <2>2. CacheFollows /\ WorkDone
      BY DEF Init, CacheFollows, WorkDone
    <2>3. RestDone
      BY DEF Init, RestDone, Nothing
    <2> QED
      BY <2>1, <2>2, <2>3 DEF ControllerInv
  <1>2. ControllerInv /\ [Next]_vars => ControllerInv'
    BY TypeInductive, CacheInductive, WorkInductive, RestInductive DEF ControllerInv
  <1>3. ControllerInv => QuietServed
    <2> SUFFICES ASSUME ControllerInv, Quiet, NEW e \in E, egress[e] # None
                 PROVE  Served(e)
      BY DEF QuietServed
    <2>1. Reconciled(e)
      BY WorkerFields DEF ControllerInv, RestDone, Quiet, Pending
    <2>2. \A k \in Kinds : Owned(k, e) /\ ~ child[k][e].term
      BY <2>1 DEF Quiet, Reconciled, ChildAsked
    <2> QED
      BY <2>1, <2>2 DEF Served, Reconciled, ChildAsked
  <1> QED
    BY <1>1, <1>2, <1>3, PTL DEF Spec
=============================================================================
