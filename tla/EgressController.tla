-------------------------- MODULE EgressController --------------------------
(***************************************************************************)
(* EgressReconciler of controllers/egress_controller.go: it keeps, for     *)
(* every Egress, a Deployment and a Service, the service account of its    *)
(* namespace, and the status.                                              *)
(*                                                                         *)
(* One worker takes requests from a queue.  It reads objects from caches,  *)
(* which lag behind the API server, and writes to the API server, which    *)
(* refuses an update of anything but the latest version of an object.  An  *)
(* error puts the request back into the queue.                             *)
(*                                                                         *)
(* Users create, edit and delete Egresses, which the webhook of            *)
(* api/v1beta1 validates, and edit and delete what the reconciler made;    *)
(* the garbage collector removes the objects whose owner is gone.  The     *)
(* process may be killed at any step, and another one becomes the leader.  *)
(* The step reconcileCRB is the subject of module RoleBinding.             *)
(***************************************************************************)
EXTENDS Naturals

CONSTANTS
    E,          \* names of Egresses
    NS,         \* [E -> Nat]: the namespace of an Egress
    Specs,      \* records [main, opt]: what the children are made from
    Unset,      \* no optional part
    Invalid,    \* an optional part that the webhook refuses
    Unfit,      \* [Kinds -> optional parts]: those that the API server refuses in
                \* an object of this kind
    None,       \* no object
    MaxEdits,   \* how many edits users make
    MaxFaults   \* how often a call fails or the process is killed

Kinds == {"Deployment", "Service"}

ASSUME SpecAssumption ==
    /\ None \notin E
    /\ NS \in [E -> Nat]
    /\ Invalid \in Unfit["Deployment"]
    /\ MaxEdits \in Nat /\ MaxFaults \in Nat

VARIABLES
    egress,    \* E -> None or [uid, spec, status, term]; term: it has a
               \* deletion timestamp
    child,     \* Kinds -> E -> None or [owner, main, opt, term, avail]; owner:
               \* the uid in its owner reference
    sa,        \* the namespaces with a service account egress
    cache,     \* the caches of these objects
    stale,     \* the objects with a newer version than that in the cache
    queue,     \* the requests
    saLost,    \* namespaces whose service account was deleted since the process
               \* started
    w,         \* the worker: where it is, with which request and which copy of the
               \* Egress; latest: the copy is the latest version
    edits,
    faults

objects == <<egress, child, sa, saLost>>
vars    == <<objects, cache, stale, queue, w, edits, faults>>

Idle == [pc |-> "idle", key |-> None, eg |-> None, latest |-> FALSE]

Nothing == [e \in E |-> None]

Init ==
    /\ egress = Nothing
    /\ child = [k \in Kinds |-> Nothing]
    /\ sa = {}
    /\ saLost = {}
    /\ cache = [egress |-> egress, child |-> child, sa |-> sa]
    /\ stale = {}
    /\ queue = {}
    /\ w = Idle
    /\ edits = 0
    /\ faults = 0

-----------------------------------------------------------------------------
\* The API server.

\* A write makes a new version: the copy in the cache and the copy that the
\* worker holds are not the latest any more.
WriteEgress(e, obj) ==
    /\ egress' = [egress EXCEPT ![e] = obj]
    /\ stale' = stale \cup {<<"Egress", e>>}

WriteChild(k, e, obj) ==
    /\ child' = [child EXCEPT ![k][e] = obj]
    /\ stale' = stale \cup {<<k, e>>}

Outdate(e) == w' = IF w.key = e THEN [w EXCEPT !.latest = FALSE] ELSE w

-----------------------------------------------------------------------------
\* Users.

Edit == edits < MaxEdits /\ edits' = edits + 1

\* Mutant: the optional part is not looked at.
validateNothing(s) == TRUE

\* EgressSpec.validate, as far as the strategy and the template go (module
\* ClientSetup has the destinations): it looks at the strategy's type and at the
\* syntax of labels and annotations, and lets everything else through.  It also
\* begins validateUpdate.
validate(s) == s.opt # Invalid

CreateEgress(e, s) ==
    /\ Edit
    /\ validate(s)
    /\ egress[e] = None
    /\ WriteEgress(e, [uid |-> edits, spec |-> s, status |-> Unset, term |-> FALSE])
    /\ Outdate(e)
    /\ UNCHANGED <<child, sa, saLost, cache, queue, faults>>

EditEgress(e, s) ==
    /\ Edit
    /\ validate(s)
    /\ egress[e] # None
    /\ egress[e].spec # s
    /\ WriteEgress(e, [egress[e] EXCEPT !.spec = s])
    /\ Outdate(e)
    /\ UNCHANGED <<child, sa, saLost, cache, queue, faults>>

\* The children are deleted after the Egress, in the background, or before it.
DeleteEgress(e) ==
    /\ Edit
    /\ egress[e] # None
    /\ ~ egress[e].term
    /\ WriteEgress(e, None) \/ WriteEgress(e, [egress[e] EXCEPT !.term = TRUE])
    /\ Outdate(e)
    /\ UNCHANGED <<child, sa, saLost, cache, queue, faults>>

EditChild(k, e) ==
    /\ Edit
    /\ child[k][e] # None
    /\ \/ WriteChild(k, e, [child[k][e] EXCEPT !.main = Unset])
       \/ ~ child[k][e].term /\ WriteChild(k, e, [child[k][e] EXCEPT !.term = TRUE])
    /\ UNCHANGED <<egress, sa, saLost, cache, queue, w, faults>>

DeleteServiceAccount(n) ==
    /\ Edit
    /\ n \in sa
    /\ sa' = sa \ {n}
    /\ saLost' = saLost \cup {n}
    /\ UNCHANGED <<egress, child, cache, stale, queue, w, faults>>

-----------------------------------------------------------------------------
\* The rest of the cluster.

\* The Egress that a child belongs to is there.
Owned(k, e) == egress[e] # None /\ child[k][e] # None /\ child[k][e].owner = egress[e].uid

\* The garbage collector removes a child whose owner is gone or waits for its
\* children, and an Egress that has waited for them.
CollectChild(k, e) ==
    /\ child[k][e] # None
    /\ Owned(k, e) => egress[e].term
    /\ WriteChild(k, e, None)
    /\ UNCHANGED <<egress, sa, saLost, cache, queue, w, edits, faults>>

CollectEgress(e) ==
    /\ egress[e] # None
    /\ egress[e].term
    /\ \A k \in Kinds : ~ Owned(k, e)
    /\ WriteEgress(e, None)
    /\ Outdate(e)
    /\ UNCHANGED <<child, sa, saLost, cache, queue, edits, faults>>

\* A child that was deleted is gone when its own dependents are.
Vanish(k, e) ==
    /\ child[k][e] # None
    /\ child[k][e].term
    /\ WriteChild(k, e, None)
    /\ UNCHANGED <<egress, sa, saLost, cache, queue, w, edits, faults>>

\* The pods of the Deployment become available.
Rollout(e) ==
    /\ child["Deployment"][e] # None
    /\ child["Deployment"][e].avail = 0
    /\ WriteChild("Deployment", e, [child["Deployment"][e] EXCEPT !.avail = 1])
    /\ UNCHANGED <<egress, sa, saLost, cache, queue, w, edits, faults>>

Collector == \E e \in E : CollectEgress(e) \/ \E k \in Kinds : CollectChild(k, e) \/ Vanish(k, e)

-----------------------------------------------------------------------------
\* The informers: For(Egress), Owns(Deployment) and Owns(Service).  A child's
\* owner reference names the Egress also when it is the reference to an Egress
\* that is gone.  Nobody watches service accounts.
Changed(kind) == {e \in E : <<kind, e>> \in stale}

\* Mutant: Owns(Service) is missing.
EnqueuedNotService(kind) == IF kind = "Service" THEN {} ELSE Changed(kind)

Enqueued(kind) == Changed(kind)

SyncEgress ==
    /\ Changed("Egress") # {}
    /\ cache' = [cache EXCEPT !.egress = egress]
    /\ queue' = queue \cup Enqueued("Egress")
    /\ stale' = stale \ {<<"Egress", e>> : e \in E}
    /\ UNCHANGED <<objects, w, edits, faults>>

SyncChild(k) ==
    /\ Changed(k) # {}
    /\ cache' = [cache EXCEPT !.child[k] = child[k]]
    /\ queue' = queue \cup Enqueued(k)
    /\ stale' = stale \ {<<k, e>> : e \in E}
    /\ UNCHANGED <<objects, w, edits, faults>>

SyncSA ==
    /\ cache.sa # sa
    /\ cache' = [cache EXCEPT !.sa = sa]
    /\ UNCHANGED <<objects, stale, queue, w, edits, faults>>

-----------------------------------------------------------------------------
\* EgressReconciler.Reconcile.

Goto(pc) == w' = [w EXCEPT !.pc = pc] /\ UNCHANGED queue

\* The request is handled, or handled again later.
Done == w' = Idle /\ UNCHANGED queue

Requeue == w' = Idle /\ queue' = queue \cup {w.key}

\* Mutant: only an Egress that is not there is left alone.
SkipMissing(e) == cache.egress[e] = None

\* Get: an Egress that is not there or goes is left alone.
Skip(e) == cache.egress[e] = None \/ cache.egress[e].term

Reconcile(e) ==
    /\ w = Idle
    /\ e \in queue
    /\ queue' = queue \ {e}
    /\ w' = IF Skip(e) THEN Idle
            ELSE [pc |-> "sa", key |-> e, eg |-> cache.egress[e],
                  latest |-> <<"Egress", e>> \notin stale]
    /\ UNCHANGED <<objects, cache, stale, edits, faults>>

ns == NS[w.key]

\* reconcileServiceAccount, and reconcileCRB, whose failures are among those of
\* Fault.
reconcileServiceAccount ==
    /\ w.pc = "sa"
    /\ \/ ns \in cache.sa /\ UNCHANGED sa
       \/ ns \notin cache.sa /\ ns \notin sa /\ sa' = sa \cup {ns}
    /\ Goto("Deployment")
    /\ UNCHANGED <<egress, child, saLost, cache, stale, edits, faults>>

\* Create answers AlreadyExists.
ServiceAccountExists ==
    /\ w.pc = "sa"
    /\ ns \notin cache.sa /\ ns \in sa
    /\ Requeue
    /\ UNCHANGED <<objects, cache, stale, edits, faults>>

-----------------------------------------------------------------------------
\* reconcileDeployment and reconcileService: CreateOrUpdate.  The part of an
\* Egress that is optional (strategy, annotations of the template, session
\* affinity configuration) is copied if there is one and left alone if not.

After(k) == IF k = "Deployment" THEN "Service" ELSE "status"

Optional(old) == IF w.eg.spec.opt = Unset THEN old ELSE w.eg.spec.opt

Mutated(obj) ==
    IF obj.term THEN obj
    ELSE [obj EXCEPT !.main = w.eg.spec.main, !.opt = Optional(@)]

New == [owner |-> w.eg.uid, main |-> w.eg.spec.main, opt |-> w.eg.spec.opt,
        term |-> FALSE, avail |-> 0]

\* The API server accepts the object.  It looks at more than the webhook: the
\* parameters of the strategy, the whole pod template, the session affinity.
Accepted(k, obj) == obj.opt \notin Unfit[k]

Create(k) ==
    /\ w.pc = k
    /\ cache.child[k][w.key] = None /\ child[k][w.key] = None
    /\ Accepted(k, New)
    /\ WriteChild(k, w.key, New)
    /\ Goto(After(k))
    /\ UNCHANGED <<egress, sa, saLost, cache, edits, faults>>

\* What is written is the copy in the cache, with its owner and all.  An
\* Update that changes nothing is not made, or makes no new version.
Update(k) ==
    /\ w.pc = k
    /\ cache.child[k][w.key] # None
    /\ LET obj == Mutated(cache.child[k][w.key])
       IN  \/ obj = cache.child[k][w.key] /\ UNCHANGED <<child, stale>>
           \/ /\ obj # cache.child[k][w.key]
              /\ <<k, w.key>> \notin stale
              /\ Accepted(k, obj)
              /\ WriteChild(k, w.key, obj)
    /\ Goto(After(k))
    /\ UNCHANGED <<egress, sa, saLost, cache, edits, faults>>

\* AlreadyExists, NotFound or a conflict, or an object that is not accepted.
\* The object that the code writes lacks the API server's defaults, so that an
\* Update that changes nothing may be refused too.
Refused(k) ==
    /\ w.pc = k
    /\ \/ /\ <<k, w.key>> \in stale
          /\ cache.child[k][w.key] = None => child[k][w.key] # None
       \/ ~ Accepted(k, New)
    /\ Requeue
    /\ UNCHANGED <<objects, cache, stale, edits, faults>>

-----------------------------------------------------------------------------
\* updateStatus.
Deployment == cache.child["Deployment"][w.key]

updateStatus ==
    /\ w.pc = "status"
    /\ Deployment # None
    /\ \/ w.eg.status = Deployment.avail /\ UNCHANGED <<egress, stale>>
       \/ /\ w.eg.status # Deployment.avail
          /\ w.latest
          /\ WriteEgress(w.key, [w.eg EXCEPT !.status = Deployment.avail])
    /\ Done
    /\ UNCHANGED <<child, sa, saLost, cache, edits, faults>>

\* The cache has no Deployment yet, or the Egress has a newer version.
StatusFails ==
    /\ w.pc = "status"
    /\ Deployment # None => w.eg.status # Deployment.avail /\ ~ w.latest
    /\ Requeue
    /\ UNCHANGED <<objects, cache, stale, edits, faults>>

-----------------------------------------------------------------------------
\* A call to the API server fails.
Fault ==
    /\ faults < MaxFaults
    /\ faults' = faults + 1
    /\ w.pc # "idle"
    /\ Requeue
    /\ UNCHANGED <<objects, cache, stale, edits>>

\* Mutant: the objects that exist at the start are not delivered.
ListedNone == {}

\* The first lists of the three informers: each Egress, and the owner of each
\* child.
Listed == {e \in E : egress[e] # None \/ \E k \in Kinds : child[k][e] # None}

\* The process is killed.  Another one becomes the leader with new caches; its
\* worker starts when they have been filled.
Restart ==
    /\ faults < MaxFaults
    /\ faults' = faults + 1
    /\ cache' = [egress |-> egress, child |-> child, sa |-> sa]
    /\ stale' = {}
    /\ queue' = Listed
    /\ w' = Idle
    /\ saLost' = {}
    /\ UNCHANGED <<egress, child, sa, edits>>

EgressWorker ==
    \/ \E e \in E : Reconcile(e)
    \/ reconcileServiceAccount \/ ServiceAccountExists
    \/ \E k \in Kinds : Create(k) \/ Update(k) \/ Refused(k)
    \/ updateStatus \/ StatusFails

User ==
    \/ \E e \in E, s \in Specs : CreateEgress(e, s) \/ EditEgress(e, s)
    \/ \E e \in E : DeleteEgress(e) \/ \E k \in Kinds : EditChild(k, e)
    \/ \E n \in sa : DeleteServiceAccount(n)

Next ==
    \/ User
    \/ \E e \in E : CollectEgress(e) \/ Rollout(e)
    \/ \E e \in E, k \in Kinds : CollectChild(k, e) \/ Vanish(k, e)
    \/ SyncEgress \/ SyncSA \/ \E k \in Kinds : SyncChild(k)
    \/ EgressWorker
    \/ Fault \/ Restart

Spec == Init /\ [][Next]_vars

\* The worker runs, the watches deliver and the garbage collector collects.
FairSpec ==
    /\ Spec
    /\ WF_vars(EgressWorker)
    /\ WF_vars(SyncEgress) /\ WF_vars(SyncSA)
    /\ \A k \in Kinds : WF_vars(SyncChild(k))
    /\ WF_vars(Collector)

-----------------------------------------------------------------------------
(***************************************************************************)
(* Properties.                                                             *)
(***************************************************************************)

\* There is nothing left to do: no request, no event, nothing to collect.
Quiet ==
    /\ queue = {}
    /\ w = Idle
    /\ stale = {} /\ cache.sa = sa
    /\ \A e \in E : egress[e] # None => ~ egress[e].term
    /\ \A e \in E, k \in Kinds : child[k][e] # None => Owned(k, e) /\ ~ child[k][e].term

\* The Egress has what it needs.
Served(e) ==
    /\ \A k \in Kinds :
         /\ Owned(k, e)
         /\ child[k][e].main = egress[e].spec.main
         /\ egress[e].spec.opt # Unset => child[k][e].opt = egress[e].spec.opt
    /\ NS[e] \in sa \cup saLost
    /\ egress[e].status = child["Deployment"][e].avail

\* When there is nothing left to do, every Egress has its own Deployment and
\* Service as specified, its namespace has the service account, unless a user
\* deleted it under this leader, and its status is that of the Deployment:
\* whatever was edited or deleted meanwhile, an Egress of the same name before
\* it included, however stale the copies were that the reconciler worked from,
\* and wherever a former leader was stopped.
QuietServed == Quiet => \A e \in E : egress[e] # None => Served(e)

\* An Egress that the webhook has let through although the API server refuses
\* what is made from it: its Deployment or Service is tried again for ever.
Overlooked(e) ==
    /\ egress[e] # None
    /\ egress[e].spec.opt # Invalid
    /\ \E k \in Kinds : egress[e].spec.opt \in Unfit[k]

\* The reconciler comes to rest when the users do, once no Egress is left that
\* the webhook has overlooked: its updates do not cause new requests for ever, an
\* Egress that was refused is served when it is corrected, what the webhook
\* refuses is never tried, and a deletion is completed.
Settles == <>[](\A e \in E : ~ Overlooked(e)) => <>[]Quiet

-----------------------------------------------------------------------------
(***************************************************************************)
(* The inductive invariant, proved in EgressControllerProofs.              *)
(***************************************************************************)

AnEgress == [uid : 0..MaxEdits, spec : Specs, status : {Unset, 0, 1}, term : BOOLEAN]

AChild == [owner : 0..MaxEdits, main : {s.main : s \in Specs} \cup {Unset},
           opt : {s.opt : s \in Specs}, term : BOOLEAN, avail : {0, 1}]

Working == [pc : {"sa", "status"} \cup Kinds, key : E, eg : AnEgress, latest : BOOLEAN]

\* Every variable has its type.
TypeOK ==
    /\ egress \in [E -> AnEgress \cup {None}]
    /\ child \in [Kinds -> [E -> AChild \cup {None}]]
    /\ cache \in [egress : [E -> AnEgress \cup {None}],
                  child  : [Kinds -> [E -> AChild \cup {None}]],
                  sa     : SUBSET Nat]
    /\ stale \subseteq (Kinds \cup {"Egress"}) \X E
    /\ sa \subseteq Nat /\ saLost \subseteq Nat
    /\ queue \subseteq E
    /\ w \in Working \cup {Idle}
    /\ edits \in 0..MaxEdits
    /\ faults \in 0..MaxFaults

\* The caches lag behind by what the informers have not delivered only; a service
\* account that is in the cache and not there was deleted.
CacheFollows ==
    /\ \A e \in E : <<"Egress", e>> \notin stale => cache.egress[e] = egress[e]
    /\ \A e \in E, k \in Kinds : <<k, e>> \notin stale => cache.child[k][e] = child[k][e]
    /\ cache.sa \subseteq sa \cup saLost

\* There will be another reconciliation of e.
Pending(e) == e \in queue \/ \E k \in Kinds \cup {"Egress"} : <<k, e>> \in stale

\* The child is as specified, or goes.
ChildAsked(k, e) ==
    /\ child[k][e] # None
    /\ ~ child[k][e].term =>
          /\ child[k][e].main = egress[e].spec.main
          /\ egress[e].spec.opt # Unset => child[k][e].opt = egress[e].spec.opt

\* The reconciliation of e has nothing left to do.
Reconciled(e) ==
    /\ \A k \in Kinds : ChildAsked(k, e)
    /\ NS[e] \in sa \cup saLost
    /\ egress[e].status = child["Deployment"][e].avail

\* What the reconciliation in progress has done is still so, unless another one
\* follows.
WorkDone ==
    w # Idle =>
        /\ w.pc # "sa" => NS[w.key] \in sa \cup saLost
        /\ ~ Pending(w.key) =>
              /\ w.eg = egress[w.key]
              /\ w.pc \in {"Service", "status"} => ChildAsked("Deployment", w.key)
              /\ w.pc = "status" => ChildAsked("Service", w.key)

\* An Egress that stays has been reconciled, unless it is or will be again.
RestDone ==
    \A e \in E :
        w.key # e /\ ~ Pending(e) /\ egress[e] # None /\ ~ egress[e].term
            => Reconciled(e)

ControllerInv == TypeOK /\ CacheFollows /\ WorkDone /\ RestDone

=============================================================================
