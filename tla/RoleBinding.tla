---------------------------- MODULE RoleBinding ----------------------------
(***************************************************************************)
(* reconcileCRB of controllers/clusterrolebinding_controller.go and its    *)
(* two callers: the worker of EgressReconciler, for every Egress that it   *)
(* handles, and that of crbReconciler, which watches the                   *)
(* ClusterRoleBinding.                                                     *)
(*                                                                         *)
(* Both compute the subjects from the Egresses in the cache and overwrite  *)
(* those of the ClusterRoleBinding.  The caches lag behind the API server, *)
(* which refuses an update of an old version of the ClusterRoleBinding but *)
(* cannot know how old the list of Egresses is.  The process may be killed *)
(* at any step.                                                            *)
(***************************************************************************)
EXTENDS Naturals, Sequences, SequencesExt

CONSTANTS
    E,          \* names of Egresses
    NS,         \* [E -> Nat]: the namespace of an Egress, in sort order
    Leftovers,  \* sequences of namespaces: the subjects at the start, and
                \* those that a user writes
    MaxEdits,   \* how many edits users make
    MaxFaults   \* how often a call fails or the process is killed

ASSUME BindingAssumption ==
    /\ IsFiniteSet(E) /\ "CRB" \notin E
    /\ NS \in [E -> Nat]
    /\ Leftovers \subseteq Seq(Nat)
    /\ MaxEdits \in Nat /\ MaxFaults \in Nat

Callers == {"EgressReconciler", "crbReconciler"}

VARIABLES
    egress,  \* the Egresses
    crb,     \* the namespaces of the subjects of the ClusterRoleBinding
    cache,   \* [egress, crb]: the caches
    events,  \* what the informers have not delivered: Egresses, and "CRB"
    queue,   \* the requests of both reconcilers: Egresses, and "CRB"
    call,    \* Callers -> the request, the step of reconcileCRB, the copy of
             \* the ClusterRoleBinding and whether it is the latest version,
             \* and the subjects
    edits,
    faults

vars == <<egress, crb, cache, events, queue, call, edits, faults>>

Idle == [req |-> "none", pc |-> "idle", copy |-> <<>>, latest |-> FALSE, subjects |-> <<>>]

Init ==
    /\ egress = {}
    /\ crb \in Leftovers
    /\ cache = [egress |-> egress, crb |-> crb]
    /\ events = {}
    /\ queue = {"CRB"}
    /\ call = [r \in Callers |-> Idle]
    /\ edits = 0
    /\ faults = 0

-----------------------------------------------------------------------------
\* The API server, users and informers.

Outdated == [r \in Callers |-> [call[r] EXCEPT !.latest = FALSE]]

Edit == edits < MaxEdits /\ edits' = edits + 1

EditEgress(e) ==
    /\ Edit
    /\ egress' = IF e \in egress THEN egress \ {e} ELSE egress \cup {e}
    /\ events' = events \cup {e}
    /\ UNCHANGED <<crb, cache, queue, call, faults>>

EditCRB(subjects) ==
    /\ Edit
    /\ crb # subjects
    /\ crb' = subjects
    /\ events' = events \cup {"CRB"}
    /\ call' = Outdated
    /\ UNCHANGED <<egress, cache, queue, faults>>

SyncEgress ==
    /\ events \cap E # {}
    /\ cache' = [cache EXCEPT !.egress = egress]
    /\ queue' = queue \cup (events \cap E)
    /\ events' = events \ E
    /\ UNCHANGED <<egress, crb, call, edits, faults>>

\* Mutant: nobody watches the ClusterRoleBinding.
SyncCRBUnwatched ==
    /\ "CRB" \in events
    /\ cache' = [cache EXCEPT !.crb = crb]
    /\ events' = events \ {"CRB"}
    /\ UNCHANGED <<egress, crb, queue, call, edits, faults>>

SyncCRB ==
    /\ "CRB" \in events
    /\ cache' = [cache EXCEPT !.crb = crb]
    /\ queue' = queue \cup {"CRB"}
    /\ events' = events \ {"CRB"}
    /\ UNCHANGED <<egress, crb, call, edits, faults>>

-----------------------------------------------------------------------------
\* The reconcilers.

Set(r, c) == call' = [call EXCEPT ![r] = c]

\* An Egress that is not there any more is left alone, and with it the
\* ClusterRoleBinding.  (So is one with a deletion timestamp, which is listed
\* all the same; module EgressController has the two ways of deletion.)
Ignore(e) ==
    /\ call["EgressReconciler"] = Idle
    /\ e \in queue \ cache.egress
    /\ queue' = queue \ {e}
    /\ UNCHANGED <<egress, crb, cache, events, call, edits, faults>>

\* The worker takes a request; reconcileCRB begins with Get.
Reconcile(r) ==
    /\ call[r] = Idle
    /\ \E q \in queue :
         /\ IF r = "crbReconciler" THEN q = "CRB" ELSE q \in cache.egress
         /\ queue' = queue \ {q}
         /\ Set(r, [req |-> q, pc |-> "List", copy |-> cache.crb,
                    latest |-> "CRB" \notin events, subjects |-> <<>>])
    /\ UNCHANGED <<egress, crb, cache, events, edits, faults>>

Namespaces == {NS[e] : e \in cache.egress}

\* The namespaces of all Egresses, sorted.
Subjects ==
    CHOOSE s \in SetToSeqs(Namespaces) : \A i, j \in DOMAIN s : i < j => s[i] < s[j]

\* DeepDerivative: what is in excess at the end of the second list is ignored.
DeepDerivative(s, t) == IsPrefix(s, t)

\* Mutant: the namespaces come in the order of the map.
ListUnsorted(r) ==
    /\ call[r].pc = "List"
    /\ \E subjects \in SetToSeqs(Namespaces) :
         Set(r, IF DeepDerivative(subjects, call[r].copy) THEN Idle
                ELSE [call[r] EXCEPT !.pc = "Update", !.subjects = subjects])
    /\ UNCHANGED <<egress, crb, cache, events, queue, edits, faults>>

List(r) ==
    /\ call[r].pc = "List"
    /\ Set(r, IF DeepDerivative(Subjects, call[r].copy) THEN Idle
              ELSE [call[r] EXCEPT !.pc = "Update", !.subjects = Subjects])
    /\ UNCHANGED <<egress, crb, cache, events, queue, edits, faults>>

Update(r) ==
    /\ call[r].pc = "Update"
    /\ call[r].latest
    /\ crb' = call[r].subjects
    /\ events' = events \cup {"CRB"}
    /\ call' = [Outdated EXCEPT ![r] = Idle]
    /\ UNCHANGED <<egress, cache, queue, edits, faults>>

\* The request is handled again.
Conflict(r) ==
    /\ call[r].pc = "Update"
    /\ ~ call[r].latest
    /\ queue' = queue \cup {call[r].req}
    /\ Set(r, Idle)
    /\ UNCHANGED <<egress, crb, cache, events, edits, faults>>

\* A call to the API server fails.
Fault(r) ==
    /\ call[r] # Idle
    /\ faults < MaxFaults
    /\ faults' = faults + 1
    /\ queue' = queue \cup {call[r].req}
    /\ Set(r, Idle)
    /\ UNCHANGED <<egress, crb, cache, events, edits>>

\* The process is killed, and both workers with it.  The informers of the next
\* leader list the Egresses and the ClusterRoleBinding.
Restart ==
    /\ faults < MaxFaults
    /\ faults' = faults + 1
    /\ cache' = [egress |-> egress, crb |-> crb]
    /\ events' = {}
    /\ queue' = egress \cup {"CRB"}
    /\ call' = [r \in Callers |-> Idle]
    /\ UNCHANGED <<egress, crb, edits>>

Worker(r) ==
    \/ Reconcile(r) \/ List(r) \/ Update(r) \/ Conflict(r)
    \/ r = "EgressReconciler" /\ \E e \in E : Ignore(e)

Next ==
    \/ \E e \in E : EditEgress(e) \/ Ignore(e)
    \/ \E s \in Leftovers : EditCRB(s)
    \/ SyncEgress \/ SyncCRB
    \/ Restart
    \/ \E r \in Callers : Reconcile(r) \/ List(r) \/ Update(r) \/ Conflict(r) \/ Fault(r)

Spec == Init /\ [][Next]_vars

\* The workers run and the watches deliver.
FairSpec ==
    /\ Spec
    /\ \A r \in Callers : WF_vars(Worker(r))
    /\ WF_vars(SyncEgress) /\ WF_vars(SyncCRB)

-----------------------------------------------------------------------------
(***************************************************************************)
(* Properties.                                                             *)
(***************************************************************************)

\* There is nothing left to do: no request and no event.
Quiet ==
    /\ queue = {} /\ events = {}
    /\ \A r \in Callers : call[r] = Idle

\* When there is nothing left to do, the service account of every namespace
\* with an Egress is bound to the role, although a worker may have overwritten
\* the subjects from a list of Egresses that was old when it was used, and the
\* process may have been stopped right after it.
QuietBound == Quiet => \A e \in egress : NS[e] \in ToSet(crb)

\* The two reconcilers come to rest: their updates, of which each causes a new
\* request, do not undo one another for ever.
Settles == <>[]Quiet

-----------------------------------------------------------------------------
(***************************************************************************)
(* The inductive invariant, proved in RoleBindingProofs.                   *)
(***************************************************************************)

Call == [req : E \cup {"CRB"}, pc : {"List", "Update"},
         copy : Seq(Nat), latest : BOOLEAN, subjects : Seq(Nat)]

\* Every variable has its type.
TypeOK ==
    /\ egress \subseteq E
    /\ crb \in Seq(Nat)
    /\ cache \in [egress : SUBSET E, crb : Seq(Nat)]
    /\ events \subseteq E \cup {"CRB"}
    /\ queue \subseteq E \cup {"CRB"}
    /\ call \in [Callers -> Call \cup {Idle}]
    /\ edits \in 0..MaxEdits
    /\ faults \in 0..MaxFaults

\* The caches lag behind by what the informers have not delivered only.
CacheFollows ==
    /\ \A e \in E \ events : e \in cache.egress <=> e \in egress
    /\ "CRB" \notin events => cache.crb = crb

\* A copy of the latest version is what the API server holds.
LatestCopy == \A r \in Callers : call[r].latest => call[r].copy = crb

\* The call of r, for e or for the ClusterRoleBinding, can not end without e
\* being bound or its request being repeated.
WillBind(r, e) ==
    /\ call[r].latest
    /\ call[r].req \in {e, "CRB"}
    /\ call[r].pc = "Update" => NS[e] \in ToSet(call[r].subjects)

\* An Egress that is not bound is on the way to it.
Covered ==
    \A e \in egress :
        \/ NS[e] \in ToSet(crb)
        \/ {e, "CRB"} \cap (events \cup queue) # {}
        \/ \E r \in Callers : WillBind(r, e)

BindingInv == TypeOK /\ CacheFollows /\ LatestCopy /\ Covered

=============================================================================
