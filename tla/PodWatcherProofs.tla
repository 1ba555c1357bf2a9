-------------------------- MODULE PodWatcherProofs --------------------------
(***************************************************************************)
(* Proofs about the pod watcher, for any number of pods and addresses.     *)
(***************************************************************************)
EXTENDS PodWatcher, TLAPS

\* The pod that stands for no pod is well-formed: some spec exists.
LEMMA AbsentPodType == AbsentPod \in Pod
  BY SpecAssumption DEF AbsentPod, Pod

\* Every job that Reconcile starts is well-formed.
LEMMA JobForType ==
    ASSUME TypeOK, NEW k \in Pods
    PROVE  /\ JobFor(k) \in Job
           /\ JobFor(k).op # "idle" => JobFor(k).key \in Pods
  <1>1. Idle \in Job /\ Idle.op = "idle"
    BY DEF Idle, Job
  <1>2. delPeer(k) \in Job /\ delPeer(k).key = k
    BY DEF delPeer, Job, TypeOK
  <1>3. addPod(k) \in Job /\ addPod(k).key = k
    BY DEF addPod, Job, TypeOK, Pod
  <1>4. pods[k].phase \in {"Absent", "Running", "Succeeded"}
    BY DEF TypeOK, Pod
  <1> QED
    BY <1>1, <1>2, <1>3, <1>4 DEF JobFor, Client, isTerminated

\* Every step of the watcher keeps the types.
LEMMA TypeInductive ==
    ASSUME TypeOK, [Next]_vars
    PROVE  TypeOK'
  <1> USE DEF TypeOK
  <1>1. CASE Cluster
    <2>1. PICK k \in Pods : \/ CreatePod(k) \/ AssignIPs(k) \/ Annotate(k)
                            \/ Terminate(k) \/ DeletePod(k)
      BY <1>1 DEF Cluster
    <2>2. pods' \in [Pods -> Pod]
      <3>1. CASE CreatePod(k)
        BY <3>1 DEF CreatePod, Pod
      <3>2. CASE AssignIPs(k)
        BY <3>2 DEF AssignIPs, Pod
      <3>3. CASE Annotate(k)
        BY <3>3 DEF Annotate, Pod
      <3>4. CASE Terminate(k)
        BY <3>4 DEF Terminate, Pod
      <3>5. CASE DeletePod(k)
        BY <3>5, AbsentPodType DEF DeletePod
      <3> QED
        BY <2>1, <3>1, <3>2, <3>3, <3>4, <3>5
    <2>3. Enqueue(k) /\ Unwatched
      BY <2>1 DEF CreatePod, AssignIPs, Annotate, Terminate, DeletePod
    <2> QED
      BY <2>2, <2>3 DEF Enqueue, Unwatched, memory, kernel, budget
  <1>2. ASSUME NEW k \in Pods, Reconcile(k)
        PROVE  TypeOK'
    BY <1>2, JobForType DEF Reconcile, Dequeue, memory, kernel, budget
  <1>3. ASSUME NEW k \in Pods, GetFails(k)
        PROVE  TypeOK'
    BY <1>3, FaultAssumption DEF GetFails, Dequeue, Fault, memory, kernel
  <1>4. Idle \in Job /\ Idle.op = "idle"
    BY DEF Idle, Job
  <1>5. ASSUME NEW ip \in IPs, AddPeer(ip)
        PROVE  TypeOK'
    BY <1>5 DEF AddPeer, Continue, Job, memory, kernel, budget
  <1>6. ASSUME NEW ip \in IPs, AddClient(ip)
        PROVE  TypeOK'
    BY <1>6 DEF AddClient, Continue, Job, memory, kernel, budget
  <1>7. ASSUME NEW ip \in IPs, DropOld(ip)
        PROVE  TypeOK'
    BY <1>7 DEF DropOld, Connected, DelPeer, Continue, Job, memory, kernel, budget
  <1>8. ASSUME NEW ip \in IPs, ReleaseOld(ip)
        PROVE  TypeOK'
    BY <1>8 DEF ReleaseOld, DelPeer, Unregister, Continue, Job, memory, kernel, budget
  <1>9. ASSUME NEW ip \in IPs, ReleaseOldUnknown(ip)
        PROVE  TypeOK'
    BY <1>4, <1>9 DEF ReleaseOldUnknown, Return, Job, memory, kernel, budget
  <1>10. CASE FinishAdd
    BY <1>4, <1>10 DEF FinishAdd, Connected, Register, Return, Job, kernel, budget
  <1>11. CASE FinishDel
    BY <1>4, <1>11 DEF FinishDel, Return, Job, kernel, budget
  <1>12. ASSUME NEW ip \in IPs, AddPeerFails(ip)
         PROVE  TypeOK'
    BY <1>4, <1>12, FaultAssumption DEF AddPeerFails, Fault, Return, Job, memory, kernel
  <1>13. ASSUME NEW ip \in IPs, AddClientFails(ip)
         PROVE  TypeOK'
    BY <1>4, <1>13, FaultAssumption DEF AddClientFails, Fault, Return, Job, memory, kernel
  <1>14. ASSUME NEW ip \in IPs, DropOldFails(ip)
         PROVE  TypeOK'
    BY <1>4, <1>14, FaultAssumption DEF DropOldFails, Connected, Fault, Return, Job, memory, kernel
  <1>15. ASSUME NEW ip \in IPs, ReleaseOldFails(ip)
         PROVE  TypeOK'
    BY <1>4, <1>15, FaultAssumption DEF ReleaseOldFails, Fault, Return, Job, memory, kernel
  <1>16. CASE Crash
    <2>1. crashes' \in 0..MaxCrashes
      BY <1>16, FaultAssumption DEF Crash
    <2>2. /\ podAddrs' \in [Pods -> SUBSET IPs]
          /\ tracked' \subseteq Pods
          /\ peers' \in [IPs -> SUBSET Pods]
      BY <1>16 DEF Crash
    <2> QED
      BY <1>4, <1>16, <2>1, <2>2 DEF Crash, kernel
  <1>17. CASE Start
    BY <1>17 DEF Start, memory, kernel, budget
  <1>18. CASE UNCHANGED vars
    BY <1>18 DEF vars, memory, kernel, budget
  <1> QED
    BY <1>1, <1>2, <1>3, <1>5, <1>6, <1>7, <1>8, <1>9, <1>10, <1>11, <1>12,
       <1>13, <1>14, <1>15, <1>16, <1>17, <1>18 DEF Next, Step, Failure

\* The watcher is type-correct: job, queue and maps only ever hold keys and
\* addresses of the cluster, for every set of pods and addresses.
THEOREM TypeCorrect == Spec => []TypeOK
  <1>1. Init => TypeOK
    BY AbsentPodType, FaultAssumption DEF Init, TypeOK, Idle, Job
  <1> QED
    BY <1>1, TypeInductive, PTL DEF Spec

-----------------------------------------------------------------------------
\* The fields of the jobs that Reconcile starts.
LEMMA JobFields ==
    ASSUME NEW k \in Pods
    PROVE  /\ Idle.op = "idle" /\ Idle.key = NoPod /\ Idle.old = {}
           /\ delPeer(k).op = "del" /\ delPeer(k).key = k
           /\ delPeer(k).old = podAddrs[k]
           /\ addPod(k).op = "add" /\ addPod(k).key = k
           /\ addPod(k).podIPs = pods[k].ips
           /\ addPod(k).new = pods[k].ips \ podAddrs[k]
           /\ addPod(k).link = {}
           /\ addPod(k).old = podAddrs[k] \ pods[k].ips
  BY DEF Idle, delPeer, addPod

\* Reconcile starts one of three jobs.
LEMMA JobForCases ==
    ASSUME TypeOK, NEW k \in Pods
    PROVE  \/ JobFor(k) = Idle /\ ~ Client(k)
           \/ JobFor(k) = delPeer(k) /\ pods[k].phase # "Running"
           \/ JobFor(k) = addPod(k) /\ Client(k)
  <1>1. pods[k].phase \in {"Absent", "Running", "Succeeded"}
    BY DEF TypeOK, Pod
  <1> QED
    BY <1>1 DEF JobFor, Client, isTerminated

\* What the steps of a reconciliation do to the job, the maps and the kernel.
LEMMA AddPeerStep ==
    ASSUME TypeOK, NEW ip \in IPs, AddPeer(ip)
    PROVE  /\ job.op = "add" /\ job.link = {} /\ ip \in job.new
           /\ job'.op = "add" /\ job'.key = job.key /\ job'.podIPs = job.podIPs
           /\ job'.new = job.new \ {ip} /\ job'.old = job.old
           /\ \/ ip \in Supported /\ links' = links \cup {ip} /\ job'.link = {ip}
              \/ ip \notin Supported /\ links' = links /\ job'.link = {}
           /\ UNCHANGED <<pods, up, queue, podAddrs, tracked, peers, routes>>
  BY DEF AddPeer, Continue, memory, TypeOK, Job

LEMMA AddClientStep ==
    ASSUME TypeOK, NEW ip \in IPs, AddClient(ip)
    PROVE  /\ job.op = "add" /\ ip \in job.link
           /\ job'.op = "add" /\ job'.key = job.key /\ job'.podIPs = job.podIPs
           /\ job'.new = job.new /\ job'.link = {} /\ job'.old = job.old
           /\ routes' = routes \cup {ip}
           /\ UNCHANGED <<pods, up, queue, podAddrs, tracked, peers, links>>
  BY DEF AddClient, Continue, memory, TypeOK, Job

LEMMA DropOldStep ==
    ASSUME TypeOK, NEW ip \in IPs, DropOld(ip)
    PROVE  /\ job.op = "add" /\ job.new = {} /\ job.link = {} /\ ip \in job.old
           /\ job'.op = "add" /\ job'.key = job.key /\ job'.podIPs = job.podIPs
           /\ job'.new = {} /\ job'.link = {} /\ job'.old = job.old \ {ip}
           /\ links' = links \ {ip} /\ routes' = routes \ {ip}
           /\ UNCHANGED <<pods, up, queue, podAddrs, tracked, peers>>
  BY DEF DropOld, Connected, DelPeer, Continue, memory, TypeOK, Job

LEMMA ReleaseOldStep ==
    ASSUME TypeOK, NEW ip \in IPs, ReleaseOld(ip)
    PROVE  /\ job.op = "del" /\ ip \in job.old /\ job.key \in peers[ip]
           /\ job'.op = "del" /\ job'.key = job.key /\ job'.old = job.old \ {ip}
           /\ peers' = [peers EXCEPT ![ip] = peers[ip] \ {job.key}]
           /\ \/ peers[ip] # {job.key} /\ UNCHANGED <<links, routes>>
              \/ /\ peers[ip] = {job.key}
                 /\ links' = links \ {ip} /\ routes' = routes \ {ip}
           /\ UNCHANGED <<pods, up, queue, podAddrs, tracked>>
  BY DEF ReleaseOld, existsOtherLivePeers, DelPeer, Unregister, Continue, kernel,
         TypeOK, Job

LEMMA FinishAddStep ==
    ASSUME TypeOK, FinishAdd
    PROVE  /\ job.op = "add" /\ job.new = {} /\ job.link = {} /\ job.old = {}
           /\ job.key \in Pods
           /\ podAddrs' = [podAddrs EXCEPT ![job.key] = job.podIPs]
           /\ tracked' = tracked \cup {job.key}
           /\ peers' = [ip \in IPs |-> IF ip \in job.podIPs
                                       THEN peers[ip] \cup {job.key} ELSE peers[ip]]
           /\ job' = Idle
           /\ UNCHANGED <<pods, up, queue, links, routes>>
  BY DEF FinishAdd, Connected, Register, Return, kernel, TypeOK

LEMMA FinishDelStep ==
    ASSUME TypeOK, FinishDel
    PROVE  /\ job.op = "del" /\ job.old = {} /\ job.key \in Pods
           /\ podAddrs' = [podAddrs EXCEPT ![job.key] = {}]
           /\ tracked' = tracked \ {job.key}
           /\ job' = Idle
           /\ UNCHANGED <<pods, up, queue, peers, links, routes>>
  BY DEF FinishDel, Return, kernel, TypeOK

\* A call of addPod fails before the first old address is dropped.
LEMMA AddFailsStep ==
    ASSUME TypeOK, NEW ip \in IPs, AddPeerFails(ip) \/ AddClientFails(ip)
    PROVE  /\ job.op = "add" /\ job.new \cup job.link # {}
           /\ job' = Idle /\ queue' = queue \cup {job.key}
           /\ links \subseteq links'
           /\ UNCHANGED <<pods, up, podAddrs, tracked, peers, routes>>
  BY DEF AddPeerFails, AddClientFails, Return, memory, kernel

\* A call of DelPeer fails, or delPeer does not find the key in peers.
LEMMA DelFailsStep ==
    ASSUME TypeOK, NEW ip \in IPs,
           DropOldFails(ip) \/ ReleaseOldFails(ip) \/ ReleaseOldUnknown(ip)
    PROVE  /\ job.op # "idle" /\ job' = Idle /\ queue' = queue \cup {job.key}
           /\ UNCHANGED <<pods, up, podAddrs, tracked, peers, links, routes>>
  BY DEF DropOldFails, ReleaseOldFails, ReleaseOldUnknown, Connected, Return, memory,
         kernel

\* A step's effect on the job keeps the job's fields in agreement with the
\* maps and the kernel.
LEMMA JobConsistentInductive ==
    ASSUME TypeOK, JobConsistent, [Next]_vars
    PROVE  JobConsistent'
  <1> USE DEF JobConsistent
  <1>0. Idle.op = "idle"
    BY DEF Idle
  <1>1. CASE Cluster
    <2>1. PICK k \in Pods : Enqueue(k) /\ Unwatched
      BY <1>1 DEF Cluster, CreatePod, AssignIPs, Annotate, Terminate, DeletePod
    <2> QED
      BY <2>1 DEF Enqueue, Unwatched, memory, kernel, budget
  <1>2. ASSUME NEW k \in Pods, Reconcile(k)
        PROVE  JobConsistent'
    <2>1. /\ up' = up /\ up /\ job' = JobFor(k) /\ podAddrs' = podAddrs
          /\ links' = links /\ routes' = routes
      BY <1>2 DEF Reconcile, Dequeue, memory, kernel
    <2>2. CASE JobFor(k) = Idle
      BY <1>0, <2>1, <2>2
    <2>3. CASE JobFor(k) = delPeer(k)
      BY <2>1, <2>3, JobFields
    <2>4. CASE JobFor(k) = addPod(k)
      BY <2>1, <2>4, JobFields
    <2> QED
      BY <2>2, <2>3, <2>4, JobForCases
  <1>3. ASSUME NEW k \in Pods, GetFails(k)
        PROVE  JobConsistent'
    BY <1>3 DEF GetFails, Dequeue, memory, kernel
  <1>4. ASSUME job' = Idle, up' = up, up
        PROVE  JobConsistent'
    BY <1>0, <1>4
  <1>5. job.op # "idle" => up
    BY <1>0
  <1>6. ASSUME NEW ip \in IPs, AddPeer(ip)
        PROVE  JobConsistent'
    BY <1>5, <1>6, AddPeerStep
  <1>7. ASSUME NEW ip \in IPs, AddClient(ip)
        PROVE  JobConsistent'
    BY <1>5, <1>7, AddClientStep
  <1>8. ASSUME NEW ip \in IPs, DropOld(ip)
        PROVE  JobConsistent'
    BY <1>5, <1>8, DropOldStep
  <1>9. ASSUME NEW ip \in IPs, ReleaseOld(ip)
        PROVE  JobConsistent'
    BY <1>5, <1>9, ReleaseOldStep
  <1>10. ASSUME NEW ip \in IPs,
                \/ AddPeerFails(ip) \/ AddClientFails(ip) \/ DropOldFails(ip)
                \/ ReleaseOldFails(ip) \/ ReleaseOldUnknown(ip)
         PROVE  JobConsistent'
    BY <1>4, <1>5, <1>10, AddFailsStep, DelFailsStep
  <1>11. CASE FinishAdd \/ FinishDel
    BY <1>4, <1>5, <1>11, FinishAddStep, FinishDelStep
  <1>12. CASE Crash
    BY <1>0, <1>12 DEF Crash
  <1>13. CASE Start
    BY <1>0, <1>13 DEF Start
  <1>14. CASE UNCHANGED vars
    BY <1>14 DEF vars, memory, kernel
  <1> QED
    BY <1>1, <1>2, <1>3, <1>6, <1>7, <1>8, <1>9, <1>10, <1>11, <1>12, <1>13,
       <1>14 DEF Next, Step, Failure

-----------------------------------------------------------------------------
(***************************************************************************)
(* While no DelPeer fails, peers is an index of podAddrs and every address *)
(* without a stale key is connected, even when addresses change.           *)
(***************************************************************************)

\* A step that changes neither job, maps nor kernel keeps the invariant.
LEMMA IndexStutter ==
    ASSUME IndexAgrees, HeldConnected,
           UNCHANGED <<job, podAddrs, peers, links, routes>>
    PROVE  IndexAgrees' /\ HeldConnected'
  BY DEF IndexAgrees, HeldConnected, Holds, BeingDropped

\* The index and the connections survive every step.
LEMMA IndexInductive ==
    ASSUME "DelPeer" \notin Faulty, IndexInv, [Next]_vars
    PROVE  IndexAgrees' /\ HeldConnected'
  <1>0. TypeOK /\ JobConsistent /\ IndexAgrees /\ HeldConnected
    BY DEF IndexInv
  <1>1. CASE Cluster \/ Start \/ (\E k \in Pods : GetFails(k)) \/ UNCHANGED vars
    <2>1. UNCHANGED <<job, podAddrs, peers, links, routes>>
      BY <1>1 DEF Cluster, CreatePod, AssignIPs, Annotate, Terminate, DeletePod,
                  Unwatched, Start, GetFails, Dequeue, vars, memory, kernel
    <2> QED
      BY <1>0, <2>1, IndexStutter
  <1>2. ASSUME NEW k \in Pods, Reconcile(k)
        PROVE  IndexAgrees' /\ HeldConnected'
    <2>1. /\ job = Idle /\ job' = JobFor(k)
          /\ UNCHANGED <<podAddrs, peers, links, routes>>
      BY <1>2 DEF Reconcile, Dequeue, memory, kernel
    <2>2. \A j, ip : Holds(j, ip)' <=> Holds(j, ip)
      BY <1>0, <2>1, JobForCases, JobFields DEF Holds
    <2>3. \A ip : ~ BeingDropped(ip)
      BY <2>1, JobFields DEF BeingDropped
    <2> QED
      BY <1>0, <2>1, <2>2, <2>3 DEF IndexAgrees, HeldConnected
  <1>3. ASSUME NEW ip \in IPs, AddPeer(ip) \/ AddClient(ip)
        PROVE  IndexAgrees' /\ HeldConnected'
    <2>1. /\ job.op = "add" /\ job'.op = "add" /\ job'.key = job.key
          /\ job'.podIPs = job.podIPs /\ job'.old = job.old
          /\ links \subseteq links' /\ routes \subseteq routes'
          /\ UNCHANGED <<podAddrs, peers>>
      BY <1>0, <1>3, AddPeerStep, AddClientStep
    <2> QED
      BY <1>0, <2>1 DEF IndexAgrees, HeldConnected, Holds, BeingDropped
  <1>4. ASSUME NEW ip \in IPs, DropOld(ip)
        PROVE  IndexAgrees' /\ HeldConnected'
    <2>1. \A j, i : Holds(j, i)' <=> Holds(j, i)
      BY <1>0, <1>4, DropOldStep DEF Holds
    <2>2. BeingDropped(ip)'
      BY <1>0, <1>4, DropOldStep DEF BeingDropped, JobConsistent
    <2>3. \A i : i # ip => (BeingDropped(i)' <=> BeingDropped(i))
      BY <1>0, <1>4, DropOldStep DEF BeingDropped
    <2> QED
      BY <1>0, <1>4, <2>1, <2>2, <2>3, DropOldStep DEF IndexAgrees, HeldConnected
  <1>5. ASSUME NEW ip \in IPs, AddPeerFails(ip) \/ AddClientFails(ip)
        PROVE  IndexAgrees' /\ HeldConnected'
    <2>1. \A j, i : Holds(j, i)' <=> Holds(j, i)
      BY <1>0, <1>5, AddFailsStep, JobFields DEF Holds, Idle
    <2>2. \A i : ~ BeingDropped(i)
      BY <1>0, <1>5, AddFailsStep DEF BeingDropped, JobConsistent
    <2> QED
      BY <1>0, <1>5, <2>1, <2>2, AddFailsStep DEF IndexAgrees, HeldConnected
  <1>6. ASSUME NEW ip \in IPs, ReleaseOld(ip)
        PROVE  IndexAgrees' /\ HeldConnected'
    <2>1. /\ Holds(job.key, ip) /\ ~ Holds(job.key, ip)' /\ ip \in podAddrs[job.key]
          /\ job.key \in Pods /\ job'.key = job.key
      BY <1>0, <1>6, ReleaseOldStep DEF Holds, JobConsistent, TypeOK
    <2>2. \A j, i : j # job.key \/ i # ip => (Holds(j, i)' <=> Holds(j, i))
      BY <1>0, <1>6, ReleaseOldStep DEF Holds
    <2>3. \A i : ~ BeingDropped(i) /\ ~ BeingDropped(i)'
      BY <1>0, <1>6, ReleaseOldStep DEF BeingDropped
    <2>4. /\ peers'[ip] = peers[ip] \ {job.key}
          /\ \A i \in IPs : i # ip => peers'[i] = peers[i]
      BY <1>0, <1>6, ReleaseOldStep DEF TypeOK
    <2>5. IndexAgrees'
      BY <1>0, <2>1, <2>2, <2>4 DEF IndexAgrees
    <2>6. ASSUME NEW k \in Pods, NEW i \in Supported,
                 Holds(k, i)', \A j \in peers'[i] : Holds(j, i)'
          PROVE  i \in links' /\ i \in routes'
      <3>1. k \in peers[i] /\ Holds(k, i) /\ i \in IPs
        BY <1>0, <2>1, <2>2, <2>6, AddressAssumption DEF IndexAgrees
      <3>2. i # ip \/ peers[ip] # {job.key}
        BY <2>1, <2>6, <3>1
      <3>3. \A j \in peers[i] : Holds(j, i)
        BY <2>1, <2>2, <2>4, <2>6, <3>1
      <3>4. i \in links /\ i \in routes
        BY <1>0, <2>3, <3>1, <3>3 DEF HeldConnected
      <3> QED
        BY <1>0, <1>6, <3>2, <3>4, ReleaseOldStep
    <2> QED
      BY <2>5, <2>6 DEF HeldConnected
  <1>7. ASSUME NEW ip \in IPs,
               DropOldFails(ip) \/ ReleaseOldFails(ip) \/ ReleaseOldUnknown(ip)
        PROVE  FALSE
    <2>1. ReleaseOldUnknown(ip)
      BY <1>7 DEF DropOldFails, ReleaseOldFails, Fault
    <2>2. job.key \in Pods /\ Holds(job.key, ip)
      BY <1>0, <2>1 DEF ReleaseOldUnknown, JobConsistent, Holds, TypeOK
    <2> QED
      BY <1>0, <2>1, <2>2 DEF ReleaseOldUnknown, IndexAgrees
  <1>8. CASE FinishAdd
    <2>1. /\ job.op = "add" /\ job'.op = "idle" /\ job.old = {} /\ job.key \in Pods
          /\ podAddrs'[job.key] = job.podIPs
          /\ \A j \in Pods : j # job.key => podAddrs'[j] = podAddrs[j]
          /\ \A i \in job.podIPs \cap IPs : peers'[i] = peers[i] \cup {job.key}
          /\ \A i \in IPs \ job.podIPs : peers'[i] = peers[i]
          /\ UNCHANGED <<links, routes>>
      BY <1>0, <1>8, FinishAddStep DEF TypeOK, Idle
    <2>2. IndexAgrees'
      BY <1>0, <2>1 DEF IndexAgrees, Holds
    <2>3. ASSUME NEW k \in Pods, NEW i \in Supported,
                 Holds(k, i)', \A j \in peers'[i] : Holds(j, i)'
          PROVE  i \in links' /\ i \in routes'
      <3>1. i \in IPs /\ i \in podAddrs'[k]
        BY <2>3, AddressAssumption DEF Holds
      <3>2. peers[i] \subseteq Pods
        BY <1>0, <3>1 DEF TypeOK
      <3>3. i \in podAddrs[job.key] => i \in job.podIPs
        <4>1. ASSUME i \in podAddrs[job.key]
              PROVE  job.key \in peers'[i]
          BY <1>0, <2>1, <3>1, <4>1 DEF IndexAgrees, Holds
        <4> QED
          BY <2>1, <2>3, <4>1 DEF Holds
      <3>4. ~ BeingDropped(i)
        BY <3>3 DEF BeingDropped
      <3>5. CASE i \in job.podIPs /\ i \notin podAddrs[job.key]
        BY <1>0, <1>8, <2>1, <3>5, FinishAddStep DEF JobConsistent
      <3>6. CASE i \in podAddrs[job.key] \/ i \notin job.podIPs
        <4>1. i \in podAddrs[k]
          BY <2>1, <3>1, <3>3, <3>6
        <4>2. \A j \in peers[i] : i \in podAddrs[j]
          BY <2>1, <2>3, <3>1, <3>2, <3>3, <3>6 DEF Holds
        <4> QED
          BY <1>0, <2>1, <3>4, <4>1, <4>2 DEF HeldConnected, Holds
      <3> QED
        BY <3>5, <3>6
    <2> QED
      BY <2>2, <2>3 DEF HeldConnected
  <1>9. CASE FinishDel
    <2>1. \A j \in Pods : \A i : Holds(j, i)' <=> Holds(j, i)
      BY <1>0, <1>9, FinishDelStep DEF Holds, TypeOK, Idle
    <2>2. \A i : ~ BeingDropped(i)
      BY <1>0, <1>9, FinishDelStep DEF BeingDropped
    <2> QED
      BY <1>0, <1>9, <2>1, <2>2, FinishDelStep, AddressAssumption
         DEF IndexAgrees, HeldConnected, TypeOK
  <1>10. CASE Crash
    BY <1>10, AddressAssumption DEF Crash, IndexAgrees, HeldConnected, Holds
  <1> QED
    BY <1>1, <1>2, <1>3, <1>4, <1>5, <1>6, <1>7, <1>8, <1>9, <1>10
       DEF Next, Step, Failure

\* The inductive invariant holds while no DelPeer fails.
LEMMA IndexInvariant ==
    ASSUME "DelPeer" \notin Faulty
    PROVE  Spec => []IndexInv
  <1>1. Init => IndexInv
    <2> SUFFICES ASSUME Init PROVE IndexInv
      OBVIOUS
    <2>1. TypeOK
      BY AbsentPodType, FaultAssumption DEF Init, TypeOK, Idle, Job
    <2>2. JobConsistent
      BY DEF Init, JobConsistent, Idle
    <2>3. IndexAgrees /\ HeldConnected
      BY AddressAssumption DEF Init, IndexAgrees, HeldConnected, Holds
    <2> QED
      BY <2>1, <2>2, <2>3 DEF IndexInv
  <1>2. IndexInv /\ [Next]_vars => IndexInv'
    BY TypeInductive, JobConsistentInductive, IndexInductive DEF IndexInv
  <1> QED
    BY <1>1, <1>2, PTL DEF Spec

\* existsOtherLivePeers never returns an error: while no DelPeer fails,
\* delPeer finds the key it releases under each of the pod's addresses.
THEOREM NoOrphan ==
    ASSUME "DelPeer" \notin Faulty
    PROVE  Spec => []NoOrphanEntry
  <1>1. IndexInv => NoOrphanEntry
    BY DEF IndexInv, TypeOK, Job, JobConsistent, IndexAgrees, Holds, NoOrphanEntry
  <1> QED
    BY <1>1, IndexInvariant, PTL

\* A pod that is alone registered for its address is connected by it, while
\* no DelPeer fails and however pods move between addresses.
THEOREM SoleHolder ==
    ASSUME "DelPeer" \notin Faulty
    PROVE  Spec => []SoleHolderConnected
  <1>1. IndexInv => SoleHolderConnected
    <2> SUFFICES ASSUME IndexInv, NEW k \in Pods, NEW ip \in Supported,
                        ip \in podAddrs[k], peers[ip] = {k}, job.key # k
                 PROVE  ip \in links /\ ip \in routes
      BY DEF SoleHolderConnected
    <2>1. Holds(k, ip) /\ (\A j \in peers[ip] : Holds(j, ip))
      BY DEF Holds
    <2>2. ASSUME BeingDropped(ip) PROVE FALSE
      <3>1. job.key \in Pods /\ Holds(job.key, ip)
        BY <2>2 DEF BeingDropped, Holds, IndexInv, TypeOK
      <3> QED
        BY <3>1, AddressAssumption DEF IndexInv, IndexAgrees
    <2> QED
      BY <2>1, <2>2 DEF IndexInv, HeldConnected
  <1> QED
    BY <1>1, IndexInvariant, PTL

-----------------------------------------------------------------------------
(***************************************************************************)
(* With stable addresses every client is connected, whatever call fails.   *)
(***************************************************************************)

\* What an event does to the pod it is about, with stable addresses.
LEMMA ClusterStep ==
    ASSUME StableAddresses, TypeOK, Cluster
    PROVE  \E k \in Pods :
              /\ \A j \in Pods \ {k} : pods'[j] = pods[j]
              /\ \/ pods'[k].phase = "Absent"
                 \/ pods[k].phase = "Absent" /\ k \notin tracked /\ job.key # k
                 \/ pods[k].phase = "Running" /\ pods[k].ips = {}
                 \/ /\ pods[k].phase # "Absent" /\ pods'[k].ips = pods[k].ips
                    /\ pods'[k].phase \in {pods[k].phase, "Succeeded"}
              /\ UNCHANGED <<up, job, podAddrs, tracked, peers, links, routes>>
  <1>1. PICK k \in Pods : \/ CreatePod(k) \/ AssignIPs(k) \/ Annotate(k)
                          \/ Terminate(k) \/ DeletePod(k)
    BY DEF Cluster
  <1>2. UNCHANGED <<up, job, podAddrs, tracked, peers, links, routes>>
    BY <1>1 DEF CreatePod, AssignIPs, Annotate, Terminate, DeletePod, Unwatched,
                memory, kernel
  <1>3. \A j \in Pods \ {k} : pods'[j] = pods[j]
    BY <1>1 DEF CreatePod, AssignIPs, Annotate, Terminate, DeletePod, TypeOK
  <1>4. \/ pods'[k].phase = "Absent"
        \/ pods[k].phase = "Absent" /\ k \notin tracked /\ job.key # k
        \/ pods[k].phase = "Running" /\ pods[k].ips = {}
        \/ /\ pods[k].phase # "Absent" /\ pods'[k].ips = pods[k].ips
           /\ pods'[k].phase \in {pods[k].phase, "Succeeded"}
    <2>1. CASE CreatePod(k)
      BY <2>1 DEF CreatePod, NameIsFree
    <2>2. CASE AssignIPs(k)
      BY <2>2 DEF AssignIPs
    <2>3. CASE Annotate(k)
      BY <2>3 DEF Annotate, TypeOK, Pod
    <2>4. CASE Terminate(k)
      BY <2>4 DEF Terminate, TypeOK, Pod
    <2>5. CASE DeletePod(k)
      BY <2>5 DEF DeletePod, AbsentPod, TypeOK
    <2> QED
      BY <1>1, <2>1, <2>2, <2>3, <2>4, <2>5
  <1> QED
    BY <1>2, <1>3, <1>4

\* The record of a running pod stays right and its connections stay up.
LEMMA StableInductive ==
    ASSUME StableAddresses, StableInv, [Next]_vars
    PROVE  StableRecord' /\ RunningConnected'
  <1>0. TypeOK /\ JobConsistent /\ StableRecord /\ RunningConnected
    BY DEF StableInv
  <1>1. CASE Cluster
    <2>1. PICK k \in Pods :
              /\ \A j \in Pods \ {k} : pods'[j] = pods[j]
              /\ \/ pods'[k].phase = "Absent"
                 \/ pods[k].phase = "Absent" /\ k \notin tracked /\ job.key # k
                 \/ pods[k].phase = "Running" /\ pods[k].ips = {}
                 \/ /\ pods[k].phase # "Absent" /\ pods'[k].ips = pods[k].ips
                    /\ pods'[k].phase \in {pods[k].phase, "Succeeded"}
              /\ UNCHANGED <<up, job, podAddrs, tracked, peers, links, routes>>
      BY <1>0, <1>1, ClusterStep
    <2>2. StableRecord'
      BY <1>0, <2>1 DEF StableRecord, TypeOK
    <2>3. pods[k].phase = "Absent" => podAddrs[k] = {} \/ pods'[k].phase = "Absent"
      BY <1>0, <2>1 DEF StableRecord
    <2>4. RunningConnected'
      BY <1>0, <2>1, <2>3 DEF StableRecord, RunningConnected
    <2> QED
      BY <2>2, <2>4
  <1>2. ASSUME NEW k \in Pods, Reconcile(k)
        PROVE  StableRecord' /\ RunningConnected'
    <2>1. /\ job = Idle /\ job' = JobFor(k)
          /\ UNCHANGED <<pods, podAddrs, tracked, peers, links, routes>>
      BY <1>2 DEF Reconcile, Dequeue, memory, kernel
    <2>2. RunningConnected'
      BY <1>0, <2>1 DEF RunningConnected
    <2>3. StableRecord'
      BY <1>0, <2>1, JobForCases, JobFields DEF StableRecord, Client
    <2> QED
      BY <2>2, <2>3
  <1>3. ASSUME NEW ip \in IPs, AddPeer(ip) \/ AddClient(ip)
        PROVE  StableRecord' /\ RunningConnected'
    <2>1. /\ job.op = "add" /\ job'.op = "add" /\ job'.key = job.key
          /\ job'.podIPs = job.podIPs /\ job'.old = job.old
          /\ links \subseteq links' /\ routes \subseteq routes'
          /\ UNCHANGED <<pods, podAddrs, tracked, peers>>
      BY <1>0, <1>3, AddPeerStep, AddClientStep
    <2> QED
      BY <1>0, <2>1 DEF StableRecord, RunningConnected
  <1>4. ASSUME NEW ip \in IPs, DropOld(ip)
        PROVE  FALSE
    BY <1>0, <1>4, DropOldStep DEF StableRecord
  <1>5. ASSUME NEW ip \in IPs, ReleaseOld(ip)
        PROVE  StableRecord' /\ RunningConnected'
    <2>1. StableRecord'
      BY <1>0, <1>5, ReleaseOldStep DEF StableRecord
    <2>2. ASSUME NEW k \in Pods, pods'[k].phase = "Running", NEW i \in podAddrs'[k]
          PROVE  k \in peers'[i] /\ (i \in Supported => i \in links' /\ i \in routes')
      <3>1. k # job.key /\ i \in podAddrs[k] /\ i \in IPs
        BY <1>0, <1>5, <2>2, ReleaseOldStep DEF StableRecord, TypeOK
      <3>2. k \in peers[i] /\ (i \in Supported => i \in links /\ i \in routes)
        BY <1>0, <1>5, <2>2, <3>1, ReleaseOldStep DEF RunningConnected
      <3>3. peers'[i] = IF i = ip THEN peers[ip] \ {job.key} ELSE peers[i]
        BY <1>0, <1>5, <3>1, ReleaseOldStep DEF TypeOK
      <3> QED
        BY <1>0, <1>5, <3>1, <3>2, <3>3, ReleaseOldStep
    <2> QED
      BY <2>1, <2>2 DEF RunningConnected
  <1>6. ASSUME NEW ip \in IPs,
               \/ AddPeerFails(ip) \/ AddClientFails(ip) \/ DropOldFails(ip)
               \/ ReleaseOldFails(ip) \/ ReleaseOldUnknown(ip)
        PROVE  StableRecord' /\ RunningConnected'
    <2>1. /\ job'.op = "idle" /\ links \subseteq links'
          /\ UNCHANGED <<pods, podAddrs, tracked, peers, routes>>
      BY <1>0, <1>6, AddFailsStep, DelFailsStep DEF Idle
    <2> QED
      BY <1>0, <2>1 DEF StableRecord, RunningConnected
  <1>7. CASE FinishAdd
    <2>1. /\ job.op = "add" /\ job.key \in Pods /\ job'.op = "idle"
          /\ podAddrs'[job.key] = job.podIPs
          /\ \A j \in Pods : j # job.key => podAddrs'[j] = podAddrs[j]
          /\ \A i \in job.podIPs \cap IPs : peers'[i] = peers[i] \cup {job.key}
          /\ \A i \in IPs : peers[i] \subseteq peers'[i]
          /\ tracked' = tracked \cup {job.key}
          /\ UNCHANGED <<pods, links, routes>>
      BY <1>0, <1>7, FinishAddStep DEF TypeOK, Idle
    <2>2. StableRecord'
      BY <1>0, <2>1 DEF StableRecord
    <2>3. ASSUME NEW k \in Pods, pods'[k].phase = "Running", NEW i \in podAddrs'[k]
          PROVE  k \in peers'[i] /\ (i \in Supported => i \in links' /\ i \in routes')
      <3>1. i \in IPs
        BY <1>0, <2>1, <2>3 DEF TypeOK, Job
      <3>2. CASE i \in podAddrs[k]
        BY <1>0, <2>1, <2>3, <3>1, <3>2 DEF RunningConnected
      <3>3. CASE i \notin podAddrs[k]
        <4>1. k = job.key /\ i \in job.podIPs
          BY <2>1, <2>3, <3>3
        <4>2. i \in Supported => i \in links /\ i \in routes
          BY <1>0, <1>7, <3>3, <4>1, FinishAddStep DEF JobConsistent
        <4> QED
          BY <2>1, <3>1, <4>1, <4>2
      <3> QED
        BY <3>2, <3>3
    <2> QED
      BY <2>2, <2>3 DEF RunningConnected
  <1>8. CASE FinishDel
    <2>1. /\ job'.op = "idle" /\ job.key \in Pods /\ podAddrs'[job.key] = {}
          /\ \A j \in Pods : j # job.key => podAddrs'[j] = podAddrs[j]
          /\ tracked' = tracked \ {job.key}
          /\ UNCHANGED <<pods, peers, links, routes>>
      BY <1>0, <1>8, FinishDelStep DEF TypeOK, Idle
    <2> QED
      BY <1>0, <2>1 DEF StableRecord, RunningConnected
  <1>9. CASE Crash
    BY <1>9 DEF Crash, StableRecord, RunningConnected, Idle
  <1>10. CASE Start \/ (\E k \in Pods : GetFails(k)) \/ UNCHANGED vars
    <2>1. UNCHANGED <<pods, job, podAddrs, tracked, peers, links, routes>>
      BY <1>10 DEF Start, GetFails, Dequeue, vars, memory, kernel
    <2> QED
      BY <1>0, <2>1 DEF StableRecord, RunningConnected
  <1> QED
    BY <1>1, <1>2, <1>3, <1>4, <1>5, <1>6, <1>7, <1>8, <1>9, <1>10
       DEF Next, Step, Failure

\* The inductive invariant holds with stable addresses.
LEMMA StableInvariant ==
    ASSUME StableAddresses
    PROVE  Spec => []StableInv
  <1>1. Init => StableInv
    <2> SUFFICES ASSUME Init PROVE StableInv
      OBVIOUS
    <2>1. TypeOK
      BY AbsentPodType, FaultAssumption DEF Init, TypeOK, Idle, Job
    <2>2. JobConsistent
      BY DEF Init, JobConsistent, Idle
    <2>3. StableRecord /\ RunningConnected
      BY DEF Init, StableRecord, RunningConnected, Idle
    <2> QED
      BY <2>1, <2>2, <2>3 DEF StableInv
  <1>2. StableInv /\ [Next]_vars => StableInv'
    BY TypeInductive, JobConsistentInductive, StableInductive DEF StableInv
  <1> QED
    BY <1>1, <1>2, PTL DEF Spec

\* With stable addresses, no step closes the tunnel of a client other than
\* the pod that is being reconciled.
THEOREM CutsNoOther ==
    ASSUME StableAddresses
    PROVE  Spec => NeverCutsOther
  <1>1. ASSUME StableInv, [Next]_vars
        PROVE  [\A ip \in links \ links' : \A k \in Pods :
                  Client(k) /\ ip \in podAddrs[k] => k = job.key]_vars
    <2> SUFFICES ASSUME Next, NEW ip \in links \ links', NEW k \in Pods,
                        Client(k), ip \in podAddrs[k]
                 PROVE  k = job.key
      BY <1>1
    <2>0. TypeOK /\ JobConsistent /\ StableRecord /\ RunningConnected
      BY <1>1 DEF StableInv
    <2>1. PICK i \in IPs : DropOld(i) \/ ReleaseOld(i)
      BY <2>0, ClusterStep, AddPeerStep, AddFailsStep, DelFailsStep, AddClientStep,
         FinishAddStep, FinishDelStep
         DEF Next, Step, Failure, Reconcile, GetFails, Crash, Start, kernel
    <2>2. ReleaseOld(i) /\ i = ip /\ peers[ip] = {job.key}
      BY <2>0, <2>1, DropOldStep, ReleaseOldStep DEF StableRecord
    <2>3. k \in peers[ip]
      BY <2>0 DEF RunningConnected, Client
    <2> QED
      BY <2>2, <2>3
  <1> QED
    BY <1>1, StableInvariant, PTL DEF Spec, NeverCutsOther

\* No step loses the event of a client, while Get does not fail.
LEMMA NoEventLostInductive ==
    ASSUME "Get" \notin Faulty, TypeOK, JobConsistent, NoEventLost, [Next]_vars
    PROVE  NoEventLost'
  <1>0. Idle.op = "idle" /\ Idle.key = NoPod /\ (job.op = "idle" => job = Idle)
    BY DEF Idle, JobConsistent
  <1>1. CASE Cluster
    <2>1. PICK k \in Pods : \/ CreatePod(k) \/ AssignIPs(k) \/ Annotate(k)
                            \/ Terminate(k) \/ DeletePod(k)
      BY <1>1 DEF Cluster
    <2>2. /\ \A j \in Pods \ {k} : pods'[j] = pods[j]
          /\ queue' = IF up THEN queue \cup {k} ELSE queue
          /\ UNCHANGED <<up, job, podAddrs>>
      BY <2>1 DEF CreatePod, AssignIPs, Annotate, Terminate, DeletePod, Unwatched,
                  Enqueue, memory, TypeOK
    <2>3. \A j \in Pods \ {k} : Client(j)' <=> Client(j)
      BY <2>2 DEF Client, shouldHandle
    <2> QED
      BY <2>2, <2>3 DEF NoEventLost
  <1>2. ASSUME NEW k \in Pods, Reconcile(k)
        PROVE  NoEventLost'
    <2>1. /\ up /\ job = Idle /\ job' = JobFor(k) /\ queue' = queue \ {k}
          /\ UNCHANGED <<pods, up, podAddrs>>
      BY <1>2 DEF Reconcile, Dequeue, memory
    <2>2. \A j \in Pods : Client(j)' <=> Client(j)
      BY <2>1 DEF Client, shouldHandle
    <2>3. Client(k) => job'.key = k /\ job'.op = "add" /\ job'.podIPs = pods[k].ips
      BY <2>1, JobForCases, JobFields DEF Client
    <2>4. job'.key \in {k, NoPod}
      BY <2>1, JobForCases, JobFields
    <2>5. ASSUME NEW j \in Pods \ {k}, Client(j), j \notin queue
          PROVE  podAddrs[j] = pods[j].ips
      BY <1>0, <2>1, <2>5, PodsAssumption DEF NoEventLost
    <2> QED
      BY <2>1, <2>2, <2>3, <2>4, <2>5, PodsAssumption DEF NoEventLost
  <1>3. ASSUME NEW ip \in IPs,
               AddPeer(ip) \/ AddClient(ip) \/ DropOld(ip) \/ ReleaseOld(ip)
        PROVE  NoEventLost'
    <2>1. /\ job'.op = job.op /\ job'.key = job.key
          /\ job.op = "add" => job'.podIPs = job.podIPs
          /\ UNCHANGED <<pods, up, queue, podAddrs>>
      BY <1>3, AddPeerStep, AddClientStep, DropOldStep, ReleaseOldStep
    <2>2. \A j \in Pods : Client(j)' <=> Client(j)
      BY <2>1 DEF Client, shouldHandle
    <2> QED
      BY <2>1, <2>2 DEF NoEventLost
  <1>4. ASSUME NEW ip \in IPs,
               \/ AddPeerFails(ip) \/ AddClientFails(ip) \/ DropOldFails(ip)
               \/ ReleaseOldFails(ip) \/ ReleaseOldUnknown(ip)
        PROVE  NoEventLost'
    <2>1. /\ job' = Idle /\ queue' = queue \cup {job.key}
          /\ UNCHANGED <<pods, up, podAddrs>>
      BY <1>4, AddFailsStep, DelFailsStep
    <2>2. \A j \in Pods : Client(j)' <=> Client(j)
      BY <2>1 DEF Client, shouldHandle
    <2> QED
      BY <1>0, <2>1, <2>2, PodsAssumption DEF NoEventLost
  <1>5. CASE FinishAdd \/ FinishDel
    <2>1. /\ job.op \in {"add", "del"} /\ job.key \in Pods /\ job' = Idle
          /\ job.op = "add" => podAddrs'[job.key] = job.podIPs
          /\ \A j \in Pods : j # job.key => podAddrs'[j] = podAddrs[j]
          /\ UNCHANGED <<pods, up, queue>>
      BY <1>5, FinishAddStep, FinishDelStep DEF TypeOK
    <2>2. \A j \in Pods : Client(j)' <=> Client(j)
      BY <2>1 DEF Client, shouldHandle
    <2> QED
      BY <1>0, <2>1, <2>2, PodsAssumption DEF NoEventLost
  <1>6. CASE Crash
    BY <1>6 DEF Crash, NoEventLost
  <1>7. CASE Start
    BY <1>7 DEF Start, NoEventLost, Client
  <1>8. CASE UNCHANGED vars
    BY <1>8 DEF vars, memory, NoEventLost, Client, shouldHandle
  <1>9. ~ \E k \in Pods : GetFails(k)
    BY DEF GetFails, Fault
  <1> QED
    BY <1>1, <1>2, <1>3, <1>4, <1>5, <1>6, <1>7, <1>8, <1>9 DEF Next, Step, Failure

\* With stable addresses and a Get that does not fail, every client without a
\* pending event is connected by all its supported addresses: over failures
\* of the other calls, restarts, and addresses shared with other pods.
THEOREM ClientsConnected ==
    ASSUME StableAddresses, "Get" \notin Faulty
    PROVE  Spec => []ClientConnected
  <1>1. Init => NoEventLost
    BY DEF Init, NoEventLost, Client, AbsentPod
  <1>2. StableInv /\ NoEventLost /\ [Next]_vars => NoEventLost'
    BY NoEventLostInductive DEF StableInv
  <1>3. StableInv /\ NoEventLost => ClientConnected
    BY DEF StableInv, RunningConnected, NoEventLost, ClientConnected, Client
  <1> QED
    BY <1>1, <1>2, <1>3, StableInvariant, PTL DEF Spec

-----------------------------------------------------------------------------
(***************************************************************************)
(* The gauge, however addresses change and whichever call but Get fails.   *)
(***************************************************************************)

\* What k is counted as depends on the pod and on its being tracked only.
LEMMA CountedUnchanged ==
    ASSUME NEW k, pods'[k] = pods[k], (k \in tracked') <=> (k \in tracked)
    PROVE  /\ Client(k)' <=> Client(k)
           /\ Counted(k)' <=> Counted(k)
  BY DEF Counted, Client, shouldHandle, isTerminated

\* No step makes the gauge miss a client or keep a pod that is gone without an
\* event that will mend it.
LEMMA GaugeInductive ==
    ASSUME "Get" \notin Faulty, TypeOK, JobConsistent, GaugeInv, [Next]_vars
    PROVE  GaugeInv'
  <1>0. Idle.op = "idle" /\ Idle.key = NoPod /\ (job.op = "idle" => job = Idle)
    BY DEF Idle, JobConsistent
  <1>1. CASE Cluster
    <2>1. PICK k \in Pods : \/ CreatePod(k) \/ AssignIPs(k) \/ Annotate(k)
                            \/ Terminate(k) \/ DeletePod(k)
      BY <1>1 DEF Cluster
    <2>2. /\ \A j \in Pods \ {k} : pods'[j] = pods[j]
          /\ queue' = IF up THEN queue \cup {k} ELSE queue
          /\ UNCHANGED <<up, job, tracked>>
      BY <2>1 DEF CreatePod, AssignIPs, Annotate, Terminate, DeletePod, Unwatched,
                  Enqueue, memory, TypeOK
    <2> QED
      BY <2>2, CountedUnchanged DEF GaugeInv
  <1>2. ASSUME NEW k \in Pods, Reconcile(k)
        PROVE  GaugeInv'
    <2>1. /\ up /\ job = Idle /\ job' = JobFor(k) /\ queue' = queue \ {k}
          /\ UNCHANGED <<pods, up, tracked>>
      BY <1>2 DEF Reconcile, Dequeue, memory
    <2>2. \A j \in Pods : (Client(j)' <=> Client(j)) /\ (Counted(j)' <=> Counted(j))
      BY <2>1, CountedUnchanged
    <2>3. ASSUME NEW j \in Pods \ {k}, j \notin queue
          PROVE  job'.key # j /\ Counted(j)'
      <3>1. job'.key \in {k, NoPod}
        BY <2>1, JobForCases, JobFields
      <3> QED
        BY <1>0, <2>1, <2>2, <2>3, <3>1, PodsAssumption DEF GaugeInv
    <2>4. IF job'.key = k THEN job'.op = "add" <=> Client(k) ELSE Counted(k)
      <3>1. pods[k].phase \in {"Absent", "Running", "Succeeded"}
        BY DEF TypeOK, Pod
      <3>2. CASE JobFor(k) = Idle
        <4>1. ~ Client(k) /\ ~ shouldHandle(pods[k]) /\ pods[k].phase # "Absent"
          <5>1. delPeer(k) # Idle /\ addPod(k) # Idle
            BY JobFields
          <5> QED
            BY <3>1, <3>2, <5>1 DEF JobFor, Client, isTerminated
        <4> QED
          BY <1>0, <2>1, <3>1, <3>2, <4>1, PodsAssumption DEF Counted, isTerminated
      <3>3. CASE JobFor(k) = delPeer(k)
        <4>1. ~ Client(k)
          BY <3>3, JobForCases, JobFields DEF Client
        <4> QED
          BY <2>1, <3>3, <4>1, JobFields
      <3>4. CASE JobFor(k) = addPod(k)
        <4>1. Client(k)
          BY <3>4, JobForCases, JobFields
        <4> QED
          BY <2>1, <3>4, <4>1, JobFields
      <3> QED
        BY <3>2, <3>3, <3>4, JobForCases
    <2> QED
      BY <2>1, <2>2, <2>3, <2>4 DEF GaugeInv
  <1>3. ASSUME NEW ip \in IPs,
               AddPeer(ip) \/ AddClient(ip) \/ DropOld(ip) \/ ReleaseOld(ip)
        PROVE  GaugeInv'
    <2>1. /\ job'.op = job.op /\ job'.key = job.key
          /\ UNCHANGED <<pods, up, queue, tracked>>
      BY <1>3, AddPeerStep, AddClientStep, DropOldStep, ReleaseOldStep
    <2> QED
      BY <2>1, CountedUnchanged DEF GaugeInv
  <1>4. ASSUME NEW ip \in IPs,
               \/ AddPeerFails(ip) \/ AddClientFails(ip) \/ DropOldFails(ip)
               \/ ReleaseOldFails(ip) \/ ReleaseOldUnknown(ip)
        PROVE  GaugeInv'
    <2>1. /\ job' = Idle /\ queue' = queue \cup {job.key}
          /\ UNCHANGED <<pods, up, tracked>>
      BY <1>4, AddFailsStep, DelFailsStep
    <2> QED
      BY <1>0, <2>1, CountedUnchanged, PodsAssumption DEF GaugeInv
  <1>5. CASE FinishAdd \/ FinishDel
    <2>1. /\ job.op \in {"add", "del"} /\ job.key \in Pods /\ job' = Idle
          /\ job.op = "add" => tracked' = tracked \cup {job.key}
          /\ job.op = "del" => tracked' = tracked \ {job.key}
          /\ UNCHANGED <<pods, up, queue>>
      BY <1>5, FinishAddStep, FinishDelStep
    <2>2. up
      BY <1>0, <2>1 DEF JobConsistent
    <2>3. ASSUME NEW j \in Pods, j \notin queue
          PROVE  Counted(j)'
      <3>1. CASE j # job.key
        BY <2>1, <2>2, <2>3, <3>1, CountedUnchanged DEF GaugeInv
      <3>2. CASE j = job.key
        <4>1. job.op = "add" <=> Client(j)
          BY <2>2, <2>3, <3>2 DEF GaugeInv
        <4> QED
          BY <2>1, <3>2, <4>1 DEF Counted, Client, shouldHandle
      <3> QED
        BY <3>1, <3>2
    <2> QED
      BY <1>0, <2>1, <2>2, <2>3, PodsAssumption DEF GaugeInv
  <1>6. CASE Crash
    BY <1>6 DEF Crash, GaugeInv
  <1>7. CASE Start
    <2>0. ~ up
      BY <1>7 DEF Start
    <2>1. /\ up' /\ job' = Idle /\ tracked' = tracked /\ pods' = pods
          /\ queue' = {k \in Pods : pods[k].phase # "Absent"}
      BY <1>7, <2>0 DEF Start, memory, JobConsistent
    <2>2. tracked = {}
      BY <2>0 DEF GaugeInv
    <2> QED
      BY <1>0, <2>1, <2>2, PodsAssumption DEF GaugeInv, Counted, Client
  <1>8. CASE UNCHANGED vars
    BY <1>8 DEF vars, memory, GaugeInv, Counted, Client, shouldHandle, isTerminated
  <1>9. ~ \E k \in Pods : GetFails(k)
    BY DEF GetFails, Fault
  <1> QED
    BY <1>1, <1>2, <1>3, <1>4, <1>5, <1>6, <1>7, <1>8, <1>9 DEF Next, Step, Failure

\* While Get does not fail, the gauge of a watcher that has nothing left to do
\* counts every client and no pod that is gone or terminated as a client: over
\* changes of addresses and annotations, failures of the other calls, and
\* restarts.
THEOREM GaugeRight ==
    ASSUME "Get" \notin Faulty
    PROVE  Spec => []QuietGauge
  <1>1. Init => TypeOK /\ JobConsistent /\ GaugeInv
    <2> SUFFICES ASSUME Init PROVE TypeOK /\ JobConsistent /\ GaugeInv
      OBVIOUS
    <2>1. TypeOK
      BY AbsentPodType, FaultAssumption DEF Init, TypeOK, Idle, Job
    <2>2. JobConsistent
      BY DEF Init, JobConsistent, Idle
    <2>3. GaugeInv
      BY PodsAssumption DEF Init, GaugeInv, Counted, Client, AbsentPod, Idle
    <2> QED
      BY <2>1, <2>2, <2>3
  <1>2. TypeOK /\ JobConsistent /\ GaugeInv /\ [Next]_vars
            => TypeOK' /\ JobConsistent' /\ GaugeInv'
    BY TypeInductive, JobConsistentInductive, GaugeInductive
  <1>3. TypeOK /\ GaugeInv => QuietGauge
    <2> SUFFICES ASSUME TypeOK, GaugeInv, Quiet
                 PROVE  \A k \in Pods : Counted(k)
      BY DEF QuietGauge, Counted, TypeOK
    <2>1. job.key = NoPod
      BY DEF Quiet, Idle
    <2> QED
      BY <2>1, PodsAssumption DEF Quiet, GaugeInv
  <1> QED
    BY <1>1, <1>2, <1>3, PTL DEF Spec

-----------------------------------------------------------------------------
(***************************************************************************)
(* With stable addresses, and as long as nothing fails, nothing is left    *)
(* over.                                                                   *)
(***************************************************************************)

\* A step that changes neither job, maps nor kernel keeps the agreement.
LEMMA ExactStutter ==
    ASSUME Exact, UNCHANGED <<job, podAddrs, peers, links, routes>>
    PROVE  Exact'
  BY DEF Exact, Holds

\* The steps of addPod keep it.
LEMMA ExactAdd ==
    ASSUME TypeOK, JobConsistent, StableRecord, Exact,
           \/ \E ip \in IPs : AddPeer(ip) \/ AddClient(ip) \/ DropOld(ip)
           \/ FinishAdd
    PROVE  Exact'
  <1>1. ASSUME NEW ip \in IPs, AddPeer(ip)
        PROVE  Exact'
    <2>1. \A k, i : Holds(k, i)' <=> Holds(k, i)
      BY <1>1, AddPeerStep DEF Holds
    <2> QED
      BY <1>1, <2>1, AddPeerStep DEF Exact
  <1>2. ASSUME NEW ip \in IPs, AddClient(ip)
        PROVE  Exact'
    <2>1. \A k, i : Holds(k, i)' <=> Holds(k, i)
      BY <1>2, AddClientStep DEF Holds
    <2>2. job.link = {ip}
      BY <1>2, AddClientStep DEF JobConsistent
    <2> QED
      BY <1>2, <2>1, <2>2, AddClientStep DEF Exact
  <1>3. ASSUME NEW ip \in IPs, DropOld(ip)
        PROVE  FALSE
    BY <1>3, DropOldStep DEF StableRecord
  <1>4. CASE FinishAdd
    <2>0. PICK key \in Pods : key = job.key
      BY <1>4, FinishAddStep
    <2>1. /\ job.op = "add" /\ job.new = {} /\ job.link = {}
          /\ job'.op = "idle" /\ job'.link = {}
          /\ podAddrs'[key] = job.podIPs
          /\ \A k \in Pods : k # key => podAddrs'[k] = podAddrs[k]
          /\ \A i \in IPs : peers'[i] = IF i \in job.podIPs THEN peers[i] \cup {key}
                                        ELSE peers[i]
          /\ UNCHANGED <<links, routes>>
      BY <1>4, <2>0, FinishAddStep DEF TypeOK, Idle
    <2>2. podAddrs[key] \subseteq job.podIPs
      BY <2>0, <2>1 DEF Exact
    <2>3. /\ \A i : Holds(key, i)' <=> i \in job.podIPs
          /\ \A k \in Pods, i \in IPs : k # key => (Holds(k, i)' <=> Holds(k, i))
          /\ \A i : Holds(key, i) <=> i \in podAddrs[key]
      BY <2>0, <2>1 DEF Holds
    <2>4. \A i \in Supported : i \in job.podIPs => i \in links /\ i \in routes
      <3>1. ASSUME NEW i \in Supported, i \in job.podIPs \ podAddrs[key]
            PROVE  i \in links /\ i \in routes
        BY <2>0, <2>1, <3>1 DEF JobConsistent
      <3> QED
        BY <2>1, <2>3, <3>1 DEF Exact
    <2>5. ASSUME NEW k \in Pods, NEW i \in IPs
          PROVE  k \in peers'[i] <=> Holds(k, i)'
      <3>1. k \in peers[i] <=> Holds(k, i)
        BY DEF Exact
      <3>2. CASE k = key
        BY <2>1, <2>2, <2>3, <3>1, <3>2
      <3>3. CASE k # key
        BY <2>1, <2>3, <3>1, <3>3
      <3> QED
        BY <3>2, <3>3
    <2>6. \A k \in Pods, i \in Supported : Holds(k, i)' => i \in links' /\ i \in routes'
      BY <2>1, <2>3, <2>4, AddressAssumption DEF Exact
    <2>7. \A i \in links' : \E k \in Pods : Holds(k, i)'
      BY <2>1, <2>2, <2>3, AddressAssumption DEF Exact
    <2> QED
      BY <2>1, <2>5, <2>6, <2>7 DEF Exact
  <1> QED
    BY <1>1, <1>2, <1>3, <1>4

\* The steps of delPeer keep it.
LEMMA ExactDel ==
    ASSUME TypeOK, JobConsistent, Exact,
           \/ \E ip \in IPs : ReleaseOld(ip) \/ ReleaseOldUnknown(ip)
           \/ FinishDel
    PROVE  Exact'
  <1>1. ASSUME NEW ip \in IPs, ReleaseOld(ip)
        PROVE  Exact'
    <2>1. /\ job.op = "del" /\ job'.op = "del" /\ job'.key = job.key /\ job.key \in Pods
          /\ job'.link = job.link
          /\ peers'[ip] = peers[ip] \ {job.key}
          /\ \A i \in IPs : i # ip => peers'[i] = peers[i]
      BY <1>1, ReleaseOldStep DEF ReleaseOld, Continue, TypeOK, Job
    <2>2. /\ ~ Holds(job.key, ip)'
          /\ \A k, i : k # job.key \/ i # ip => (Holds(k, i)' <=> Holds(k, i))
      BY <1>1, ReleaseOldStep DEF Holds
    <2>3. \A k \in Pods, i \in IPs : k \in peers'[i] <=> Holds(k, i)'
      BY <2>1, <2>2 DEF Exact
    <2>4. CASE peers[ip] # {job.key} /\ UNCHANGED <<links, routes>>
      <3>1. PICK j \in peers[ip] : j # job.key
        BY <1>1, <2>4, ReleaseOldStep
      <3>2. j \in Pods /\ Holds(j, ip)'
        BY <2>2, <3>1 DEF TypeOK, Exact
      <3>3. \A i \in links' : \E k \in Pods : Holds(k, i)'
        BY <2>1, <2>2, <2>4, <3>2 DEF Exact
      <3> QED
        BY <2>1, <2>2, <2>3, <2>4, <3>3 DEF Exact
    <2>5. CASE peers[ip] = {job.key} /\ links' = links \ {ip} /\ routes' = routes \ {ip}
      <3>1. \A k \in Pods : ~ Holds(k, ip)'
        BY <2>1, <2>3, <2>5
      <3>2. \A i \in links' : \E k \in Pods : Holds(k, i)'
        BY <2>1, <2>2, <2>5 DEF Exact
      <3>3. ip \notin job.link
        BY <2>1 DEF Exact
      <3> QED
        BY <2>1, <2>2, <2>3, <2>5, <3>1, <3>2, <3>3 DEF Exact
    <2> QED
      BY <1>1, <2>4, <2>5, ReleaseOldStep
  <1>2. ASSUME NEW ip \in IPs, ReleaseOldUnknown(ip)
        PROVE  FALSE
    <2>1. job.key \in Pods /\ Holds(job.key, ip)
      BY <1>2 DEF ReleaseOldUnknown, JobConsistent, Holds, TypeOK
    <2> QED
      BY <1>2, <2>1 DEF ReleaseOldUnknown, Exact
  <1>3. CASE FinishDel
    <2>1. /\ job.op = "del" /\ job'.op = "idle" /\ job'.link = {}
          /\ UNCHANGED <<peers, links, routes>>
      BY <1>3, FinishDelStep DEF Idle
    <2>2. \A k \in Pods : \A i : Holds(k, i)' <=> Holds(k, i)
      BY <1>3, FinishDelStep DEF Holds, TypeOK, Idle
    <2> QED
      BY <2>1, <2>2, AddressAssumption DEF Exact
  <1> QED
    BY <1>1, <1>2, <1>3

\* While nothing fails, every step keeps the agreement.
LEMMA ExactInductive ==
    ASSUME StableAddresses, StableInv, ExactInv, [Next]_vars
    PROVE  ExactInv'
  <1> SUFFICES ASSUME faults' = 0, crashes' = 0
               PROVE  Exact'
    BY DEF ExactInv
  <1>0. TypeOK /\ JobConsistent /\ StableRecord
    BY DEF StableInv
  <1>1. ~ Failure
    <2>1. faults \in Nat /\ crashes \in Nat
      BY <1>0 DEF TypeOK
    <2>2. (\A call : ~ Fault(call)) /\ ~ Crash
      BY <2>1 DEF Fault, Crash
    <2> QED
      BY <2>2 DEF Failure, GetFails, AddPeerFails, AddClientFails, DropOldFails,
                  ReleaseOldFails
  <1>2. faults = 0 /\ crashes = 0
    BY <1>1 DEF Next, Cluster, CreatePod, AssignIPs, Annotate, Terminate, DeletePod,
                Unwatched, Reconcile, Step, AddPeer, AddClient, DropOld, ReleaseOld,
                ReleaseOldUnknown, FinishAdd, FinishDel, Start, vars, budget
  <1>3. Exact
    BY <1>2 DEF ExactInv
  <1>4. CASE Cluster \/ Start \/ UNCHANGED vars
    <2>1. UNCHANGED <<job, podAddrs, peers, links, routes>>
      BY <1>4 DEF Cluster, CreatePod, AssignIPs, Annotate, Terminate, DeletePod,
                  Unwatched, Start, vars, memory, kernel
    <2> QED
      BY <1>3, <2>1, ExactStutter
  <1>5. ASSUME NEW k \in Pods, Reconcile(k)
        PROVE  Exact'
    <2>1. /\ job = Idle /\ job' = JobFor(k)
          /\ UNCHANGED <<podAddrs, peers, links, routes>>
      BY <1>5 DEF Reconcile, Dequeue, memory, kernel
    <2>2. \A j, ip : Holds(j, ip)' <=> Holds(j, ip)
      BY <1>0, <2>1, JobForCases, JobFields DEF Holds
    <2>3. job.op = "idle" /\ job.link = {} /\ job'.link = {}
      BY <1>0, <2>1, JobForCases DEF Idle, delPeer, addPod
    <2>4. CASE job'.op = "add"
      <3>1. job' = addPod(k) /\ Client(k)
        BY <1>0, <2>1, <2>4, JobForCases, JobFields
      <3>2. podAddrs[k] \subseteq pods[k].ips
        BY <1>0, <3>1 DEF StableRecord, Client
      <3> QED
        BY <1>3, <2>1, <2>2, <2>3, <3>1, <3>2, JobFields DEF Exact
    <2>5. CASE job'.op # "add"
      BY <1>3, <2>1, <2>2, <2>3, <2>5 DEF Exact
    <2> QED
      BY <2>4, <2>5
  <1> QED
    BY <1>0, <1>1, <1>3, <1>4, <1>5, ExactAdd, ExactDel DEF Next, Step

\* With stable addresses, and if nothing has failed, a watcher that has nothing
\* left to do has exactly the tunnels and routes of the pods it tracks.
THEOREM NothingLeftOver ==
    ASSUME StableAddresses
    PROVE  Spec => []QuietExact
  <1>1. Init => ExactInv
    BY AddressAssumption DEF Init, ExactInv, Exact, Holds, Idle
  <1>2. StableInv /\ ExactInv /\ [Next]_vars => ExactInv'
    BY ExactInductive
  <1>3. StableInv /\ ExactInv => QuietExact
    <2> SUFFICES ASSUME StableInv, ExactInv, Quiet, faults = 0, crashes = 0
                 PROVE  /\ links = Supported \cap UNION {podAddrs[k] : k \in tracked}
                        /\ routes = links
      BY DEF QuietExact
    <2>1. Exact /\ job.op = "idle" /\ job.link = {}
      BY DEF ExactInv, Quiet, Idle
    <2>2. \A k, ip : Holds(k, ip) <=> ip \in podAddrs[k]
      BY <2>1 DEF Holds
    <2>3. \A k \in Pods : podAddrs[k] # {} => k \in tracked
      BY DEF StableInv, StableRecord
    <2>4. tracked \subseteq Pods
      BY DEF StableInv, TypeOK
    <2>5. routes = links
      BY <2>1 DEF Exact
    <2>6. links \subseteq Supported \cap UNION {podAddrs[k] : k \in tracked}
      BY <2>1, <2>2, <2>3 DEF Exact
    <2>7. Supported \cap UNION {podAddrs[k] : k \in tracked} \subseteq links
      BY <2>1, <2>2, <2>4 DEF Exact
    <2> QED
      BY <2>5, <2>6, <2>7
  <1> QED
    BY <1>1, <1>2, <1>3, StableInvariant, PTL DEF Spec
=============================================================================
