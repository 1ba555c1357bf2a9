-------------------------- MODULE FoUTunnelProofs --------------------------
(***************************************************************************)
(* Proofs that FoUTunnel implements Tunnels, for any set of peers whose    *)
(* link names differ, that a link is only returned by the call that        *)
(* created it when its device is ready, and that in a network namespace of *)
(* one family every tunnel has its device until a call fails.              *)
(***************************************************************************)
EXTENDS FoUTunnel, TLAPS

\* The next step of setupIPIPDevices is a later one: never LinkByName or
\* LinkAdd again.
LEMMA ProceedStep ==
    ASSUME TypeOK, Proceed
    PROVE  /\ call'.op = call.op /\ call'.ip = call.ip
           /\ call'.pc \in {"create", "configure", "rename", "remove", "return"}
           /\ call' \in [op : {"none", "AddPeer", "DelPeer"}, ip : IPs \cup {NoIP},
                         pc : {"create", "configure", "rename", "remove", "return"}]
           /\ UNCHANGED <<ret, err>>
  <1>1. PICK i \in 1..5 : Goto(Steps(family(call.ip))[i + 1])
    BY DEF Proceed
  <1>2. Steps(family(call.ip))[i + 1] \in
            {"create", "configure", "rename", "remove", "return"}
    <2>1. i \in {1, 2, 3, 4, 5}
      OBVIOUS
    <2> QED
      BY <2>1 DEF Steps
  <1> QED
    BY <1>1, <1>2 DEF Goto, TypeOK

\* A step of setupIPIPDevices counts a failure at most, and remembers a lookup
\* that failed.
LEMMA BudgetStep ==
    ASSUME TypeOK,
           LinkAdd \/ CreateDevice \/ configureDevice \/ renameDevice \/ removeDevice
    PROVE  /\ faults' \in 0..MaxFaults
           /\ missed' \subseteq {"rename", "remove"}
           /\ faults' = 0 => faults = 0 /\ missed' = missed
           /\ missed \subseteq missed'
           /\ missed' # missed => faults' > 0
  <1>1. CASE UNCHANGED budget
    BY <1>1 DEF budget, TypeOK
  <1>2. CASE LookupFails /\ call.pc \in {"rename", "remove"}
    <2>1. faults' \in 0..MaxFaults /\ faults' > 0
      BY <1>2, LocalAssumption DEF LookupFails, TypeOK
    <2>2. missed' \subseteq {"rename", "remove"} /\ missed \subseteq missed'
      BY <1>2 DEF LookupFails, TypeOK
    <2> QED
      BY <2>1, <2>2
  <1> QED
    BY <1>1, <1>2 DEF LinkAdd, CreateDevice, configureDevice, renameDevice, removeDevice, At

\* The invariant of the refinement survives every step.
LEMMA TunnelInductive ==
    ASSUME NamesInjective, TunnelInv, [Next]_vars
    PROVE  TunnelInv'
  <1> USE DEF TunnelInv
  <1>0. Idle.op = "none"
    BY DEF Idle
  <1>1. ASSUME NEW op \in {"AddPeer", "DelPeer"}, NEW ip \in IPs, Call(op, ip)
        PROVE  TunnelInv'
    BY <1>1 DEF Call, TypeOK, kernel
  <1>2. ASSUME call' = Idle, ret' \in IPs \cup {NoIP}, faults' \in 0..MaxFaults,
               missed' \subseteq {"rename", "remove"},
               err' \in {"none", "ErrIPFamilyMismatch", "failed"}, UNCHANGED kernel
        PROVE  TunnelInv'
    BY <1>0, <1>2 DEF TypeOK, kernel, Idle
  <1>3. CASE FamilyMismatch \/ ReturnExisting \/ ReturnNew
    <2>1. link[fouName[call.ip]] \in IPs \cup {NoIP}
      BY <1>3 DEF FamilyMismatch, ReturnExisting, ReturnNew, At, TypeOK, Names
    <2> QED
      BY <1>2, <1>3, <2>1 DEF FamilyMismatch, ReturnExisting, ReturnNew, Return, TypeOK,
                              budget
  <1>4. CASE NotFound
    BY <1>4 DEF NotFound, At, Goto, kernel, budget, TypeOK
  <1>5. CASE LinkAdd
    <2>1. /\ link' = [link EXCEPT ![fouName[call.ip]] = call.ip] /\ device' = device
          /\ call.ip \in IPs /\ call.op = "AddPeer" /\ call.ip \in Supported
      BY <1>5 DEF LinkAdd, At
    <2>2. /\ link' \in [Names -> IPs \cup {NoIP}]
          /\ \A ip \in IPs : link'[fouName[ip]] \in {NoIP, ip}
          /\ link'[fouName[call.ip]] = call.ip
      BY <2>1 DEF TypeOK, Names, NamesInjective
    <2>3. fallback' \in [Families -> {"none", "present", "renamed"}]
      BY <1>5 DEF LinkAdd, TypeOK
    <2> QED
      BY <1>5, <2>1, <2>2, <2>3, ProceedStep, BudgetStep DEF LinkAdd, TypeOK
  <1>6. CASE CreateDevice \/ configureDevice \/ renameDevice \/ removeDevice
    <2>1. /\ Proceed /\ link' = link /\ call.op = "AddPeer"
          /\ call.pc \notin {"LinkByName", "LinkAdd"}
      BY <1>6 DEF CreateDevice, configureDevice, renameDevice, removeDevice, At
    <2>2. device' \in [Families -> {"none", "down", "up"}]
      BY <1>6 DEF CreateDevice, configureDevice, renameDevice, removeDevice, TypeOK
    <2>3. fallback' \in [Families -> {"none", "present", "renamed"}]
      BY <1>6 DEF CreateDevice, configureDevice, renameDevice, removeDevice, TypeOK
    <2> QED
      BY <1>6, <2>1, <2>2, <2>3, ProceedStep, BudgetStep DEF TypeOK
  <1>7. CASE DelPeer
    <2>1. /\ link' \in [Names -> IPs \cup {NoIP}]
          /\ \A ip \in IPs : link'[fouName[ip]] \in {NoIP, ip}
      BY <1>7 DEF DelPeer, TypeOK, Names
    <2> QED
      BY <1>0, <1>7, <2>1 DEF DelPeer, Return, TypeOK, Idle, budget
  <1>8. CASE Fail
    BY <1>2, <1>8, LocalAssumption DEF Fail, TypeOK
  <1>9. CASE UNCHANGED vars
    BY <1>9 DEF vars, kernel, budget, TypeOK
  <1> QED
    BY <1>1, <1>3, <1>4, <1>5, <1>6, <1>7, <1>8, <1>9 DEF Next

\* Every step of FoUTunnel is a step of Tunnels or a stutter.
LEMMA TunnelStep ==
    ASSUME NamesInjective, TunnelInv, [Next]_vars
    PROVE  [Tunnel!Next]_(Tunnel!tvars)
  <1> USE DEF TunnelInv
  <1> DEFINE conn  == {ip \in IPs : link[fouName[ip]] = ip}
             asked == [op |-> call.op, ip |-> call.ip]
  <1>0. /\ Idle.op = "none" /\ Idle.ip = NoIP
        /\ Tunnel!NoCall = [op |-> "none", ip |-> NoIP]
        /\ asked.op = call.op /\ asked.ip = call.ip
    BY DEF Idle, Tunnel!NoCall
  <1>1. ASSUME NEW op \in {"AddPeer", "DelPeer"}, NEW ip \in IPs, Call(op, ip)
        PROVE  Tunnel!Next
    <2>1. Tunnel!Call(op, ip)
      BY <1>0, <1>1 DEF Call, kernel, Tunnel!Call
    <2> QED
      BY <2>1 DEF Tunnel!Next
  <1>2. CASE FamilyMismatch
    BY <1>0, <1>2 DEF FamilyMismatch, At, Return, kernel, Tunnel!Mismatch, Tunnel!Next
  <1>3. CASE ReturnExisting
    BY <1>0, <1>3 DEF ReturnExisting, Exists, At, Return, kernel, Tunnel!ReturnTunnel,
                      Tunnel!Next
  <1>4. CASE ReturnNew
    BY <1>0, <1>4 DEF ReturnNew, At, Return, kernel, Tunnel!ReturnTunnel, Tunnel!Next
  <1>5. CASE NotFound
    BY <1>5 DEF NotFound, Goto, kernel, TypeOK, Tunnel!tvars
  <1>6. CASE LinkAdd
    <2>1. /\ link' = [link EXCEPT ![fouName[call.ip]] = call.ip]
          /\ call.ip \in IPs /\ call.op = "AddPeer" /\ call.ip \in Supported
      BY <1>6 DEF LinkAdd, At
    <2>2. conn' = conn \cup {call.ip}
      BY <2>1 DEF TypeOK, Names, NamesInjective
    <2>3. UNCHANGED <<asked, ret, err>>
      BY <1>6, ProceedStep DEF LinkAdd
    <2> QED
      BY <1>0, <2>1, <2>2, <2>3 DEF Tunnel!Connect, Tunnel!Next
  <1>7. CASE CreateDevice \/ configureDevice \/ renameDevice \/ removeDevice
    <2>1. Proceed /\ link' = link
      BY <1>7 DEF CreateDevice, configureDevice, renameDevice, removeDevice
    <2> QED
      BY <2>1, ProceedStep DEF Tunnel!tvars
  <1>8. CASE DelPeer
    <2>1. /\ link' = [link EXCEPT ![fouName[call.ip]] = NoIP]
          /\ call.ip \in IPs /\ call.op = "DelPeer" /\ call' = Idle /\ ret' = ret /\ err' = err
      BY <1>8 DEF DelPeer, At, Return
    <2>2. conn' = conn \ {call.ip}
      BY <2>1, IPAssumption DEF TypeOK, Names, NamesInjective
    <2> QED
      BY <1>0, <2>1, <2>2 DEF Tunnel!Disconnect, Tunnel!Next
  <1>9. CASE Fail
    BY <1>0, <1>9 DEF Fail, kernel, Tunnel!Fail, Tunnel!Next
  <1>10. CASE UNCHANGED vars
    BY <1>10 DEF vars, kernel, Tunnel!tvars
  <1> QED
    BY <1>1, <1>2, <1>3, <1>4, <1>5, <1>6, <1>7, <1>8, <1>9, <1>10 DEF Next

\* AddPeer and DelPeer keep the promises of the interface FoUTunnel as long
\* as no two peers have the same link name: which IPv4 names guarantee, and
\* IPv6 names, being hashes, do not.
THEOREM Refinement ==
    ASSUME NamesInjective
    PROVE  Spec => ImplementsTunnels
  <1>1. Init => TunnelInv
    BY LocalAssumption DEF Init, TunnelInv, TypeOK, Idle, Names
  <1>2. Init => Tunnel!Init
    BY IPAssumption DEF Init, Idle, Names, Tunnel!Init, Tunnel!NoCall
  <1>3. TunnelInv /\ [Next]_vars => TunnelInv'
    BY TunnelInductive
  <1>4. TunnelInv /\ [Next]_vars => [Tunnel!Next]_(Tunnel!tvars)
    BY TunnelStep
  <1> QED
    BY <1>1, <1>2, <1>3, <1>4, PTL DEF Spec, ImplementsTunnels, Tunnel!Spec

-----------------------------------------------------------------------------
\* Where Proceed leads to from each step.
LEMMA ProceedTo ==
    ASSUME TypeOK, Proceed
    PROVE  /\ call'.op = call.op /\ call'.ip = call.ip
           /\ call.pc = "LinkAdd" => call'.pc \in {"create", "remove"}
           /\ call.pc = "LinkAdd" /\ family(call.ip) = 4 => call'.pc = "create"
           /\ call.pc = "create" => call'.pc = "configure"
           /\ call.pc = "configure" => call'.pc = "rename"
           /\ call.pc = "rename" =>
                 call'.pc = IF family(call.ip) = 4 THEN "remove" ELSE "return"
           /\ call.pc = "remove" =>
                 call'.pc = IF family(call.ip) = 4 THEN "return" ELSE "create"
  <1>1. PICK i \in 1..5 : /\ call.pc = Steps(family(call.ip))[i]
                          /\ Goto(Steps(family(call.ip))[i + 1])
    BY DEF Proceed
  <1>2. i \in {1, 2, 3, 4, 5}
    OBVIOUS
  <1>3. call'.op = call.op /\ call'.ip = call.ip
        /\ call'.pc = Steps(family(call.ip))[i + 1]
    BY <1>1 DEF Goto, TypeOK
  <1>4. CASE family(call.ip) = 4
    BY <1>1, <1>2, <1>3, <1>4 DEF Steps
  <1>5. CASE family(call.ip) # 4
    BY <1>1, <1>2, <1>3, <1>5 DEF Steps
  <1> QED
    BY <1>4, <1>5

\* The devices of a call in progress are ready as far as the call is.
LEMMA ReadyInductive ==
    ASSUME TypeOK, ReadyInv, [Next]_vars
    PROVE  ReadyInv'
  <1> USE DEF ReadyInv
  <1>1. \A ip : family(ip) \in Families /\ other(family(ip)) \in Families
                /\ other(family(ip)) # family(ip)
    BY DEF family, other, Families
  <1>2. CASE \E ip \in IPs : Call("AddPeer", ip) \/ Call("DelPeer", ip)
    BY <1>2 DEF Call
  <1>3. CASE FamilyMismatch \/ ReturnExisting \/ ReturnNew \/ DelPeer \/ Fail
    BY <1>3 DEF FamilyMismatch, ReturnExisting, ReturnNew, DelPeer, Fail, Return, Idle
  <1>4. CASE NotFound
    BY <1>4 DEF NotFound, Goto, TypeOK
  <1>5. CASE LinkAdd
    BY <1>5, ProceedTo DEF LinkAdd, At
  <1>6. CASE CreateDevice
    BY <1>6, ProceedTo DEF CreateDevice, At
  <1>7. CASE configureDevice
    <2>1. device'[family(call.ip)] = "up"
      BY <1>1, <1>7 DEF configureDevice, TypeOK
    <2> QED
      BY <1>7, <2>1, ProceedTo DEF configureDevice, At
  <1>8. CASE renameDevice
    <2>1. /\ fallback'[family(call.ip)] # "present" \/ "rename" \in missed'
          /\ device' = device
      BY <1>1, <1>8 DEF renameDevice, LookupFails, At, TypeOK
    <2> QED
      BY <1>8, <2>1, ProceedTo DEF renameDevice, At
  <1>9. CASE removeDevice
    <2>1. device'[family(call.ip)] = device[family(call.ip)] /\ fallback' = fallback
      BY <1>1, <1>9 DEF removeDevice, TypeOK
    <2> QED
      BY <1>9, <2>1, ProceedTo, BudgetStep DEF removeDevice, At
  <1>10. CASE UNCHANGED vars
    BY <1>10 DEF vars, kernel, budget
  <1> QED
    BY <1>2, <1>3, <1>4, <1>5, <1>6, <1>7, <1>8, <1>9, <1>10 DEF Next

\* The types survive every step, also when link names are not distinct.
LEMMA CallInductive ==
    ASSUME CallInv, [Next]_vars
    PROVE  CallInv'
  <1> USE DEF CallInv
  <1>1. Idle.op = "none" /\ Idle \in [op : {"none"}, ip : {NoIP}, pc : {"none"}]
    BY DEF Idle
  <1>2. ASSUME NEW op \in {"AddPeer", "DelPeer"}, NEW ip \in IPs, Call(op, ip)
        PROVE  CallInv'
    BY <1>2 DEF Call, TypeOK, kernel
  <1>3. CASE FamilyMismatch \/ ReturnExisting \/ ReturnNew
    <2>1. link[fouName[call.ip]] \in IPs \cup {NoIP}
      BY <1>3 DEF FamilyMismatch, ReturnExisting, ReturnNew, At, TypeOK, Names
    <2> QED
      BY <1>1, <1>3, <2>1 DEF FamilyMismatch, ReturnExisting, ReturnNew, Return, TypeOK,
                              kernel, budget
  <1>4. CASE NotFound
    BY <1>4 DEF NotFound, Goto, kernel, budget, TypeOK
  <1>5. CASE LinkAdd \/ CreateDevice \/ configureDevice \/ renameDevice \/ removeDevice
    <2>1. Proceed
      BY <1>5 DEF LinkAdd, CreateDevice, configureDevice, renameDevice, removeDevice
    <2>2. link' \in [Names -> IPs \cup {NoIP}]
      BY <1>5 DEF LinkAdd, CreateDevice, configureDevice, renameDevice, removeDevice, TypeOK
    <2>3. device' \in [Families -> {"none", "down", "up"}]
      BY <1>5 DEF LinkAdd, CreateDevice, configureDevice, renameDevice, removeDevice, TypeOK
    <2>4. fallback' \in [Families -> {"none", "present", "renamed"}]
      BY <1>5 DEF LinkAdd, CreateDevice, configureDevice, renameDevice, removeDevice, TypeOK
    <2> QED
      BY <1>5, <2>1, <2>2, <2>3, <2>4, ProceedStep, BudgetStep DEF TypeOK
  <1>6. CASE DelPeer
    <2>1. link' \in [Names -> IPs \cup {NoIP}]
      BY <1>6 DEF DelPeer, TypeOK
    <2> QED
      BY <1>1, <1>6, <2>1 DEF DelPeer, Return, TypeOK, budget
  <1>7. CASE Fail
    BY <1>1, <1>7, LocalAssumption DEF Fail, TypeOK, kernel
  <1>8. CASE UNCHANGED vars
    BY <1>8 DEF vars, kernel, budget, TypeOK
  <1> QED
    BY <1>2, <1>3, <1>4, <1>5, <1>6, <1>7, <1>8 DEF Next

\* A call of AddPeer that creates a link returns it with its family's device
\* up, and with the fallback device out of the way unless its lookup failed, in
\* single-stack and dual-stack network namespaces alike and whatever calls
\* failed before it.
THEOREM NewLinksReady == Spec => CreatedReady
  <1>1. Init => CallInv /\ ReadyInv
    BY LocalAssumption DEF Init, CallInv, ReadyInv, TypeOK, Idle, Names
  <1>2. CallInv /\ ReadyInv /\ [Next]_vars => CallInv' /\ ReadyInv'
    BY CallInductive, ReadyInductive DEF CallInv
  <1>3. ReadyInv => [ReturnNew => /\ device[family(call.ip)] = "up"
                                  /\ \/ fallback[family(call.ip)] # "present"
                                     \/ "rename" \in missed]_vars
    BY DEF ReadyInv, ReturnNew, At
  <1> QED
    BY <1>1, <1>2, <1>3, PTL DEF Spec, CreatedReady

-----------------------------------------------------------------------------
\* With one family, what is ready stays ready until a call fails.
LEMMA SingleInductive ==
    ASSUME \A f, g \in Local : f = g, CallInv, ReadyInv, SingleInv, [Next]_vars
    PROVE  SingleInv'
  <1> USE DEF SingleInv
  <1>0. /\ TypeOK /\ (call.op # "none" => call.ip \in IPs)
        /\ Idle.pc = "none" /\ Idle.op = "none"
    BY DEF CallInv, Idle
  <1>1. \A ip : ip \in Supported => family(ip) \in Local
    BY DEF Supported
  <1>2. ASSUME NEW op \in {"AddPeer", "DelPeer"}, NEW ip \in IPs, Call(op, ip)
        PROVE  SingleInv'
    BY <1>0, <1>2 DEF Call, kernel, FamilyReady, Idle
  <1>3. CASE FamilyMismatch \/ ReturnExisting
    <2>1. /\ UNCHANGED <<kernel, budget>> /\ call' = Idle /\ call.pc = "LinkByName"
      BY <1>3 DEF FamilyMismatch, ReturnExisting, Return, At
    <2> QED
      BY <1>0, <2>1 DEF kernel, budget, FamilyReady
  <1>4. CASE NotFound
    <2>1. /\ UNCHANGED <<kernel, budget>> /\ call.pc = "LinkByName"
          /\ call.ip \in Supported /\ call'.ip = call.ip /\ call'.pc = "LinkAdd"
      BY <1>0, <1>4 DEF NotFound, Goto, At, TypeOK
    <2> QED
      BY <1>0, <2>1 DEF kernel, budget, FamilyReady
  <1>5. CASE LinkAdd
    <2>1. /\ call.ip \in Supported /\ link' = [link EXCEPT ![fouName[call.ip]] = call.ip]
          /\ UNCHANGED budget /\ Proceed
      BY <1>5 DEF LinkAdd, At
    <2>2. \A ip \in IPs : link'[fouName[ip]] = ip => ip \in Supported
      BY <1>0, <2>1 DEF TypeOK, Names
    <2>3. /\ call'.ip = call.ip
          /\ call'.pc \notin {"none", "LinkByName", "LinkAdd"}
      BY <1>0, <2>1, ProceedStep
    <2> QED
      BY <2>1, <2>2, <2>3 DEF budget
  <1>6. CASE CreateDevice \/ configureDevice \/ renameDevice \/ removeDevice
    <2>1. /\ Proceed /\ link' = link /\ call.op = "AddPeer" /\ call.pc # "LinkByName"
      BY <1>6 DEF CreateDevice, configureDevice, renameDevice, removeDevice, At
    <2>2. /\ call'.ip = call.ip
          /\ call'.pc \notin {"none", "LinkByName", "LinkAdd"}
      BY <1>0, <2>1, ProceedStep
    <2>3. missed' # {} => faults' > 0
      BY <1>0, <1>6, BudgetStep DEF TypeOK
    <2> QED
      BY <2>1, <2>2, <2>3
  <1>7. CASE ReturnNew
    <2>1. /\ UNCHANGED <<kernel, budget>> /\ call' = Idle
          /\ call.op = "AddPeer" /\ call.pc = "return" /\ call.ip \in Supported
      BY <1>7 DEF ReturnNew, Return, At
    <2>2. faults = 0 => FamilyReady(family(call.ip))
      BY <1>0, <2>1 DEF ReadyInv, FamilyReady, TypeOK
    <2>3. \A ip \in IPs : link[fouName[ip]] = ip => family(ip) = family(call.ip)
      BY <1>1, <2>1
    <2> QED
      BY <1>0, <2>1, <2>2, <2>3 DEF kernel, budget, FamilyReady
  <1>8. CASE DelPeer
    <2>1. /\ link' = [link EXCEPT ![fouName[call.ip]] = NoIP] /\ call.ip \in IPs
          /\ UNCHANGED <<device, fallback, budget>> /\ call' = Idle
          /\ call.pc = "LinkByName"
      BY <1>0, <1>8 DEF DelPeer, Return, At
    <2>2. \A ip \in IPs : link'[fouName[ip]] = ip => link[fouName[ip]] = ip
      BY <1>0, <2>1, IPAssumption DEF TypeOK, Names
    <2> QED
      BY <1>0, <2>1, <2>2 DEF budget, FamilyReady
  <1>9. CASE Fail
    <2>1. faults' > 0 /\ call' = Idle /\ UNCHANGED <<kernel, missed>>
      BY <1>0, <1>9 DEF Fail, TypeOK
    <2> QED
      BY <1>0, <2>1 DEF kernel
  <1>10. CASE UNCHANGED vars
    BY <1>10 DEF vars, kernel, budget, FamilyReady
  <1> QED
    BY <1>2, <1>3, <1>4, <1>5, <1>6, <1>7, <1>8, <1>9, <1>10 DEF Next

\* In a network namespace of one family, as long as no netlink call has failed,
\* every tunnel has its receiving device between two calls, for any number of
\* peers that come and go.
THEOREM SingleStackDevices == Spec => []SingleStackReady
  <1> DEFINE OneFamily == \A f, g \in Local : f = g
  <1>1. Init => CallInv /\ ReadyInv /\ (OneFamily => SingleInv)
    BY LocalAssumption, IPAssumption
       DEF Init, CallInv, ReadyInv, SingleInv, TypeOK, Idle, Names
  <1>2. CallInv /\ ReadyInv /\ (OneFamily => SingleInv) /\ [Next]_vars
            => CallInv' /\ ReadyInv' /\ (OneFamily => SingleInv)'
    BY CallInductive, ReadyInductive, SingleInductive DEF CallInv
  <1>3. (OneFamily => SingleInv) => SingleStackReady
    BY DEF SingleInv, SingleStackReady, DevicePerFamily, FamilyReady, Idle
  <1> QED
    BY <1>1, <1>2, <1>3, PTL DEF Spec
=============================================================================
