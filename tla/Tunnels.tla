------------------------------ MODULE Tunnels ------------------------------
(***************************************************************************)
(* What the interface FoUTunnel of pkg/founat/fou.go promises its callers. *)
(*                                                                         *)
(* AddPeer sets up the tunnel to the given peer and returns it, or refuses *)
(* a peer of a family that is not set up; DelPeer deletes the tunnel of    *)
(* the given peer, if any.  A call that fails may have done its work.  No  *)
(* call touches the tunnel of another peer.                                *)
(***************************************************************************)
CONSTANTS IPs,        \* peers
          Supported,  \* the peers of the families that are set up
          NoIP        \* no peer

VARIABLES conn,    \* the peers that have a tunnel
          asked,   \* the call in progress: [op, ip]
          ret,     \* the peer of the tunnel that the last call returned
          err      \* the error that it returned

tvars == <<conn, asked, ret, err>>

NoCall == [op |-> "none", ip |-> NoIP]

Init ==
    /\ conn = {}
    /\ asked = NoCall
    /\ ret = NoIP
    /\ err = "none"

Call(op, ip) ==
    /\ asked = NoCall
    /\ asked' = [op |-> op, ip |-> ip]
    /\ ret' = NoIP
    /\ err' = "none"
    /\ UNCHANGED conn

Connect ==
    /\ asked.op = "AddPeer"
    /\ asked.ip \in Supported
    /\ conn' = conn \cup {asked.ip}
    /\ UNCHANGED <<asked, ret, err>>

ReturnTunnel ==
    /\ asked.op = "AddPeer"
    /\ asked.ip \in conn
    /\ ret' = asked.ip
    /\ asked' = NoCall
    /\ UNCHANGED <<conn, err>>

Mismatch ==
    /\ asked.op = "AddPeer"
    /\ asked.ip \notin Supported
    /\ asked' = NoCall
    /\ err' = "ErrIPFamilyMismatch"
    /\ UNCHANGED <<conn, ret>>

\* The tunnel is gone when DelPeer returns.
Disconnect ==
    /\ asked.op = "DelPeer"
    /\ conn' = conn \ {asked.ip}
    /\ asked' = NoCall
    /\ UNCHANGED <<ret, err>>

Fail ==
    /\ asked # NoCall
    /\ asked' = NoCall
    /\ err' = "failed"
    /\ UNCHANGED <<conn, ret>>

Next ==
    \/ \E ip \in IPs : Call("AddPeer", ip) \/ Call("DelPeer", ip)
    \/ Connect \/ ReturnTunnel \/ Mismatch \/ Disconnect \/ Fail

Spec == Init /\ [][Next]_tvars

=============================================================================
