------------------------------ MODULE Ingress ------------------------------
(***************************************************************************)
(* Ingress tunnels to workloads (internal/ingress, Manager).               *)
(*                                                                         *)
(* CreateTunnel makes the tunnel, named after workload and second, before  *)
(* it takes the lock to register it.  Callers keep a pointer to the tunnel *)
(* (its IsActive changes under them), so tunnels are a sequence of objects *)
(* and the manager's map holds positions in it.                            *)
(***************************************************************************)
EXTENDS WallClock, Sequences

CONSTANTS
    TunnelCalls,        \* goroutines in CreateTunnel
    TunnelWorkloads,
    TargetPorts,        \* ports asked for
    MaxTunnels          \* bound on the tunnels made

ASSUME IngressAssumption == TargetPorts \subseteq Int /\ MaxTunnels \in Nat

VARIABLES
    made,               \* every tunnel made, oldest first
    tunnels,            \* tunnel identifier -> position in made
    tunnelCall          \* tunnelCall[c]: the tunnel c is about to register, or 0

ingressVars == <<made, tunnels, tunnelCall>>

MaxPort == 65535

IngressTypeOK ==
    /\ \A i \in DOMAIN made : /\ made[i].workload \in TunnelWorkloads
                              /\ made[i].second \in 0 .. MaxSeconds
                              /\ made[i].port \in 1 .. MaxPort
                              /\ made[i].active \in BOOLEAN
    /\ \A id \in DOMAIN tunnels : tunnels[id] \in DOMAIN made
    /\ tunnelCall \in [TunnelCalls -> 0 .. Len(made)]

IngressInit == /\ made = <<>> /\ tunnels = [id \in {} |-> 0]
               /\ tunnelCall = [c \in TunnelCalls |-> 0]

\* tun-<workload>-<second>
TunnelID(i) == <<made[i].workload, made[i].second>>

ValidPort(port) == ~(port <= 0 \/ port > MaxPort)

MakeTunnel(c, w, port) ==
    /\ tunnelCall[c] = 0 /\ Len(made) < MaxTunnels
    /\ ValidPort(port)
    /\ made' = Append(made, [workload |-> w, second |-> second, port |-> port, active |-> TRUE])
    /\ tunnelCall' = [tunnelCall EXCEPT ![c] = Len(made) + 1]
    /\ UNCHANGED tunnels

\* m.tunnels[tunnelID] = tunnel, under the lock.
RegisterTunnel(c) ==
    LET i == tunnelCall[c] IN
    /\ i # 0
    /\ tunnels' = [id \in DOMAIN tunnels \cup {TunnelID(i)} |->
                     IF id = TunnelID(i) THEN i ELSE tunnels[id]]
    /\ tunnelCall' = [tunnelCall EXCEPT ![c] = 0]
    /\ UNCHANGED made

\* Mutant: the tunnel is dropped from the map and stays active.
CloseKeepsActive(id) ==
    /\ id \in DOMAIN tunnels
    /\ tunnels' = [j \in DOMAIN tunnels \ {id} |-> tunnels[j]]
    /\ UNCHANGED <<made, tunnelCall>>

\* ErrTunnelNotFound otherwise.
CloseTunnel(id) ==
    /\ id \in DOMAIN tunnels
    /\ made' = [made EXCEPT ![tunnels[id]].active = FALSE]
    /\ tunnels' = [j \in DOMAIN tunnels \ {id} |-> tunnels[j]]
    /\ UNCHANGED tunnelCall

ListTunnels == {made[tunnels[id]] : id \in DOMAIN tunnels}

IngressNext ==
    \/ \E c \in TunnelCalls : \/ RegisterTunnel(c)
                              \/ \E w \in TunnelWorkloads, p \in TargetPorts : MakeTunnel(c, w, p)
    \/ \E id \in DOMAIN tunnels : CloseTunnel(id)

-----------------------------------------------------------------------------
(* Properties *)

Registered(i) == \A c \in TunnelCalls : tunnelCall[c] # i

\* What is listed is active; and a tunnel CreateTunnel has returned is open
\* only while its identifier closes it, unless another tunnel to its workload
\* was made in the same second.  (Then the earlier of the two registered can
\* be closed by nobody.)
TunnelsClosable ==
    /\ \A t \in ListTunnels : t.active
    /\ \A i \in DOMAIN made : made[i].active /\ Registered(i) =>
          \/ TunnelID(i) \in DOMAIN tunnels /\ tunnels[TunnelID(i)] = i
          \/ \E j \in DOMAIN made \ {i} : TunnelID(j) = TunnelID(i)
=============================================================================
