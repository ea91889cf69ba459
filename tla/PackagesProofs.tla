--------------------------- MODULE PackagesProofs ---------------------------
(***************************************************************************)
(* Proofs about the packages beside the storage network.  The packages     *)
(* share no state, so each has an inductive invariant of its own, and a    *)
(* step of PackagesNext is for each of them a step of its own or none.     *)
(***************************************************************************)
EXTENDS CodingProofs

\* A step of the whole is, for the invites, a step of theirs or none.
LEMMA InviteSteps == [PackagesNext]_allVars => [Next]_vars
  BY DEF PackagesNext, allVars, InviteMoves, RoutingMoves, SchedulerMoves, ComputeMoves,
         SnapshotMoves, IngressMoves, DesktopMoves, CodingMoves

\* The same for the snapshots, whose clock is also the tunnels'.
LEMMA SnapshotSteps ==
    [PackagesNext]_allVars =>
       \/ SnapshotNext /\ UNCHANGED second
       \/ SecondPasses /\ UNCHANGED snapshotVars
       \/ UNCHANGED <<second, snapshotVars>>
  BY DEF PackagesNext, allVars, InviteMoves, RoutingMoves, SchedulerMoves, ComputeMoves,
         SnapshotMoves, IngressMoves, DesktopMoves, CodingMoves

\* And for the tunnels.
LEMMA IngressSteps ==
    [PackagesNext]_allVars =>
       \/ IngressNext /\ UNCHANGED second
       \/ SecondPasses /\ UNCHANGED ingressVars
       \/ UNCHANGED <<second, ingressVars>>
  BY DEF PackagesNext, allVars, InviteMoves, RoutingMoves, SchedulerMoves, ComputeMoves,
         SnapshotMoves, IngressMoves, DesktopMoves, CodingMoves

\* For the desktop application.
LEMMA DesktopSteps == [PackagesNext]_allVars => [DesktopNext]_desktopVars
  BY DEF PackagesNext, allVars, InviteMoves, RoutingMoves, SchedulerMoves, ComputeMoves,
         SnapshotMoves, IngressMoves, DesktopMoves, CodingMoves

\* For the routing table.
LEMMA RoutingSteps == [PackagesNext]_allVars => [RoutingNext]_routingVars
  BY DEF PackagesNext, allVars, InviteMoves, RoutingMoves, SchedulerMoves, ComputeMoves,
         SnapshotMoves, IngressMoves, DesktopMoves, CodingMoves

\* The scheduler moves on its own, or under the commands that use it.
LEMMA ComputeSteps ==
    [PackagesNext]_allVars =>
       \/ /\ focus = "scheduler" /\ SchedulerNext
          /\ UNCHANGED <<runtimeVars, deploy, approved, focus>>
       \/ focus = "compute" /\ ComputeNext /\ UNCHANGED focus
       \/ UNCHANGED <<computeVars, focus>>
  BY DEF PackagesNext, allVars, computeVars, InviteMoves, RoutingMoves, SchedulerMoves,
         ComputeMoves, SnapshotMoves, IngressMoves, DesktopMoves, CodingMoves

-----------------------------------------------------------------------------
(* Invites *)

Tokens == [text : Texts, split : {0}, mac : [key : Signers, text : Texts]]

\* A token is signed for the text it was issued with, names a network that
\* was created, and has an identifier no other token has.
IssuedOK ==
    /\ issued \subseteq Tokens
    /\ IsFiniteSet(issued) /\ Cardinality(issued) <= MaxTokens
    /\ \A t \in issued : /\ t.mac.text = t.text
                         /\ t.text.id <= Cardinality(issued)
                         /\ <<t.text.addr, t.text.key>> \in nets
    /\ \A t, u \in issued : t.text.id = u.text.id => t = u

\* A call past the signature check is for the text of a token that was issued.
CallsOK == \A c \in Calls :
    \/ call[c] = Idle
    \/ \E t \in issued : \E k \in Splits(t.text.addr) :
          call[c] = [pc |-> "use", id |-> <<t.text.id, k>>, maxUses |-> t.text.maxUses]

\* The uses counted are the uses accepted, none of a token not yet issued.
UsageOK == /\ usage = accepted
           /\ \A i \in TokenIDs : i[1] > Cardinality(issued) => accepted[i] = 0

InviteShape ==
    /\ clock \in 0 .. MaxTime /\ nets \subseteq Addrs \X Draw
    /\ app \in [Apps -> {NoNetwork} \cup {Network(x, k) : x \in Addrs \X AnySplit, k \in Draw}]
    /\ usage \in [TokenIDs -> 0 .. MaxAccepts] /\ accepted \in [TokenIDs -> 0 .. MaxAccepts]

InviteInv == /\ InviteShape /\ call = [c \in Calls |-> call[c]]
             /\ IssuedOK /\ CallsOK /\ UsageOK
             /\ UsesBounded /\ AddressMatchesKey

\* An identifier under which a token may be presented is one that is counted.
LEMMA SplitsCounted ==
    ASSUME NEW n \in Draw, NEW x \in Addrs, NEW k \in Splits(x)
    PROVE  k \in AnySplit /\ <<n, k>> \in TokenIDs /\ <<n, k>>[1] = n
<1>1. k \in AnySplit
  BY DEF AnySplit
<1> QED
  BY <1>1 DEF TokenIDs

\* The whole of an address is one way to split it.
LEMMA WholeIsSplit ==
    ASSUME InviteAssumption, NEW x \in Addrs
    PROVE  0 \in Splits(x)
<1>1. Colons[x] \in Nat
  BY DEF InviteAssumption
<1> QED
  BY <1>1 DEF Splits

\* A token that verifies has the text of one that was issued, and one of the
\* splits of that text, however the token presented was altered.
LEMMA VerifiedWasIssued ==
    ASSUME IssuedOK, InviteAssumption, NEW t \in Presented, NEW signer, Verifies(signer, t)
    PROVE  \E u \in issued : u.text = t.text /\ t.split \in Splits(u.text.addr)
<1>1. t.mac.text = t.text
  BY DEF Verifies, computeMAC
<1>2. \E u \in issued : t.mac = u.mac /\ (t.split = 0 \/ t.split \in Splits(u.text.addr))
  <2>1. CASE t \in issued
    BY <2>1 DEF IssuedOK, Tokens
  <2>2. ASSUME NEW u \in issued,
               \/ \E m \in UseLimits : t = [u EXCEPT !.text.maxUses = m]
               \/ t = [u EXCEPT !.text.expires = MaxTime]
               \/ \E x \in Addrs : t = [u EXCEPT !.text.addr = x]
        PROVE  t.mac = u.mac /\ t.split = 0
    <3>1. u \in Tokens
      BY DEF IssuedOK
    <3> QED
      BY <2>2, <3>1 DEF Tokens
  <2>3. ASSUME NEW u \in issued, NEW k \in Splits(u.text.addr), t = [u EXCEPT !.split = k]
        PROVE  t.mac = u.mac /\ t.split \in Splits(u.text.addr)
    <3>1. u \in Tokens
      BY DEF IssuedOK
    <3> QED
      BY <2>3, <3>1 DEF Tokens
  <2> QED
    BY <2>1, <2>2, <2>3 DEF Presented
<1>3. PICK u \in issued : t.mac = u.mac /\ (t.split = 0 \/ t.split \in Splits(u.text.addr))
  BY <1>2
<1>4. u.mac.text = u.text /\ u.text.addr \in Addrs
  BY DEF IssuedOK, Tokens, Texts
<1>5. 0 \in Splits(u.text.addr)
  BY <1>4, WholeIsSplit
<1> QED
  BY <1>1, <1>3, <1>4, <1>5

\* CreateToken adds one token for a network that is there by then, with the
\* next identifier.
LEMMA CreateTokenOK ==
    ASSUME IssuedOK, InviteAssumption, clock \in Nat, Cardinality(issued) < MaxTokens,
           NEW signer \in Signers, NEW addr \in Addrs, NEW key \in Draw, NEW m \in Nat,
           CreateToken(signer, addr, key, m), nets \subseteq nets', <<addr, key>> \in nets'
    PROVE  /\ IssuedOK'
           /\ Cardinality(issued') = Cardinality(issued) + 1
           /\ issued \subseteq issued'
           /\ \A t \in issued' \ issued : t.text.id = Cardinality(issued) + 1
<1> DEFINE f == [id |-> Cardinality(issued) + 1, addr |-> addr, key |-> key,
                 expires |-> clock + TTL, maxUses |-> m]
           t == Sign(signer, f)
<1>c. Cardinality(issued) \in Nat
  BY FS_CardinalityType DEF IssuedOK
<1>1. f \in Texts
  BY <1>c DEF Texts, Draw, InviteAssumption
<1>2. /\ t \in Tokens /\ t.text = f /\ t.mac.text = f
  BY <1>1 DEF Sign, computeMAC, Tokens
<1>3. issued' = issued \cup {t}
  BY DEF CreateToken
<1>4. f.id = Cardinality(issued) + 1 /\ f.addr = addr /\ f.key = key
  OBVIOUS
<1> HIDE DEF f, t
<1>5. t \notin issued
  BY <1>c, <1>2, <1>4 DEF IssuedOK
<1>6. IsFiniteSet(issued') /\ Cardinality(issued') = Cardinality(issued) + 1
  BY <1>3, <1>5, FS_AddElement DEF IssuedOK
<1>7. \A u \in issued : /\ u.text.id \in Nat /\ u.text.id <= Cardinality(issued)
                        /\ u.mac.text = u.text
                        /\ <<u.text.addr, u.text.key>> \in nets
  <2> SUFFICES ASSUME NEW u \in issued
               PROVE  /\ u.text.id \in Nat /\ u.text.id <= Cardinality(issued)
                      /\ u.mac.text = u.text
                      /\ <<u.text.addr, u.text.key>> \in nets
    OBVIOUS
  <2>1. u \in Tokens
    BY DEF IssuedOK
  <2>2. u.text.id \in Draw
    BY <2>1 DEF Tokens, Texts
  <2>3. u.text.id \in Nat
    BY <2>2 DEF Draw, InviteAssumption
  <2> QED
    BY <2>3 DEF IssuedOK
<1>8. IssuedOK'
  <2>1. issued' \subseteq Tokens
    BY <1>2, <1>3 DEF IssuedOK
  <2>2. \A u \in issued' : /\ u.mac.text = u.text
                           /\ u.text.id <= Cardinality(issued')
                           /\ <<u.text.addr, u.text.key>> \in nets'
    <3>1. ASSUME NEW u \in issued
          PROVE  /\ u.mac.text = u.text
                 /\ u.text.id <= Cardinality(issued')
                 /\ <<u.text.addr, u.text.key>> \in nets'
      BY <1>c, <1>6, <1>7
    <3>2. /\ t.mac.text = t.text
          /\ t.text.id <= Cardinality(issued')
          /\ <<t.text.addr, t.text.key>> \in nets'
      BY <1>c, <1>2, <1>4, <1>6
    <3> QED
      BY <1>3, <3>1, <3>2
  <2>3. ASSUME NEW u \in issued', NEW v \in issued', u.text.id = v.text.id PROVE u = v
    <3>1. t.text.id = Cardinality(issued) + 1
      BY <1>2, <1>4
    <3>2. ASSUME NEW w \in issued PROVE w.text.id # t.text.id
      <4>1. w.text.id \in Nat /\ w.text.id <= Cardinality(issued)
        BY <1>7
      <4>2. w.text.id # Cardinality(issued) + 1
        BY <1>c, <4>1
      <4> QED
        BY <3>1, <4>2
    <3> QED
      BY <1>3, <2>3, <3>2 DEF IssuedOK
  <2>4. Cardinality(issued') <= MaxTokens
    BY <1>c, <1>6 DEF InviteAssumption
  <2> QED
    BY <1>6, <2>1, <2>2, <2>3, <2>4 DEF IssuedOK
<1> QED
  BY <1>2, <1>3, <1>4, <1>6, <1>8

\* InviteInv is inductive.
LEMMA InviteInvariance == PackagesSpec => []InviteInv
<1>1. PackagesInit => InviteInv
  <2> SUFFICES ASSUME Init PROVE InviteInv
    BY DEF PackagesInit
  <2> USE InviteAssumption
  <2>1. IssuedOK
    BY FS_EmptySet DEF Init, IssuedOK
  <2>2. CallsOK
    BY DEF Init, CallsOK
  <2>3. InviteShape
    BY <2>1, <2>2 DEF InviteShape, Init
  <2>4. UsageOK /\ UsesBounded /\ call = [c \in Calls |-> call[c]]
    BY DEF Init, UsageOK, UsesBounded
  <2>5. AddressMatchesKey
    BY DEF Init, AddressMatchesKey, NoNetwork
  <2> QED
    BY <2>1, <2>2, <2>3, <2>4, <2>5 DEF InviteInv
<1>2. InviteInv /\ [PackagesNext]_allVars => InviteInv'
  <2> SUFFICES ASSUME InviteInv, [Next]_vars PROVE InviteInv'
    BY InviteSteps
  <2> USE InviteAssumption
  <2>i. InviteShape /\ IssuedOK /\ CallsOK /\ UsageOK /\ UsesBounded /\ AddressMatchesKey
        /\ call = [c \in Calls |-> call[c]]
    BY DEF InviteInv
  <2>t. /\ clock \in 0 .. MaxTime /\ nets \subseteq Addrs \X Draw
        /\ app \in [Apps -> {NoNetwork} \cup {Network(x, k) : x \in Addrs \X AnySplit, k \in Draw}]
        /\ usage \in [TokenIDs -> 0 .. MaxAccepts] /\ accepted \in [TokenIDs -> 0 .. MaxAccepts]
    BY <2>i DEF InviteShape
  <2>c. Cardinality(issued) \in Nat
    BY <2>i, FS_CardinalityType DEF IssuedOK
  <2>1. CASE Tick
    <3>1. IssuedOK' /\ CallsOK' /\ UsageOK' /\ UsesBounded' /\ AddressMatchesKey'
          /\ (call = [c \in Calls |-> call[c]])'
      BY <2>1, <2>i DEF Tick, IssuedOK, CallsOK, UsageOK, UsesBounded, AddressMatchesKey
    <3>2. InviteShape'
      BY <2>1, <2>t, <3>1 DEF InviteShape, Tick
    <3> QED
      BY <3>1, <3>2 DEF InviteInv
  \* A new token: no call is for it yet, and none of its uses is counted.
  <2>n. ASSUME UNCHANGED <<usage, call, accepted>>, IssuedOK',
               Cardinality(issued') = Cardinality(issued) + 1,
               issued \subseteq issued',
               \A t \in issued' \ issued : t.text.id = Cardinality(issued) + 1
        PROVE  /\ CallsOK' /\ UsageOK' /\ UsesBounded'
               /\ (call = [c \in Calls |-> call[c]])'
    <3>1. CallsOK' /\ (call = [c \in Calls |-> call[c]])'
      BY <2>n, <2>i DEF CallsOK
    <3>2. UsageOK'
      <4>1. \A i \in TokenIDs : i[1] \in Nat
        BY DEF TokenIDs, Draw
      <4> QED
        BY <2>n, <2>i, <2>c, <4>1 DEF UsageOK
    <3>3. ASSUME NEW t \in issued', NEW k \in Splits(t.text.addr), t.text.maxUses > 0
          PROVE  accepted'[<<t.text.id, k>>] <= t.text.maxUses
      <4>1. CASE t \in issued
        BY <2>n, <2>i, <3>3, <4>1 DEF UsesBounded
      <4>2. CASE t \notin issued
        <5>1. t.text.id = Cardinality(issued) + 1 /\ t \in Tokens
          BY <2>n, <4>2 DEF IssuedOK
        <5>2. t.text.id \in Draw /\ t.text.maxUses \in Nat /\ t.text.addr \in Addrs
          BY <5>1 DEF Tokens, Texts
        <5>3. <<t.text.id, k>> \in TokenIDs /\ <<t.text.id, k>>[1] = Cardinality(issued) + 1
          BY <5>1, <5>2, SplitsCounted
        <5>4. accepted[<<t.text.id, k>>] = 0
          BY <2>i, <2>c, <5>3 DEF UsageOK
        <5> QED
          BY <2>n, <5>2, <5>4
      <4> QED
        BY <4>1, <4>2
    <3> QED
      BY <3>1, <3>2, <3>3 DEF UsesBounded
  <2>2. CASE Invite
    <3>1. PICK net \in nets, m \in UseLimits : CreateToken(Shared, net[1], net[2], m)
      BY <2>2 DEF Invite
    <3>2. net[1] \in Addrs /\ net[2] \in Draw /\ net = <<net[1], net[2]>> /\ m \in Nat
      BY <2>t
    <3>3. clock \in Nat /\ Cardinality(issued) < MaxTokens /\ nets' = nets
      BY <2>2, <2>t DEF Invite
    <3>4. /\ IssuedOK' /\ Cardinality(issued') = Cardinality(issued) + 1
          /\ issued \subseteq issued'
          /\ \A t \in issued' \ issued : t.text.id = Cardinality(issued) + 1
      BY <2>i, <3>1, <3>2, <3>3, CreateTokenOK DEF Signers
    <3>5. CallsOK' /\ UsageOK' /\ UsesBounded' /\ (call = [c \in Calls |-> call[c]])'
      BY <2>2, <2>n, <3>4 DEF Invite
    <3>6. AddressMatchesKey'
      BY <2>2, <2>i DEF Invite, AddressMatchesKey
    <3>7. InviteShape'
      BY <2>2, <2>t, <3>4, <3>5 DEF InviteShape, Invite
    <3> QED
      BY <3>4, <3>5, <3>6, <3>7 DEF InviteInv
  <2>3. ASSUME NEW a \in Apps, CreateNetwork(a) PROVE InviteInv'
    <3> DEFINE key == Cardinality(issued) + 1
    <3>1. PICK addr \in Addrs : /\ app' = [app EXCEPT ![a] = Network(WholeAddr(addr), key)]
                                /\ nets' = nets \cup {<<addr, key>>}
                                /\ CreateToken(a, addr, key, AppUses)
      BY <2>3 DEF CreateNetwork
    <3>2. key \in Draw /\ clock \in Nat /\ Cardinality(issued) < MaxTokens
      BY <2>3, <2>t, <2>c DEF CreateNetwork, Draw
    <3> HIDE DEF key
    <3>3. /\ IssuedOK' /\ Cardinality(issued') = Cardinality(issued) + 1
          /\ issued \subseteq issued'
          /\ \A t \in issued' \ issued : t.text.id = Cardinality(issued) + 1
      BY <2>i, <3>1, <3>2, CreateTokenOK DEF Signers
    <3>4. CallsOK' /\ UsageOK' /\ UsesBounded' /\ (call = [c \in Calls |-> call[c]])'
      BY <2>3, <2>n, <3>3 DEF CreateNetwork
    <3>5. WholeAddr(addr) \in {addr} \X Splits(addr) /\ WholeAddr(addr) \in Addrs \X AnySplit
      BY WholeIsSplit DEF WholeAddr, AnySplit
    <3>6. AddressMatchesKey'
      <4>1. <<addr, key>> \in nets' /\ <<addr, key>>[1] = addr /\ <<addr, key>>[2] = key
        BY <3>1
      <4>2. app'[a].key = key /\ app'[a].addr = WholeAddr(addr)
        BY <2>t, <3>1 DEF Network
      <4>3. \A b \in Apps \ {a} : app'[b] = app[b]
        BY <2>t, <3>1
      <4>4. nets \subseteq nets'
        BY <3>1
      <4> QED
        BY <2>i, <3>5, <4>1, <4>2, <4>3, <4>4 DEF AddressMatchesKey
    <3>7. InviteShape'
      BY <2>3, <2>t, <3>1, <3>2, <3>3, <3>4, <3>5 DEF InviteShape, CreateNetwork
    <3> QED
      BY <3>3, <3>4, <3>6, <3>7 DEF InviteInv
  <2>4. ASSUME NEW a \in Apps, JoinNetwork(a) PROVE InviteInv'
    <3>1. PICK t \in Presented : Join(a, t)
      BY <2>4 DEF JoinNetwork
    <3>2. IssuedOK' /\ CallsOK' /\ UsageOK' /\ UsesBounded'
          /\ (call = [c \in Calls |-> call[c]])'
      BY <2>4, <2>i DEF JoinNetwork, IssuedOK, CallsOK, UsageOK, UsesBounded
    <3>3. CASE UNCHANGED app
      <4>1. AddressMatchesKey'
        BY <2>4, <2>i, <3>3 DEF JoinNetwork, AddressMatchesKey
      <4>2. InviteShape'
        BY <2>4, <2>t, <3>2, <3>3 DEF InviteShape, JoinNetwork
      <4> QED
        BY <3>2, <4>1, <4>2 DEF InviteInv
    <3>4. CASE /\ Verifies(a, t)
               /\ app' = [app EXCEPT ![a] = Network(TrackerAddr(t), t.text.key)]
      <4>1. PICK u \in issued : u.text = t.text /\ t.split \in Splits(u.text.addr)
        BY <2>i, <3>4, VerifiedWasIssued
      <4>2. PICK net \in nets : net = <<t.text.addr, t.text.key>>
        BY <2>i, <4>1 DEF IssuedOK
      <4>3. t.text.addr \in Addrs /\ t.text.key \in Draw
        BY <2>t, <4>2
      <4>4. /\ TrackerAddr(t) \in {net[1]} \X Splits(net[1])
            /\ TrackerAddr(t) \in Addrs \X AnySplit /\ t.text.key = net[2]
        BY <4>1, <4>2, <4>3 DEF TrackerAddr, AnySplit
      <4>5. AddressMatchesKey'
        <5>1. app'[a].key = net[2] /\ app'[a].addr = TrackerAddr(t)
          BY <2>t, <3>4, <4>4 DEF Network
        <5>2. \A b \in Apps \ {a} : app'[b] = app[b]
          BY <2>t, <3>4
        <5>3. nets' = nets
          BY <2>4 DEF JoinNetwork
        <5> QED
          BY <2>i, <4>4, <5>1, <5>2, <5>3 DEF AddressMatchesKey
      <4>6. InviteShape'
        BY <2>4, <2>t, <3>2, <3>4, <4>3, <4>4 DEF InviteShape, JoinNetwork
      <4> QED
        BY <3>2, <4>5, <4>6 DEF InviteInv
    <3> QED
      BY <3>1, <3>3, <3>4 DEF Join
  <2>5. ASSUME NEW c \in Calls, Validate(c) PROVE InviteInv'
    <3>1. PICK t \in Presented :
             /\ Verifies(Shared, t)
             /\ call' = [call EXCEPT ![c] = [pc |-> "use", id |-> TokenID(t),
                                             maxUses |-> t.text.maxUses]]
      BY <2>5 DEF Validate
    <3>2. PICK u \in issued : u.text = t.text /\ t.split \in Splits(u.text.addr)
      BY <2>i, <3>1, VerifiedWasIssued
    <3>3. CallsOK' /\ (call = [d \in Calls |-> call[d]])'
      <4>1. PICK r : r = [pc |-> "use", id |-> <<u.text.id, t.split>>, maxUses |-> u.text.maxUses]
        OBVIOUS
      <4>2. call' = [call EXCEPT ![c] = r]
        BY <3>1, <3>2, <4>1 DEF TokenID
      <4>3. /\ call'[c] = r /\ (call = [d \in Calls |-> call[d]])'
            /\ \A d \in Calls \ {c} : call'[d] = call[d]
        BY ONLY <2>i, <4>2, c \in Calls
      <4>4. issued' = issued
        BY <2>5 DEF Validate
      <4> QED
        BY <2>i, <3>2, <4>1, <4>3, <4>4 DEF CallsOK
    <3>4. IssuedOK' /\ UsageOK' /\ UsesBounded' /\ AddressMatchesKey'
      BY <2>5, <2>i DEF Validate, IssuedOK, UsageOK, UsesBounded, AddressMatchesKey
    <3>5. InviteShape'
      BY <2>5, <2>t, <3>3, <3>4 DEF InviteShape, Validate
    <3> QED
      BY <3>3, <3>4, <3>5 DEF InviteInv
  <2>6. ASSUME NEW c \in Calls, Use(c) PROVE InviteInv'
    <3>1. call[c].pc = "use" /\ call[c] # Idle
      BY <2>6 DEF Use, Idle
    <3>20. PICK t \in issued : \E k \in Splits(t.text.addr) :
             call[c] = [pc |-> "use", id |-> <<t.text.id, k>>, maxUses |-> t.text.maxUses]
      BY <2>i, <3>1 DEF CallsOK
    <3>2. PICK k \in Splits(t.text.addr) :
             call[c] = [pc |-> "use", id |-> <<t.text.id, k>>, maxUses |-> t.text.maxUses]
      BY <3>20
    <3>3. PICK id : id = <<t.text.id, k>>
      OBVIOUS
    <3>30. /\ t.text.id \in Draw /\ t.text.addr \in Addrs /\ t.text.maxUses \in Nat
           /\ t.text.id <= Cardinality(issued)
      BY <2>i DEF IssuedOK, Tokens, Texts
    <3>31. id \in TokenIDs /\ id[1] = t.text.id
      BY <3>3, <3>30, SplitsCounted
    <3>4. CallsOK' /\ (call = [d \in Calls |-> call[d]])'
      BY <2>6, <2>i DEF Use, CallsOK
    <3>5. IssuedOK' /\ AddressMatchesKey'
      BY <2>6, <2>i DEF Use, IssuedOK, AddressMatchesKey
    <3>6. CASE UNCHANGED <<usage, accepted>>
      <4>1. UsageOK' /\ UsesBounded'
        BY <2>6, <2>i, <3>6 DEF Use, UsageOK, UsesBounded
      <4>2. InviteShape'
        BY <2>6, <2>t, <3>4, <3>5, <3>6 DEF InviteShape, Use
      <4> QED
        BY <3>4, <3>5, <4>1, <4>2 DEF InviteInv
    <3>7. CASE /\ MayUse(usage[id], t.text.maxUses)
               /\ usage[id] < MaxAccepts
               /\ usage' = [usage EXCEPT ![id] = @ + 1]
               /\ accepted' = [accepted EXCEPT ![id] = @ + 1]
      <4>0. /\ usage = accepted /\ accepted[id] \in Nat /\ accepted'[id] = accepted[id] + 1
            /\ usage' = accepted' /\ \A i \in TokenIDs \ {id} : accepted'[i] = accepted[i]
        BY <2>i, <2>t, <3>31, <3>7 DEF UsageOK
      <4>1. UsageOK'
        <5>1. issued' = issued
          BY <2>6 DEF Use
        <5>2. t.text.id \in Nat /\ ~(id[1] > Cardinality(issued))
          BY <2>c, <3>30, <3>31 DEF Draw
        <5> QED
          BY <2>i, <4>0, <5>1, <5>2 DEF UsageOK
      <4>2. ASSUME NEW u \in issued, NEW j \in Splits(u.text.addr), u.text.maxUses > 0
            PROVE  accepted'[<<u.text.id, j>>] <= u.text.maxUses
        <5>1. u.text.id \in Draw /\ u.text.addr \in Addrs
          BY <2>i DEF IssuedOK, Tokens, Texts
        <5>2. <<u.text.id, j>> \in TokenIDs
          BY <5>1, SplitsCounted
        <5>3. CASE <<u.text.id, j>> = id
          <6>1. u = t
            BY <2>i, <3>3, <5>3 DEF IssuedOK
          <6>2. accepted[id] < t.text.maxUses
            BY <3>30, <3>7, <4>0, <4>2, <6>1 DEF MayUse
          <6> QED
            BY <3>30, <4>0, <5>3, <6>1, <6>2
        <5>4. CASE <<u.text.id, j>> # id
          BY <2>i, <4>0, <4>2, <5>2, <5>4 DEF UsesBounded
        <5> QED
          BY <5>3, <5>4
      <4>3. UsesBounded'
        BY <2>6, <4>2 DEF Use, UsesBounded
      <4>4. /\ usage' \in [TokenIDs -> 0 .. MaxAccepts]
            /\ accepted' \in [TokenIDs -> 0 .. MaxAccepts]
        BY <2>t, <3>31, <3>7, <4>0
      <4>5. InviteShape'
        BY <2>6, <2>t, <3>4, <3>5, <4>4 DEF InviteShape, Use
      <4> QED
        BY <3>4, <3>5, <4>1, <4>3, <4>5 DEF InviteInv
    <3> QED
      BY <2>6, <3>2, <3>3, <3>6, <3>7 DEF Use
  <2>7. CASE UNCHANGED vars
    <3>1. IssuedOK' /\ CallsOK' /\ UsageOK' /\ UsesBounded' /\ AddressMatchesKey'
          /\ (call = [c \in Calls |-> call[c]])'
      BY <2>7, <2>i DEF vars, IssuedOK, CallsOK, UsageOK, UsesBounded, AddressMatchesKey
    <3>2. InviteShape'
      BY <2>7, <2>t, <3>1 DEF InviteShape, vars
    <3> QED
      BY <3>1, <3>2 DEF InviteInv
  <2> QED
    BY <2>1, <2>2, <2>3, <2>4, <2>5, <2>6, <2>7 DEF Next
<1> QED
  BY <1>1, <1>2, PTL DEF PackagesSpec

\* However many goroutines redeem tokens at one manager, and whatever fields
\* of the tokens presented were altered, no identifier gives more uses than the
\* token it comes from was issued with.  Each split of a token's text between
\* identifier and address is an identifier of its own (ValidateAndUse).
THEOREM UsesBoundedTheorem == PackagesSpec => []UsesBounded
<1>1. InviteInv => UsesBounded
  BY DEF InviteInv
<1> QED
  BY <1>1, InviteInvariance, PTL

\* For any number of applications and networks, the key an application is left
\* with is that of a network, and the address is that network's or an ending of
\* it (JoinNetwork and computeMAC).
THEOREM AddressMatchesKeyTheorem == PackagesSpec => []AddressMatchesKey
<1>1. InviteInv => AddressMatchesKey
  BY DEF InviteInv
<1> QED
  BY <1>1, InviteInvariance, PTL

\* The manager and the applications keep their types.
LEMMA InviteTypeOK == PackagesSpec => []TypeOK
<1>1. InviteInv => TypeOK
  <2> SUFFICES ASSUME InviteInv PROVE TypeOK
    OBVIOUS
  <2>1. ASSUME NEW t \in issued
        PROVE  t.text \in Texts /\ t.split = 0 /\ t.mac \in [key : Signers, text : Texts]
    BY DEF InviteInv, IssuedOK, Tokens
  <2>2. ASSUME NEW c \in Calls
        PROVE  call[c] = Idle \/ (call[c].pc = "use" /\ call[c].id \in TokenIDs)
    <3>1. CASE call[c] = Idle
      BY <3>1
    <3>2. ASSUME NEW t \in issued, NEW k \in Splits(t.text.addr),
                 call[c] = [pc |-> "use", id |-> <<t.text.id, k>>, maxUses |-> t.text.maxUses]
          PROVE  call[c].pc = "use" /\ call[c].id \in TokenIDs
      <4>1. t.text.id \in Draw /\ t.text.addr \in Addrs
        BY <2>1 DEF Texts
      <4>2. <<t.text.id, k>> \in TokenIDs
        BY <4>1, SplitsCounted
      <4> QED
        BY <3>2, <4>2
    <3> QED
      BY <3>1, <3>2 DEF InviteInv, CallsOK
  <2> QED
    BY <2>1, <2>2 DEF InviteInv, InviteShape, TypeOK
<1> QED
  BY <1>1, InviteInvariance, PTL

-----------------------------------------------------------------------------
(* Snapshots *)

Metadata == [id : SnapWorkloads \X (0 .. MaxSeconds), workload : SnapWorkloads,
             data : Version, second : 0 .. MaxSeconds]

\* Metadata that goes by the identifier of its own workload and second.
NamedWell(m) == m \in Metadata /\ m.id = SnapshotID(m.workload, m.second)

\* What was returned is still found under its identifier, itself or another
\* one that was returned; a call between its steps has what it read.
SnapshotInv ==
    /\ second \in 0 .. MaxSeconds
    /\ volume \in [SnapWorkloads -> Version]
    /\ target \in {"old", "truncated", "simulated"}
    /\ \A t \in taken : NamedWell(t) /\ t.id \in DOMAIN snapshots
    /\ \A id \in DOMAIN snapshots : snapshots[id] \in taken /\ snapshots[id].id = id
    /\ snapCall = [c \in SnapCalls |-> snapCall[c]]
    /\ \A c \in SnapCalls :
          \/ snapCall[c] = SnapIdle
          \/ \E w \in SnapWorkloads, d \in Version :
                snapCall[c] = [pc |-> "read", workload |-> w, data |-> d]
          \/ \E m \in Metadata : NamedWell(m) /\ snapCall[c] = [pc |-> "named", meta |-> m]

\* SnapshotInv is inductive.
LEMMA SnapshotInvariance == PackagesSpec => []SnapshotInv
<1>1. PackagesInit => SnapshotInv
  BY SecondsAssumption, SnapshotAssumption
  DEF PackagesInit, SnapshotInit, ClockInit, SnapshotInv, Version
<1>2. SnapshotInv /\ [PackagesNext]_allVars => SnapshotInv'
  <2> SUFFICES ASSUME SnapshotInv,
                      \/ SnapshotNext /\ UNCHANGED second
                      \/ SecondPasses /\ UNCHANGED snapshotVars
                      \/ UNCHANGED <<second, snapshotVars>>
               PROVE  SnapshotInv'
    BY SnapshotSteps
  <2> USE SecondsAssumption, SnapshotAssumption
  <2>1. CASE UNCHANGED <<second, snapshotVars>>
    BY <2>1 DEF SnapshotInv, snapshotVars
  <2>2. CASE SecondPasses /\ UNCHANGED snapshotVars
    <3>1. second' \in 0 .. MaxSeconds
      BY <2>2 DEF SecondPasses, SnapshotInv
    <3> QED
      BY <2>2, <3>1 DEF SnapshotInv, snapshotVars
  <2>3. ASSUME NEW w \in SnapWorkloads, VolumeWritten(w), UNCHANGED second
        PROVE  SnapshotInv'
    <3>1. volume' \in [SnapWorkloads -> Version]
      BY <2>3 DEF VolumeWritten, SnapshotInv, Version
    <3> QED
      BY <2>3, <3>1 DEF VolumeWritten, SnapshotInv
  <2>4. ASSUME NEW w \in SnapWorkloads, NEW c \in SnapCalls, SnapshotRead(c, w),
               UNCHANGED second
        PROVE  SnapshotInv'
    <3>1. volume[w] \in Version
      BY DEF SnapshotInv
    <3> QED
      BY <2>4, <3>1 DEF SnapshotRead, SnapshotInv
  <2>5. ASSUME NEW c \in SnapCalls, SnapshotName(c), UNCHANGED second
        PROVE  SnapshotInv'
    <3>1. PICK w \in SnapWorkloads, d \in Version :
             snapCall[c] = [pc |-> "read", workload |-> w, data |-> d]
      BY <2>5 DEF SnapshotName, SnapshotInv, SnapIdle
    <3> DEFINE m == [id |-> SnapshotID(w, second), workload |-> w,
                     data |-> d, second |-> second]
    <3>2. m \in Metadata /\ NamedWell(m)
      BY DEF SnapshotInv, Metadata, NamedWell, SnapshotID
    <3>3. snapCall' = [snapCall EXCEPT ![c] = [pc |-> "named", meta |-> m]]
      BY <2>5, <3>1 DEF SnapshotName
    <3> HIDE DEF m
    <3> QED
      BY <2>5, <3>2, <3>3 DEF SnapshotName, SnapshotInv
  <2>6. ASSUME NEW c \in SnapCalls, SnapshotRegister(c), UNCHANGED second
        PROVE  SnapshotInv'
    <3>1. PICK m \in Metadata : NamedWell(m) /\ snapCall[c] = [pc |-> "named", meta |-> m]
      BY <2>6 DEF SnapshotRegister, SnapshotInv, SnapIdle
    <3>2. /\ snapshots' = [id \in DOMAIN snapshots \cup {m.id} |->
                             IF id = m.id THEN m ELSE snapshots[id]]
          /\ taken' = taken \cup {m}
          /\ snapCall' = [snapCall EXCEPT ![c] = SnapIdle]
          /\ UNCHANGED <<volume, target, second>>
      BY <2>6, <3>1 DEF SnapshotRegister
    <3>3. \A t \in taken' : NamedWell(t) /\ t.id \in DOMAIN snapshots'
      BY <3>1, <3>2 DEF SnapshotInv
    <3>4. \A id \in DOMAIN snapshots' : snapshots'[id] \in taken' /\ snapshots'[id].id = id
      BY <3>2 DEF SnapshotInv
    <3> QED
      BY <3>2, <3>3, <3>4 DEF SnapshotInv
  <2>7. ASSUME NEW id \in DOMAIN snapshots, RestoreSnapshot(id), UNCHANGED second
        PROVE  SnapshotInv'
    BY <2>7 DEF RestoreSnapshot, SnapshotInv
  <2> QED
    BY <2>1, <2>2, <2>3, <2>4, <2>5, <2>6, <2>7 DEF SnapshotNext
<1> QED
  BY <1>1, <1>2, PTL DEF PackagesSpec

\* Under any number of overlapping CreateSnapshot calls, workloads and seconds,
\* a snapshot that was returned is listed until another one of its workload
\* takes its identifier in the same second.
THEOREM SnapshotKeptTheorem == PackagesSpec => []SnapshotKept
<1>1. SnapshotInv => SnapshotKept
  <2> SUFFICES ASSUME SnapshotInv, NEW t \in taken
               PROVE  \/ t \in ListSnapshots(t.workload)
                      \/ \E u \in taken \ {t} : u.workload = t.workload /\ u.second = t.second
    BY DEF SnapshotKept
  <2>1. t.id \in DOMAIN snapshots /\ NamedWell(t)
    BY DEF SnapshotInv
  <2>2. /\ snapshots[t.id] \in taken /\ snapshots[t.id].id = t.id
        /\ NamedWell(snapshots[t.id])
    BY <2>1 DEF SnapshotInv
  <2>3. /\ snapshots[t.id].workload = t.workload
        /\ snapshots[t.id].second = t.second
    BY <2>1, <2>2 DEF NamedWell, SnapshotID
  <2>4. CASE snapshots[t.id] = t
    <3>1. t.id \in {i \in DOMAIN snapshots : t.workload = "" \/ snapshots[i].workload = t.workload}
      BY <2>1, <2>3
    <3> QED
      BY <2>4, <3>1 DEF ListSnapshots
  <2> QED
    BY <2>2, <2>3, <2>4
<1> QED
  BY <1>1, SnapshotInvariance, PTL

-----------------------------------------------------------------------------
(* Tunnels *)

Tunnel == [workload : TunnelWorkloads, second : 0 .. MaxSeconds,
           port : {p \in TargetPorts : ValidPort(p)}, active : BOOLEAN]

\* The map holds active tunnels under their own identifiers; the tunnel of a
\* call under way is active and not in the map.
IngressInv ==
    /\ second \in 0 .. MaxSeconds
    /\ made \in Seq(Tunnel)
    /\ tunnelCall \in [TunnelCalls -> 0 .. Len(made)]
    /\ \A id \in DOMAIN tunnels : /\ tunnels[id] \in DOMAIN made
                                  /\ TunnelID(tunnels[id]) = id
                                  /\ made[tunnels[id]].active
    /\ \A c \in TunnelCalls : tunnelCall[c] # 0 =>
          /\ made[tunnelCall[c]].active
          /\ \A id \in DOMAIN tunnels : tunnels[id] # tunnelCall[c]
          /\ \A d \in TunnelCalls : tunnelCall[d] = tunnelCall[c] => d = c
    /\ TunnelsClosable

\* A tunnel that is closed is the same tunnel, inactive.
LEMMA Deactivated ==
    ASSUME NEW t \in Tunnel
    PROVE  /\ [t EXCEPT !.active = FALSE] \in Tunnel
           /\ [t EXCEPT !.active = FALSE].active = FALSE
           /\ [t EXCEPT !.active = FALSE].workload = t.workload
           /\ [t EXCEPT !.active = FALSE].second = t.second
<1>1. [t EXCEPT !.active = FALSE] \in Tunnel
  BY DEF Tunnel
<1>2. [t EXCEPT !.active = FALSE].active = FALSE
  BY DEF Tunnel
<1>3. [t EXCEPT !.active = FALSE].workload = t.workload
  BY DEF Tunnel
<1>4. [t EXCEPT !.active = FALSE].second = t.second
  BY DEF Tunnel
<1> QED
  BY <1>1, <1>2, <1>3, <1>4

\* IngressInv is inductive.
LEMMA IngressInvariance == PackagesSpec => []IngressInv
<1>1. PackagesInit => IngressInv
  <2> SUFFICES ASSUME IngressInit, ClockInit PROVE IngressInv
    BY DEF PackagesInit
  <2>1. made = <<>> /\ DOMAIN tunnels = {} /\ tunnelCall = [c \in TunnelCalls |-> 0]
    BY DEF IngressInit
  <2>2. made \in Seq(Tunnel) /\ Len(made) = 0 /\ DOMAIN made = {}
    BY <2>1
  <2>3. TunnelsClosable
    BY <2>1, <2>2 DEF TunnelsClosable, ListTunnels
  <2> QED
    BY <2>1, <2>2, <2>3, SecondsAssumption DEF IngressInv, ClockInit
<1>2. IngressInv /\ [PackagesNext]_allVars => IngressInv'
  <2> SUFFICES ASSUME IngressInv,
                      \/ IngressNext /\ UNCHANGED second
                      \/ SecondPasses /\ UNCHANGED ingressVars
                      \/ UNCHANGED <<second, ingressVars>>
               PROVE  IngressInv'
    BY IngressSteps
  <2> USE SecondsAssumption, IngressAssumption
  <2>1. CASE UNCHANGED ingressVars
    <3>1. second' \in 0 .. MaxSeconds
      <4>1. CASE UNCHANGED second
        BY <4>1 DEF IngressInv
      <4>2. CASE SecondPasses
        BY <4>2 DEF IngressInv, SecondPasses
      <4>3. CASE IngressNext /\ UNCHANGED second
        BY <4>3 DEF IngressInv
      <4> QED
        BY <4>1, <4>2, <4>3
    <3> QED
      BY <2>1, <3>1 DEF IngressInv, ingressVars, TunnelID, TunnelsClosable, ListTunnels,
                        Registered
  <2>t. /\ made \in Seq(Tunnel) /\ tunnelCall \in [TunnelCalls -> 0 .. Len(made)]
        /\ Len(made) \in Nat /\ DOMAIN made = 1 .. Len(made)
        /\ \A id \in DOMAIN tunnels : tunnels[id] \in DOMAIN made
        /\ second \in 0 .. MaxSeconds
    BY DEF IngressInv
  <2>2. ASSUME NEW c \in TunnelCalls, NEW w \in TunnelWorkloads, NEW p \in TargetPorts,
               MakeTunnel(c, w, p), UNCHANGED second
        PROVE  IngressInv'
    <3> DEFINE t == [workload |-> w, second |-> second, port |-> p, active |-> TRUE]
    <3>0. ValidPort(p)
      BY <2>2 DEF MakeTunnel
    <3>1. t \in Tunnel /\ t.active
      <4>1. t \in Tunnel
        BY <2>t, <3>0 DEF Tunnel
      <4>2. t.active = TRUE
        OBVIOUS
      <4> QED
        BY <4>1, <4>2
    <3>2. /\ made' = Append(made, t) /\ tunnelCall[c] = 0
          /\ tunnelCall' = [tunnelCall EXCEPT ![c] = Len(made) + 1]
          /\ tunnels' = tunnels
      BY <2>2 DEF MakeTunnel
    <3> HIDE DEF t
    <3>3. /\ made' \in Seq(Tunnel) /\ Len(made') = Len(made) + 1
          /\ DOMAIN made' = 1 .. Len(made) + 1
          /\ \A i \in DOMAIN made : made'[i] = made[i]
          /\ made'[Len(made) + 1] = t
      BY <2>t, <3>1, <3>2
    <3>4. tunnelCall' \in [TunnelCalls -> 0 .. Len(made')]
      BY <2>t, <3>2, <3>3
    <3>5. \A i \in DOMAIN made : TunnelID(i)' = TunnelID(i) /\ i \in DOMAIN made'
      BY <2>t, <3>3 DEF TunnelID
    <3>6. \A id \in DOMAIN tunnels' : /\ tunnels'[id] \in DOMAIN made'
                                      /\ TunnelID(tunnels[id])' = id
                                      /\ made'[tunnels'[id]].active
      BY <2>t, <3>2, <3>3, <3>5 DEF IngressInv
    <3>7. \A d \in TunnelCalls : tunnelCall'[d] # 0 =>
             /\ made'[tunnelCall'[d]].active
             /\ \A id \in DOMAIN tunnels' : tunnels'[id] # tunnelCall'[d]
             /\ \A e \in TunnelCalls : tunnelCall'[e] = tunnelCall'[d] => e = d
      <4> SUFFICES ASSUME NEW d \in TunnelCalls, tunnelCall'[d] # 0
                   PROVE  /\ made'[tunnelCall'[d]].active
                          /\ \A id \in DOMAIN tunnels' : tunnels'[id] # tunnelCall'[d]
                          /\ \A e \in TunnelCalls : tunnelCall'[e] = tunnelCall'[d] => e = d
        OBVIOUS
      <4>1. CASE d = c
        BY <2>t, <3>1, <3>2, <3>3, <4>1
      <4>2. CASE d # c
        <5>1. tunnelCall'[d] = tunnelCall[d] /\ tunnelCall[d] \in DOMAIN made
          BY <2>t, <3>2, <4>2
        <5> QED
          BY <2>t, <3>2, <3>3, <4>2, <5>1 DEF IngressInv
      <4> QED
        BY <4>1, <4>2
    <3>8. TunnelsClosable'
      <4>1. \A x \in ListTunnels' : x.active
        BY <2>t, <3>2, <3>6 DEF ListTunnels
      <4>2. ASSUME NEW i \in DOMAIN made', made'[i].active, Registered(i)'
            PROVE  \/ TunnelID(i)' \in DOMAIN tunnels' /\ tunnels'[TunnelID(i)'] = i
                   \/ \E j \in DOMAIN made' \ {i} : TunnelID(j)' = TunnelID(i)'
        <5>1. i # Len(made) + 1
          BY <2>t, <3>2, <4>2 DEF Registered
        <5>2. i \in DOMAIN made /\ made[i].active
          BY <2>t, <3>3, <4>2, <5>1
        <5>3. Registered(i)
          BY <2>t, <3>2, <4>2, <5>2 DEF Registered
        <5>4. \/ TunnelID(i) \in DOMAIN tunnels /\ tunnels[TunnelID(i)] = i
              \/ \E j \in DOMAIN made \ {i} : TunnelID(j) = TunnelID(i)
          BY <5>2, <5>3 DEF IngressInv, TunnelsClosable
        <5> QED
          BY <3>2, <3>5, <5>2, <5>4
      <4> QED
        BY <4>1, <4>2 DEF TunnelsClosable
    <3> QED
      BY <2>t, <2>2, <3>2, <3>3, <3>4, <3>6, <3>7, <3>8 DEF IngressInv
  <2>3. ASSUME NEW c \in TunnelCalls, RegisterTunnel(c), UNCHANGED second
        PROVE  IngressInv'
    <3> DEFINE i == tunnelCall[c]
    <3>1. /\ i \in DOMAIN made /\ made[i].active
          /\ \A id \in DOMAIN tunnels : tunnels[id] # i
          /\ \A d \in TunnelCalls : tunnelCall[d] = i => d = c
      BY <2>t, <2>3 DEF RegisterTunnel, IngressInv
    <3>2. /\ tunnels' = [id \in DOMAIN tunnels \cup {TunnelID(i)} |->
                           IF id = TunnelID(i) THEN i ELSE tunnels[id]]
          /\ tunnelCall' = [tunnelCall EXCEPT ![c] = 0]
          /\ made' = made /\ second' = second /\ i # 0
      BY <2>3 DEF RegisterTunnel
    <3>3. \A j : TunnelID(j)' = TunnelID(j)
      BY <3>2 DEF TunnelID
    <3> HIDE DEF i
    <3>4. tunnelCall' \in [TunnelCalls -> 0 .. Len(made')]
      BY <2>t, <3>2
    <3>5. \A id \in DOMAIN tunnels' : /\ tunnels'[id] \in DOMAIN made'
                                      /\ TunnelID(tunnels'[id]) = id
                                      /\ made'[tunnels'[id]].active
      BY <3>1, <3>2 DEF IngressInv
    <3>6. \A d \in TunnelCalls : tunnelCall'[d] # 0 =>
             /\ made'[tunnelCall'[d]].active
             /\ \A id \in DOMAIN tunnels' : tunnels'[id] # tunnelCall'[d]
             /\ \A e \in TunnelCalls : tunnelCall'[e] = tunnelCall'[d] => e = d
      BY <2>t, <3>1, <3>2 DEF IngressInv
    <3>7. TunnelsClosable'
      <4>1. \A x \in ListTunnels' : x.active
        BY <3>2, <3>5 DEF ListTunnels
      <4>2. ASSUME NEW k \in DOMAIN made', made'[k].active, Registered(k)'
            PROVE  \/ TunnelID(k)' \in DOMAIN tunnels' /\ tunnels'[TunnelID(k)'] = k
                   \/ \E j \in DOMAIN made' \ {k} : TunnelID(j)' = TunnelID(k)'
        <5>1. CASE k = i
          BY <3>2, <3>3, <5>1
        <5>2. CASE k # i
          <6>1. Registered(k)
            <7> SUFFICES ASSUME NEW d \in TunnelCalls PROVE tunnelCall[d] # k
              BY DEF Registered
            <7>1. tunnelCall'[d] # k
              BY <4>2 DEF Registered
            <7> QED
              BY <2>t, <3>2, <5>2, <7>1 DEF i
          <6>2. \/ TunnelID(k) \in DOMAIN tunnels /\ tunnels[TunnelID(k)] = k
                \/ \E j \in DOMAIN made \ {k} : TunnelID(j) = TunnelID(k)
            BY <3>2, <4>2, <6>1 DEF IngressInv, TunnelsClosable
          <6>3. CASE TunnelID(k) = TunnelID(i)
            BY <3>1, <3>2, <3>3, <5>2, <6>3
          <6>4. CASE TunnelID(k) # TunnelID(i)
            BY <3>2, <3>3, <6>2, <6>4
          <6> QED
            BY <6>3, <6>4
        <5> QED
          BY <5>1, <5>2
      <4> QED
        BY <4>1, <4>2 DEF TunnelsClosable
    <3>8. \A id \in DOMAIN tunnels' : TunnelID(tunnels[id])' = TunnelID(tunnels'[id])
      BY <3>2 DEF TunnelID
    <3> QED
      BY <2>t, <3>2, <3>4, <3>5, <3>6, <3>7, <3>8 DEF IngressInv
  <2>4. ASSUME NEW id \in DOMAIN tunnels, CloseTunnel(id), UNCHANGED second
        PROVE  IngressInv'
    <3> DEFINE i == tunnels[id]
    <3>1. i \in DOMAIN made /\ TunnelID(i) = id
      BY DEF IngressInv
    <3>2. /\ made' = [made EXCEPT ![i].active = FALSE]
          /\ tunnels' = [j \in DOMAIN tunnels \ {id} |-> tunnels[j]]
          /\ tunnelCall' = tunnelCall /\ second' = second
      BY <2>4 DEF CloseTunnel
    <3>3. \A j \in DOMAIN tunnels : j # id => tunnels[j] # i
      BY <3>1 DEF IngressInv
    <3>4. \A c \in TunnelCalls : tunnelCall[c] # i
      BY <2>t, <3>1 DEF IngressInv
    <3> HIDE DEF i
    <3>5. made[i] \in Tunnel
      BY <2>t, <3>1
    <3>6. /\ [made[i] EXCEPT !.active = FALSE] \in Tunnel
          /\ [made[i] EXCEPT !.active = FALSE].active = FALSE
          /\ [made[i] EXCEPT !.active = FALSE].workload = made[i].workload
          /\ [made[i] EXCEPT !.active = FALSE].second = made[i].second
      BY <3>5, Deactivated
    <3>7. /\ made' \in Seq(Tunnel) /\ Len(made') = Len(made) /\ DOMAIN made' = DOMAIN made
          /\ \A j \in DOMAIN made : j # i => made'[j] = made[j]
          /\ made'[i] = [made[i] EXCEPT !.active = FALSE]
      BY <2>t, <3>1, <3>2, <3>6
    <3>8. \A j \in DOMAIN made : TunnelID(j)' = TunnelID(j)
      BY <3>6, <3>7 DEF TunnelID
    <3>9. \A j \in DOMAIN tunnels' : /\ tunnels'[j] \in DOMAIN made'
                                     /\ TunnelID(tunnels[j])' = j
                                     /\ tunnels'[j] = tunnels[j]
                                     /\ made'[tunnels'[j]].active
      BY <2>t, <3>2, <3>3, <3>7, <3>8 DEF IngressInv
    <3>10. \A d \in TunnelCalls : tunnelCall'[d] # 0 =>
             /\ made'[tunnelCall'[d]].active
             /\ \A j \in DOMAIN tunnels' : tunnels'[j] # tunnelCall'[d]
             /\ \A e \in TunnelCalls : tunnelCall'[e] = tunnelCall'[d] => e = d
      BY <2>t, <3>2, <3>4, <3>7 DEF IngressInv
    <3>11. TunnelsClosable'
      <4>1. \A x \in ListTunnels' : x.active
        BY <3>2, <3>9 DEF ListTunnels
      <4>2. ASSUME NEW k \in DOMAIN made', made'[k].active, Registered(k)'
            PROVE  \/ TunnelID(k)' \in DOMAIN tunnels' /\ tunnels'[TunnelID(k)'] = k
                   \/ \E j \in DOMAIN made' \ {k} : TunnelID(j)' = TunnelID(k)'
        <5>1. k # i
          BY <3>6, <3>7, <4>2
        <5>2. k \in DOMAIN made /\ made[k].active /\ Registered(k)
          BY <3>2, <3>7, <4>2, <5>1 DEF Registered
        <5>3. \/ TunnelID(k) \in DOMAIN tunnels /\ tunnels[TunnelID(k)] = k
              \/ \E j \in DOMAIN made \ {k} : TunnelID(j) = TunnelID(k)
          BY <5>2 DEF IngressInv, TunnelsClosable
        <5>4. CASE TunnelID(k) \in DOMAIN tunnels /\ tunnels[TunnelID(k)] = k
          <6>1. TunnelID(k) # id
            BY <5>1, <5>4 DEF i
          <6> QED
            BY <3>2, <3>8, <5>2, <5>4, <6>1
        <5>5. CASE \E j \in DOMAIN made \ {k} : TunnelID(j) = TunnelID(k)
          BY <3>7, <3>8, <5>2, <5>5
        <5> QED
          BY <5>3, <5>4, <5>5
      <4> QED
        BY <4>1, <4>2 DEF TunnelsClosable
    <3> QED
      BY <2>t, <3>2, <3>7, <3>9, <3>10, <3>11 DEF IngressInv
  <2> QED
    BY <2>1, <2>2, <2>3, <2>4 DEF IngressNext
<1> QED
  BY <1>1, <1>2, PTL DEF PackagesSpec

\* Under any number of overlapping CreateTunnel and CloseTunnel calls, what is
\* listed is active, and a tunnel returned can be closed by its identifier
\* unless a second one to its workload was made in the same second.
THEOREM TunnelsClosableTheorem == PackagesSpec => []TunnelsClosable
<1>1. IngressInv => TunnelsClosable
  BY DEF IngressInv
<1> QED
  BY <1>1, IngressInvariance, PTL

-----------------------------------------------------------------------------
(* Arithmetic of the scores *)

\* A positive factor keeps a comparison.
LEMMA Cancel ==
    ASSUME NEW x \in Int, NEW y \in Int, NEW z \in Int, z > 0
    PROVE  x > y <=> x * z > y * z
  OBVIOUS

\* Of fractions with positive denominators: a/b > c/d >= e/f gives a/b > e/f.
LEMMA GreaterTransitive ==
    ASSUME NEW a \in Int, NEW b \in Int, NEW c \in Int, NEW d \in Int, NEW e \in Int,
           NEW f \in Int, b > 0, d > 0, f > 0, a * d > c * b, ~(e * d > c * f)
    PROVE  a * f > e * b
<1>1. (a * d) * f > (c * b) * f
  BY Cancel
<1>2. (c * f) * b >= (e * d) * b
  OBVIOUS
<1>3. /\ (a * d) * f = (a * f) * d /\ (c * b) * f = (c * f) * b
      /\ (e * d) * b = (e * b) * d
  OBVIOUS
<1>4. (a * f) * d > (e * b) * d
  BY <1>1, <1>2, <1>3
<1> QED
  BY <1>4, Cancel

\* What is in use and what is free make up the whole.
LEMMA UsedAndFree ==
    ASSUME NEW t \in Int, NEW a \in Int, NEW u \in Int, NEW b \in Int
    PROVE  (a * u + b * t) + ((t - a) * u + (u - b) * t) = 2 * (t * u)
  OBVIOUS

\* Of two fractions with complements, one is smaller when its complement is
\* larger.
LEMMA Complements ==
    ASSUME NEW l \in Int, NEW s \in Int, NEW u \in Int, NEW m \in Int, NEW r \in Int,
           NEW v \in Int, l + s = 2 * u, m + r = 2 * v
    PROVE  l * v < m * u <=> s * v > r * u
<1>1. l = 2 * u - s /\ m = 2 * v - r
  OBVIOUS
<1>2. l * v = 2 * (u * v) - s * v
  BY <1>1
<1>3. m * u = 2 * (u * v) - r * u
  BY <1>1
<1> QED
  BY <1>2, <1>3

-----------------------------------------------------------------------------
(* The scheduler *)

\* The candidates of any scan.
Nodes == Capabilities \cup {LocalNode}

\* Amounts are numbers, and a node has an identifier.
LEMMA NodeFields ==
    ASSUME NEW c \in Nodes
    PROVE  /\ c.totalCPU \in Nat /\ c.totalMem \in Nat
           /\ c.allocCPU \in Nat /\ c.allocMem \in Nat
           /\ c.nodeID # Nothing
<1>1. CASE c \in Capabilities
  BY <1>1, SchedulerAssumption DEF NodeComputeCapability, Nothing
<1>2. CASE c = LocalNode
  BY <1>2 DEF LocalNode, Nothing
<1> QED
  BY <1>1, <1>2 DEF Nodes

\* Needs of a workload.
Needs(m) == m.cpu \in Int /\ m.mem \in Int /\ m.cpu > 0 /\ m.mem > 0

\* A node that fits a workload with positive needs has a score.
LEMMA ScoreType ==
    ASSUME NEW c \in Nodes, NEW m, Needs(m), Fits(m, c)
    PROVE  /\ ScoreOver(c) \in Int /\ ScoreUnder(c) \in Int /\ ScoreUnder(c) > 0
           /\ Load(c) \in Int /\ Load(c) + ScoreOver(c) = 2 * ScoreUnder(c)
<1>1. /\ c.totalCPU \in Nat /\ c.totalMem \in Nat /\ c.allocCPU \in Nat /\ c.allocMem \in Nat
      /\ m.cpu \in Int /\ m.mem \in Int /\ m.cpu > 0 /\ m.mem > 0
  BY NodeFields DEF Needs
<1>2. /\ AvailableCPU(c) = c.totalCPU - c.allocCPU /\ c.totalCPU > c.allocCPU
      /\ AvailableMemoryMB(c) = c.totalMem - c.allocMem /\ c.totalMem > c.allocMem
  BY <1>1 DEF Fits, AvailableCPU, AvailableMemoryMB
<1>3. /\ ScoreUnder(c) = c.totalCPU * c.totalMem
      /\ ScoreOver(c) = (c.totalCPU - c.allocCPU) * c.totalMem
                        + (c.totalMem - c.allocMem) * c.totalCPU
  BY <1>2 DEF ScoreUnder, ScoreOver
<1>4. Load(c) = c.allocCPU * c.totalMem + c.allocMem * c.totalCPU
  BY <1>1, <1>2 DEF Load
<1>5. Load(c) + ScoreOver(c) = 2 * ScoreUnder(c)
  BY <1>1, <1>3, <1>4, UsedAndFree
<1>6. c.totalCPU * c.totalMem > 0
  BY <1>1, <1>2
<1> QED
  BY <1>1, <1>3, <1>4, <1>5, <1>6

\* Better is what LessLoaded says, of nodes that fit.
LEMMA BetterIsLessLoaded ==
    ASSUME NEW a \in Nodes, NEW b \in Nodes, NEW m, Needs(m), Fits(m, a), Fits(m, b)
    PROVE  Better(a, b) <=> LessLoaded(a, b)
<1>1. /\ ScoreOver(a) \in Int /\ ScoreUnder(a) \in Int /\ Load(a) \in Int
      /\ Load(a) + ScoreOver(a) = 2 * ScoreUnder(a)
  BY ScoreType
<1>2. /\ ScoreOver(b) \in Int /\ ScoreUnder(b) \in Int /\ Load(b) \in Int
      /\ Load(b) + ScoreOver(b) = 2 * ScoreUnder(b)
  BY ScoreType
<1> QED
  BY <1>1, <1>2, Complements DEF Better, LessLoaded

\* A node better than the best is better than all the best was not worse than.
LEMMA BetterTransitive ==
    ASSUME NEW a \in Nodes, NEW b \in Nodes, NEW c \in Nodes, NEW m, Needs(m),
           Fits(m, a), Fits(m, b), Fits(m, c), Better(a, b), ~Better(c, b)
    PROVE  Better(a, c) /\ ~Better(c, a)
<1>1. /\ ScoreOver(a) \in Int /\ ScoreUnder(a) \in Int /\ ScoreUnder(a) > 0
  BY ScoreType
<1>2. /\ ScoreOver(b) \in Int /\ ScoreUnder(b) \in Int /\ ScoreUnder(b) > 0
  BY ScoreType
<1>3. /\ ScoreOver(c) \in Int /\ ScoreUnder(c) \in Int /\ ScoreUnder(c) > 0
  BY ScoreType
<1>4. ScoreOver(a) * ScoreUnder(b) > ScoreOver(b) * ScoreUnder(a)
  BY DEF Better
<1>5. ~(ScoreOver(c) * ScoreUnder(b) > ScoreOver(b) * ScoreUnder(c))
  BY DEF Better
<1>6. ScoreOver(a) * ScoreUnder(c) > ScoreOver(c) * ScoreUnder(a)
  BY <1>1, <1>2, <1>3, <1>4, <1>5, GreaterTransitive
<1> QED
  BY <1>1, <1>3, <1>6 DEF Better

Normal == {Normalised(m) : m \in Manifests}
Names == {Nothing} \cup {c.nodeID : c \in Nodes}

Placing == [pc : {"parsed", "scan", "placed", "unplaced", "pinned"}, raw : Manifests,
            manifest : Normal, dead : Names, cands : Seq(Nodes),
            i : Nat, best : Nat]

\* The running choice of the loop: the first of the least loaded candidates
\* that fit among those considered, or none if none fits.
Scanned(r) ==
    /\ r.i \in 1 .. Len(r.cands) + 1 /\ r.best \in 0 .. r.i - 1
    /\ r.best = NoBest => \A j \in 1 .. r.i - 1 : ~Fits(r.manifest, r.cands[j])
    /\ r.best # NoBest =>
          /\ Fits(r.manifest, r.cands[r.best])
          /\ \A j \in 1 .. r.i - 1 : Fits(r.manifest, r.cands[j]) =>
                /\ ~Better(r.cands[j], r.cands[r.best])
                /\ j < r.best => Better(r.cands[r.best], r.cands[j])

\* A workload being placed: its manifest is the valid one it was parsed from,
\* with its type in lower case; the failed node is no candidate; a stateful
\* workload has no failed node behind it.
PlacingOK(r) ==
    /\ r \in Placing
    /\ ManifestValid(r.raw) /\ r.manifest = Normalised(r.raw)
    /\ \A j \in DOMAIN r.cands : r.cands[j].nodeID # r.dead
    /\ Scanned(r)
    /\ r.pc = "parsed" => r.i = 1 /\ r.best = NoBest /\ r.dead = Nothing
    /\ r.pc \in {"placed", "unplaced"} => r.i = Len(r.cands) + 1
    /\ r.pc = "placed" <=> r.pc \in {"placed", "unplaced"} /\ r.best # NoBest
    /\ r.manifest.type = "stateful" => r.dead = Nothing

RequestOK == request \in {NoRequest, [pc |-> "invalid"]} \/ PlacingOK(request)

\* What parsing keeps of a manifest, and what it changes.
LEMMA NormalisedOK ==
    ASSUME NEW m \in Manifests
    PROVE  /\ Normalised(m).id = m.id /\ Normalised(m).cpu = m.cpu /\ Normalised(m).mem = m.mem
           /\ m.type \in {"stateful", "Stateful"} => Normalised(m).type = "stateful"
<1>1. m \in ManifestType
  BY SchedulerAssumption
<1>2. /\ Normalised(m).id = m.id /\ Normalised(m).cpu = m.cpu /\ Normalised(m).mem = m.mem
      /\ Normalised(m).type = ToLower(m.type)
  BY <1>1 DEF Normalised, ManifestType
<1>3. m.type \in {"stateful", "Stateful"} => ToLower(m.type) = "stateful"
  BY DEF ToLower
<1> QED
  BY <1>2, <1>3

\* The needs of a workload being placed are positive.
LEMMA PlacingNeeds ==
    ASSUME NEW r, PlacingOK(r)
    PROVE  /\ Needs(r.manifest) /\ r.manifest.id = r.raw.id
           /\ r.manifest.cpu = r.raw.cpu /\ r.manifest.mem = r.raw.mem
           /\ r.raw.cpu \in Int /\ r.raw.mem \in Int /\ r.raw \in Manifests
<1>1. r.raw \in Manifests /\ ManifestValid(r.raw) /\ r.manifest = Normalised(r.raw)
  BY DEF PlacingOK, Placing
<1>2. r.raw \in ManifestType
  BY <1>1, SchedulerAssumption
<1>3. r.raw.cpu \in Int /\ r.raw.mem \in Int
  BY <1>2 DEF ManifestType
<1> QED
  BY <1>1, <1>3, NormalisedOK DEF ManifestValid, Needs

\* A scan that starts has its type, and has considered nothing.
LEMMA RequestNew ==
    ASSUME NEW pc \in {"parsed", "scan"}, NEW raw \in Manifests,
           NEW m \in Normal, NEW dead \in Names, NEW cands \in Seq(Nodes),
           NEW r, r = Request(pc, raw, m, dead, cands)
    PROVE  /\ r \in Placing /\ Scanned(r)
           /\ r.pc = pc /\ r.raw = raw /\ r.manifest = m /\ r.dead = dead
           /\ r.cands = cands /\ r.i = 1 /\ r.best = NoBest
<1>1. /\ r.pc = pc /\ r.raw = raw /\ r.manifest = m /\ r.dead = dead
      /\ r.cands = cands /\ r.i = 1 /\ r.best = NoBest
  BY DEF Request
<1>2. r \in Placing
  BY DEF Request, Placing, NoBest
<1>3. Len(cands) \in Nat
  OBVIOUS
<1>4. Scanned(r)
  BY <1>1, <1>3 DEF Scanned, NoBest
<1> QED
  BY <1>1, <1>2, <1>4

\* ParseManifestYAML of a valid manifest.
LEMMA ParsedOK ==
    ASSUME NEW m \in Manifests, ManifestValid(m)
    PROVE  PlacingOK(Request("parsed", m, Normalised(m), Nothing, <<>>))
<1>1. /\ Normalised(m) \in Normal /\ Nothing \in Names /\ <<>> \in Seq(Nodes)
  BY DEF Normal, Names
<1>2. PICK pc \in {"parsed", "scan"}, n \in Normal, dead \in Names, e \in Seq(Nodes) :
         pc = "parsed" /\ n = Normalised(m) /\ dead = Nothing /\ e = <<>>
  BY <1>1
<1>3. PICK r : r = Request(pc, m, n, dead, e)
  OBVIOUS
<1>4. /\ r \in Placing /\ Scanned(r)
      /\ r.pc = pc /\ r.raw = m /\ r.manifest = n /\ r.dead = dead
      /\ r.cands = e /\ r.i = 1 /\ r.best = NoBest
  BY <1>3, RequestNew
<1>5. DOMAIN r.cands = {}
  BY <1>2, <1>4
<1>6. PlacingOK(r)
  BY <1>2, <1>4, <1>5 DEF PlacingOK
<1> QED
  BY <1>2, <1>3, <1>6

\* SelectNode starts the loop over candidates that have identifiers.
LEMMA SelectOK ==
    ASSUME NEW r, PlacingOK(r), r.pc = "parsed", NEW cands \in Seq(Nodes),
           \A j \in DOMAIN cands : cands[j].nodeID # Nothing
    PROVE  /\ PlacingOK([r EXCEPT !.pc = "scan", !.cands = cands])
           /\ [r EXCEPT !.pc = "scan", !.cands = cands].raw = r.raw
           /\ [r EXCEPT !.pc = "scan", !.cands = cands].cands = cands
           /\ [r EXCEPT !.pc = "scan", !.cands = cands].pc = "scan"
<1> DEFINE s == [r EXCEPT !.pc = "scan", !.cands = cands]
<1>r. r \in Placing
  BY DEF PlacingOK
<1>1. s \in Placing
  BY <1>r DEF Placing
<1>2. /\ s.pc = "scan" /\ s.raw = r.raw /\ s.manifest = r.manifest /\ s.dead = r.dead
      /\ s.cands = cands /\ s.i = r.i /\ s.best = r.best
  BY <1>r DEF Placing
<1> HIDE DEF s
<1>3. Scanned(s)
  BY <1>2 DEF Scanned, PlacingOK, NoBest
<1>4. PlacingOK(s)
  BY <1>1, <1>2, <1>3 DEF PlacingOK
<1> QED
  BY <1>2, <1>4 DEF s

\* The choice after candidate r.i.
Chosen(r) == IF /\ Fits(r.manifest, r.cands[r.i])
                /\ r.best = NoBest \/ Better(r.cands[r.i], r.cands[r.best])
             THEN r.i ELSE r.best

\* The type of a scan that has moved on.
LEMMA PlacingMoves ==
    ASSUME NEW r \in Placing, NEW i \in Nat, NEW b \in Nat
    PROVE  [r EXCEPT !.i = i, !.best = b] \in Placing
  BY DEF Placing

\* One iteration of the loop keeps the running choice right.
LEMMA ConsiderOK ==
    ASSUME NEW r, PlacingOK(r), r.pc = "scan", r.i <= Len(r.cands),
           NEW s, s = [r EXCEPT !.i = r.i + 1, !.best = Chosen(r)]
    PROVE  PlacingOK(s) /\ s.raw = r.raw /\ s.cands = r.cands /\ s.pc = "scan"
<1>0. PICK b : b = Chosen(r)
  OBVIOUS
<1>r. r \in Placing /\ Scanned(r)
  BY DEF PlacingOK
<1>t. /\ r.i \in Nat /\ r.best \in Nat /\ r.cands \in Seq(Nodes) /\ Len(r.cands) \in Nat
      /\ DOMAIN r.cands = 1 .. Len(r.cands)
      /\ r.i \in 1 .. Len(r.cands) /\ r.best \in 0 .. r.i - 1
  BY <1>r DEF Placing, Scanned
<1>c. \A j \in 1 .. r.i : r.cands[j] \in Nodes
  BY <1>t
<1>n. Needs(r.manifest)
  BY PlacingNeeds
<1>b. b \in Nat
  BY <1>0, <1>t DEF Chosen
<1>1. s \in Placing
  <2>1. r.i + 1 \in Nat
    BY <1>t
  <2> QED
    BY <1>0, <1>r, <1>b, <2>1, PlacingMoves
<1>2. /\ s.pc = "scan" /\ s.raw = r.raw /\ s.manifest = r.manifest /\ s.dead = r.dead
      /\ s.cands = r.cands /\ s.i = r.i + 1 /\ s.best = b
  BY <1>0, <1>r DEF Placing
<1>3. s.i \in 1 .. Len(s.cands) + 1 /\ s.best \in 0 .. s.i - 1 /\ s.i - 1 = r.i
  BY <1>0, <1>t, <1>2 DEF Chosen
<1>4. Scanned(s)
  <2> DEFINE c == r.cands[r.i]
             d == r.cands[r.best]
  <2>1. CASE ~Fits(r.manifest, c)
    <3>1. b = r.best
      BY <1>0, <2>1 DEF Chosen
    <3>2. ASSUME NEW j \in 1 .. r.i, Fits(r.manifest, r.cands[j]) PROVE j \in 1 .. r.i - 1
      BY <1>t, <2>1, <3>2
    <3> QED
      BY <1>r, <1>2, <1>3, <3>1, <3>2 DEF Scanned
  <2>2. CASE Fits(r.manifest, c) /\ r.best = NoBest
    <3>1. b = r.i /\ b # NoBest
      BY <1>0, <1>t, <2>2 DEF Chosen, NoBest
    <3>2. \A j \in 1 .. r.i - 1 : ~Fits(r.manifest, r.cands[j])
      BY <1>r, <2>2 DEF Scanned
    <3>3. ASSUME NEW j \in 1 .. r.i, Fits(r.manifest, r.cands[j]) PROVE j = r.i
      BY <1>t, <3>2, <3>3
    <3>4. ~Better(c, c)
      <4>1. c \in Nodes
        BY <1>c, <1>t
      <4>2. ScoreOver(c) \in Int /\ ScoreUnder(c) \in Int
        BY <1>n, <2>2, <4>1, ScoreType
      <4> QED
        BY <4>2 DEF Better
    <3> QED
      BY <1>t, <1>2, <1>3, <2>2, <3>1, <3>3, <3>4 DEF Scanned
  <2>3. CASE Fits(r.manifest, c) /\ r.best # NoBest /\ ~Better(c, d)
    <3>1. b = r.best
      BY <1>0, <2>3 DEF Chosen
    <3>2. /\ Fits(r.manifest, d)
          /\ \A j \in 1 .. r.i - 1 : Fits(r.manifest, r.cands[j]) =>
                /\ ~Better(r.cands[j], d)
                /\ j < r.best => Better(d, r.cands[j])
      BY <1>r, <2>3 DEF Scanned
    <3>3. \A j \in 1 .. r.i : Fits(r.manifest, r.cands[j]) =>
                /\ ~Better(r.cands[j], d)
                /\ j < r.best => Better(d, r.cands[j])
      <4> SUFFICES ASSUME NEW j \in 1 .. r.i, Fits(r.manifest, r.cands[j])
                   PROVE  ~Better(r.cands[j], d) /\ (j < r.best => Better(d, r.cands[j]))
        OBVIOUS
      <4>1. CASE j = r.i
        <5>1. ~(j < r.best)
          BY <1>t, <4>1
        <5> QED
          BY <2>3, <4>1, <5>1
      <4>2. CASE j # r.i
        <5>1. j \in 1 .. r.i - 1
          BY <1>t, <4>2
        <5> QED
          BY <3>2, <5>1
      <4> QED
        BY <4>1, <4>2
    <3> QED
      BY <1>2, <1>3, <2>3, <3>1, <3>2, <3>3 DEF Scanned
  <2>4. CASE Fits(r.manifest, c) /\ r.best # NoBest /\ Better(c, d)
    <3>1. b = r.i /\ b # NoBest
      BY <1>0, <1>t, <2>4 DEF Chosen, NoBest
    <3>2. /\ Fits(r.manifest, d)
          /\ \A j \in 1 .. r.i - 1 : Fits(r.manifest, r.cands[j]) => ~Better(r.cands[j], d)
      BY <1>r, <2>4 DEF Scanned
    <3>3. c \in Nodes /\ d \in Nodes
      BY <1>c, <1>t, <2>4 DEF NoBest
    <3>4. ~Better(c, c)
      <4>1. ScoreOver(c) \in Int /\ ScoreUnder(c) \in Int
        BY <1>n, <2>4, <3>3, ScoreType
      <4> QED
        BY <4>1 DEF Better
    <3>5. \A j \in 1 .. r.i : Fits(r.manifest, r.cands[j]) =>
                /\ ~Better(r.cands[j], c)
                /\ j < r.i => Better(c, r.cands[j])
      <4> SUFFICES ASSUME NEW j \in 1 .. r.i, Fits(r.manifest, r.cands[j])
                   PROVE  ~Better(r.cands[j], c) /\ (j < r.i => Better(c, r.cands[j]))
        OBVIOUS
      <4>1. CASE j = r.i
        BY <1>t, <3>4, <4>1
      <4>2. CASE j # r.i
        <5>1. j \in 1 .. r.i - 1
          BY <1>t, <4>2
        <5>2. r.cands[j] \in Nodes
          BY <1>c
        <5>3. ~Better(r.cands[j], d)
          BY <3>2, <5>1
        <5> QED
          BY <1>n, <2>4, <3>2, <3>3, <5>2, <5>3, BetterTransitive
      <4> QED
        BY <4>1, <4>2
    <3> QED
      BY <1>2, <1>3, <2>4, <3>1, <3>5 DEF Scanned
  <2> QED
    BY <2>1, <2>2, <2>3, <2>4
<1>5. PlacingOK(s)
  BY <1>1, <1>2, <1>4 DEF PlacingOK
<1> QED
  BY <1>2, <1>5

\* The loop is over: placed if something was chosen.
LEMMA ReturnsOK ==
    ASSUME NEW r, PlacingOK(r), r.pc = "scan", r.i > Len(r.cands),
           NEW pc, pc = IF r.best = NoBest THEN "unplaced" ELSE "placed",
           NEW s, s = [r EXCEPT !.pc = pc]
    PROVE  PlacingOK(s) /\ s.raw = r.raw /\ s.cands = r.cands /\ s.pc = pc
<1>r. r \in Placing /\ Scanned(r)
  BY DEF PlacingOK
<1>1. /\ s \in Placing
      /\ s.pc = pc /\ s.raw = r.raw /\ s.manifest = r.manifest /\ s.dead = r.dead
      /\ s.cands = r.cands /\ s.i = r.i /\ s.best = r.best
  BY <1>r DEF Placing
<1>2. s.i = Len(s.cands) + 1
  BY <1>r, <1>1 DEF Placing, Scanned
<1>3. Scanned(s)
  BY <1>r, <1>1 DEF Scanned
<1>4. PlacingOK(s)
  BY <1>1, <1>2, <1>3 DEF PlacingOK
<1> QED
  BY <1>1, <1>4

\* A stateful workload is refused.
LEMMA PinnedOK ==
    ASSUME NEW r, PlacingOK(r), NEW s, s = [r EXCEPT !.pc = "pinned"]
    PROVE  PlacingOK(s)
<1>r. r \in Placing /\ Scanned(r)
  BY DEF PlacingOK
<1>1. /\ s \in Placing
      /\ s.pc = "pinned" /\ s.raw = r.raw /\ s.manifest = r.manifest /\ s.dead = r.dead
      /\ s.cands = r.cands /\ s.i = r.i /\ s.best = r.best
  BY <1>r DEF Placing
<1>2. Scanned(s)
  BY <1>r, <1>1 DEF Scanned
<1> QED
  BY <1>1, <1>2 DEF PlacingOK

\* Lists of candidates are lists of nodes, and filtering keeps the others.
LEMMA CandidateLists_Nodes ==
    ASSUME NEW cands \in CandidateLists
    PROVE  cands \in Seq(Nodes)
<1>1. PICK n \in 0 .. MaxCandidates : cands \in [1 .. n -> Capabilities]
  BY DEF CandidateLists
<1>2. n \in Nat
  <2>1. MaxCandidates \in Nat
    BY SchedulerAssumption, Zenon
  <2> QED
    BY <2>1
<1>3. cands \in [1 .. n -> Nodes]
  BY <1>1 DEF Nodes
<1> QED
  BY <1>2, <1>3

\* No candidate left by the filter is the failed node.
LEMMA FilteredOK ==
    ASSUME NEW cands \in Seq(Nodes), NEW dead, NEW f \in Filtered(cands, dead)
    PROVE  f \in Seq(Nodes) /\ \A j \in DOMAIN f : f[j].nodeID # dead
<1> DEFINE others == {i \in DOMAIN cands : cands[i].nodeID # dead}
           n == Cardinality(others)
<1>1. PICK pos \in [1 .. n -> others] : f = [i \in DOMAIN pos |-> cands[pos[i]]]
  BY DEF Filtered
<1>2. n \in Nat
  <2>1. IsFiniteSet(DOMAIN cands)
    BY FS_Interval
  <2>2. others \in SUBSET DOMAIN cands
    OBVIOUS
  <2>3. IsFiniteSet(others)
    BY <2>1, <2>2, FS_Subset
  <2> QED
    BY <2>3, FS_CardinalityType
<1> HIDE DEF n
<1>3. \A j \in 1 .. n : f[j] = cands[pos[j]] /\ pos[j] \in others
  BY <1>1
<1>4. f \in [1 .. n -> Nodes]
  BY <1>1
<1>5. f \in Seq(Nodes) /\ DOMAIN f = 1 .. n
  BY <1>2, <1>4
<1> QED
  BY <1>3, <1>5

\* A stateless workload is scanned for again, without the failed node.
LEMMA RescheduledOK ==
    ASSUME NEW r, PlacingOK(r), r.pc = "placed", r.manifest.type # "stateful",
           NEW cands \in Seq(Nodes), NEW dead, dead = r.cands[r.best].nodeID,
           NEW f \in Filtered(cands, dead),
           NEW s, s = Request("scan", r.raw, r.manifest, dead, f)
    PROVE  PlacingOK(s)
<1>1. f \in Seq(Nodes) /\ \A j \in DOMAIN f : f[j].nodeID # dead
  BY FilteredOK
<1>2. r \in Placing /\ Scanned(r) /\ r.best # NoBest
  BY DEF PlacingOK
<1>3. r.cands \in Seq(Nodes) /\ r.best \in 1 .. Len(r.cands)
  BY <1>2 DEF Placing, Scanned, NoBest
<1>4. r.cands[r.best] \in Nodes
  BY <1>3
<1>5. dead \in Names /\ r.raw \in Manifests /\ r.manifest \in Normal
  BY <1>2, <1>4 DEF Names, Placing
<1>6. PICK pc \in {"parsed", "scan"} : pc = "scan"
  OBVIOUS
<1>7. /\ s \in Placing /\ Scanned(s)
      /\ s.pc = pc /\ s.raw = r.raw /\ s.manifest = r.manifest /\ s.dead = dead
      /\ s.cands = f /\ s.i = 1 /\ s.best = NoBest
  BY <1>1, <1>5, <1>6, RequestNew
<1> QED
  BY <1>1, <1>6, <1>7 DEF PlacingOK

-----------------------------------------------------------------------------
(* The compute commands and the engine *)

\* Position i is the first start of its workload.
FirstStart(i) == \A k \in 1 .. i - 1 : statuses[k].id # statuses[i].id

StartIDs == {m.id : m \in Manifests} \ {Nothing}
Status == [id : StartIDs, state : {"running", "stopped"}, slot : Nat]

\* The map has the workloads ever started; the slot of a first start is below
\* every later slot and below the number of entries.
RuntimeInv ==
    /\ statuses \in Seq(Status)
    /\ IsFiniteSet(DOMAIN workloads)
    /\ DOMAIN workloads = {statuses[i].id : i \in DOMAIN statuses}
    /\ \A id \in DOMAIN workloads : /\ workloads[id] \in DOMAIN statuses
                                    /\ statuses[workloads[id]].id = id
    /\ \A i \in DOMAIN statuses : FirstStart(i) =>
          /\ statuses[i].slot < Cardinality(DOMAIN workloads)
          /\ \A j \in DOMAIN statuses : i < j => statuses[i].slot < statuses[j].slot

\* Where the deploy command is, the scheduler is too, with the local node as
\* the only candidate and, after the consent, with a manifest approved.
DeployInv ==
    /\ deploy \in {"idle", "consent", "schedule", "start"}
    /\ focus # "compute" => deploy = "idle"
    /\ deploy = "consent" => request.pc = "parsed"
    /\ deploy \in {"schedule", "start"} =>
          /\ request.pc = IF deploy = "schedule" THEN "scan" ELSE "placed"
          /\ request.cands = <<LocalNode>>
          /\ request.raw \in approved
    /\ approved \subseteq Manifests

ComputeInv == RequestOK /\ RuntimeInv /\ DeployInv /\ DeployedAsApproved

\* A request that is under way is a workload being placed.
LEMMA UnderWay ==
    ASSUME RequestOK, request.pc \notin {"idle", "invalid"}
    PROVE  PlacingOK(request)
  BY DEF RequestOK, NoRequest

\* The scheduler's steps keep RequestOK.
LEMMA ParseStep ==
    ASSUME RequestOK, NEW m \in Manifests, ParseManifestYAML(m)
    PROVE  RequestOK' /\ (ManifestValid(m) => request'.pc = "parsed")
<1>1. CASE ManifestValid(m)
  <2>1. request' = Request("parsed", m, Normalised(m), Nothing, <<>>)
    BY <1>1 DEF ParseManifestYAML
  <2>2. PlacingOK(request')
    BY <1>1, <2>1, ParsedOK
  <2>3. request'.pc = "parsed"
    BY <2>1 DEF Request
  <2> QED
    BY <2>2, <2>3 DEF RequestOK
<1>2. CASE ~ManifestValid(m)
  BY <1>2 DEF ParseManifestYAML, RequestOK
<1> QED
  BY <1>1, <1>2

\* SelectNode over nodes.
LEMMA SelectStep ==
    ASSUME RequestOK, NEW cands \in Seq(Nodes), SelectNode(cands)
    PROVE  /\ RequestOK' /\ PlacingOK(request) /\ request'.raw = request.raw
           /\ request'.cands = cands /\ request'.pc = "scan"
<1>1. request.pc = "parsed" /\ PlacingOK(request)
  BY UnderWay DEF SelectNode
<1>2. \A j \in DOMAIN cands : cands[j].nodeID # Nothing
  BY NodeFields
<1>3. request' = [request EXCEPT !.pc = "scan", !.cands = cands]
  BY DEF SelectNode
<1>4. /\ PlacingOK(request') /\ request'.raw = request.raw
      /\ request'.cands = cands /\ request'.pc = "scan"
  BY <1>1, <1>2, <1>3, SelectOK
<1> QED
  BY <1>1, <1>4 DEF RequestOK

\* An iteration.
LEMMA ConsiderStep ==
    ASSUME RequestOK, Consider
    PROVE  /\ RequestOK' /\ request.pc = "scan" /\ request'.raw = request.raw
           /\ request'.cands = request.cands /\ request'.pc = "scan"
<1>1. request.pc = "scan" /\ PlacingOK(request) /\ request.i <= Len(request.cands)
  BY UnderWay DEF Consider
<1>2. request \in Placing
  BY <1>1 DEF PlacingOK
<1>3. request' = [request EXCEPT !.i = request.i + 1, !.best = Chosen(request)]
  BY <1>2 DEF Consider, Placing, Chosen
<1>4. /\ PlacingOK(request') /\ request'.raw = request.raw
      /\ request'.cands = request.cands /\ request'.pc = "scan"
  BY <1>1, <1>3, ConsiderOK
<1> QED
  BY <1>1, <1>4 DEF RequestOK

\* The return.
LEMMA ReturnsStep ==
    ASSUME RequestOK, SelectReturns
    PROVE  /\ RequestOK' /\ request.pc = "scan" /\ request'.raw = request.raw
           /\ request'.cands = request.cands
           /\ request'.pc = IF request.best = NoBest THEN "unplaced" ELSE "placed"
<1>1. request.pc = "scan" /\ PlacingOK(request) /\ request.i > Len(request.cands)
  BY UnderWay DEF SelectReturns
<1>2. PICK pc : pc = IF request.best = NoBest THEN "unplaced" ELSE "placed"
  OBVIOUS
<1>3. request' = [request EXCEPT !.pc = pc]
  BY <1>2 DEF SelectReturns
<1>4. /\ PlacingOK(request') /\ request'.raw = request.raw
      /\ request'.cands = request.cands /\ request'.pc = pc
  BY <1>1, <1>2, <1>3, ReturnsOK
<1> QED
  BY <1>1, <1>2, <1>4 DEF RequestOK

\* The node fails.
LEMMA RescheduleStep ==
    ASSUME RequestOK, NEW cands \in Seq(Nodes), RescheduleOnNodeFailure(cands)
    PROVE  RequestOK'
<1>1. request.pc = "placed" /\ PlacingOK(request)
  BY UnderWay DEF RescheduleOnNodeFailure
<1>2. CASE request' = [request EXCEPT !.pc = "pinned"]
  BY <1>1, <1>2, PinnedOK DEF RequestOK
<1>3. CASE /\ request.manifest.type # "stateful"
           /\ \E f \in Filtered(cands, request.cands[request.best].nodeID) :
                 request' = Request("scan", request.raw, request.manifest,
                                    request.cands[request.best].nodeID, f)
  <2>1. PICK dead : dead = request.cands[request.best].nodeID
    OBVIOUS
  <2>2. PICK f \in Filtered(cands, dead) :
           request' = Request("scan", request.raw, request.manifest, dead, f)
    BY <1>3, <2>1
  <2>3. PlacingOK(request')
    BY <1>1, <1>3, <2>1, <2>2, RescheduledOK
  <2> QED
    BY <2>3 DEF RequestOK
<1> QED
  BY <1>2, <1>3 DEF RescheduleOnNodeFailure

\* StartWorkload adds an object whose slot is the number of entries.
LEMMA StartStep ==
    ASSUME RuntimeInv, NEW id \in StartIDs, StartWorkload(id)
    PROVE  /\ RuntimeInv'
           /\ DOMAIN statuses' = 1 .. Len(statuses) + 1
           /\ \A i \in DOMAIN statuses : statuses'[i] = statuses[i]
           /\ statuses'[Len(statuses) + 1].id = id
<1> DEFINE n == Len(statuses)
           card == Cardinality(DOMAIN workloads)
           new == [id |-> id, state |-> "running", slot |-> card]
<1>t. /\ statuses \in Seq(Status) /\ n \in Nat /\ DOMAIN statuses = 1 .. n
      /\ IsFiniteSet(DOMAIN workloads)
      /\ DOMAIN workloads = {statuses[i].id : i \in DOMAIN statuses}
      /\ \A w \in DOMAIN workloads : /\ workloads[w] \in DOMAIN statuses
                                     /\ statuses[workloads[w]].id = w
      /\ \A i \in DOMAIN statuses : FirstStart(i) =>
            /\ statuses[i].slot < card
            /\ \A j \in DOMAIN statuses : i < j => statuses[i].slot < statuses[j].slot
  BY DEF RuntimeInv
<1>c. card \in Nat
  BY <1>t, FS_CardinalityType
<1>1. /\ new \in Status /\ new.id = id /\ new.slot = card
  BY <1>c DEF Status
<1>2. /\ statuses' = Append(statuses, new)
      /\ workloads' = [w \in DOMAIN workloads \cup {id} |->
                         IF w = id THEN n + 1 ELSE workloads[w]]
  BY DEF StartWorkload
<1> HIDE DEF card, new
<1>3. /\ statuses' \in Seq(Status) /\ DOMAIN statuses' = 1 .. n + 1
      /\ \A i \in DOMAIN statuses : statuses'[i] = statuses[i]
      /\ statuses'[n + 1] = new
  BY <1>t, <1>1, <1>2
<1>4. /\ DOMAIN workloads' = DOMAIN workloads \cup {id}
      /\ workloads'[id] = n + 1
      /\ \A w \in DOMAIN workloads : w # id => workloads'[w] = workloads[w]
  BY <1>2
<1>5. /\ IsFiniteSet(DOMAIN workloads')
      /\ Cardinality(DOMAIN workloads') = IF id \in DOMAIN workloads THEN card ELSE card + 1
  <2>1. PICK D : D = DOMAIN workloads
    OBVIOUS
  <2>2. /\ IsFiniteSet(D \cup {id})
        /\ Cardinality(D \cup {id}) = IF id \in D THEN Cardinality(D) ELSE Cardinality(D) + 1
    BY <1>t, <2>1, FS_AddElement
  <2>3. Cardinality(D) = card
    BY <2>1 DEF card
  <2> QED
    BY <1>4, <2>1, <2>2, <2>3
<1>6. DOMAIN workloads' = {statuses'[i].id : i \in DOMAIN statuses'}
  <2>1. ASSUME NEW w \in DOMAIN workloads' PROVE \E i \in 1 .. n + 1 : w = statuses'[i].id
    <3>1. CASE w = id
      BY <1>t, <1>1, <1>3, <3>1
    <3>2. CASE w \in DOMAIN workloads
      <4>1. PICK i \in 1 .. n : w = statuses[i].id
        BY <1>t, <3>2
      <4>2. i \in 1 .. n + 1 /\ statuses'[i].id = w
        BY <1>t, <1>3, <4>1
      <4> QED
        BY <4>2
    <3> QED
      BY <1>4, <3>1, <3>2
  <2>2. ASSUME NEW i \in 1 .. n + 1 PROVE statuses'[i].id \in DOMAIN workloads'
    <3>1. CASE i = n + 1
      BY <1>1, <1>3, <1>4, <3>1
    <3>2. CASE i \in 1 .. n
      BY <1>t, <1>3, <1>4, <3>2
    <3> QED
      BY <1>t, <3>1, <3>2
  <2> QED
    BY <1>3, <2>1, <2>2
<1>7. \A w \in DOMAIN workloads' : /\ workloads'[w] \in DOMAIN statuses'
                                   /\ statuses'[workloads'[w]].id = w
  BY <1>t, <1>1, <1>3, <1>4
<1>8. ASSUME NEW i \in 1 .. n + 1, FirstStart(i)'
      PROVE  /\ statuses'[i].slot < Cardinality(DOMAIN workloads')
             /\ \A j \in 1 .. n + 1 : i < j => statuses'[i].slot < statuses'[j].slot
  <2>1. CASE i = n + 1
    <3>1. \A k \in 1 .. n : statuses[k].id # id
      BY <1>t, <1>1, <1>3, <1>8, <2>1 DEF FirstStart
    <3>2. id \notin DOMAIN workloads
      BY <1>t, <3>1
    <3> QED
      BY <1>t, <1>c, <1>1, <1>3, <1>5, <2>1, <3>2
  <2>2. CASE i \in 1 .. n
    <3>1. FirstStart(i)
      BY <1>t, <1>3, <1>8, <2>2 DEF FirstStart
    <3>2. /\ statuses[i].slot < card /\ statuses[i].slot \in Nat
          /\ \A j \in 1 .. n : i < j => statuses[i].slot < statuses[j].slot
      <4>1. statuses[i] \in Status
        BY <1>t, <2>2
      <4>2. statuses[i].slot \in Nat
        BY <4>1 DEF Status
      <4> QED
        BY <1>t, <2>2, <3>1, <4>2
    <3>3. statuses'[i].slot = statuses[i].slot
      BY <1>t, <1>3, <2>2
    <3>4. statuses'[i].slot < Cardinality(DOMAIN workloads')
      BY <1>c, <1>5, <3>2, <3>3
    <3>5. ASSUME NEW j \in 1 .. n + 1, i < j PROVE statuses'[i].slot < statuses'[j].slot
      <4>1. CASE j = n + 1
        BY <1>1, <1>3, <3>2, <3>3, <4>1
      <4>2. CASE j \in 1 .. n
        BY <1>t, <1>3, <3>2, <3>3, <3>5, <4>2
      <4> QED
        BY <1>t, <4>1, <4>2
    <3> QED
      BY <3>4, <3>5
  <2> QED
    BY <1>t, <2>1, <2>2
<1>9. RuntimeInv'
  BY <1>3, <1>5, <1>6, <1>7, <1>8 DEF RuntimeInv
<1> QED
  BY <1>t, <1>1, <1>3, <1>9

\* StopWorkload changes the state of an object and nothing else.
LEMMA StopStep ==
    ASSUME RuntimeInv, NEW id, StopWorkload(id)
    PROVE  /\ RuntimeInv'
           /\ DOMAIN statuses' = DOMAIN statuses
           /\ \A i \in DOMAIN statuses : statuses'[i].id = statuses[i].id
<1> DEFINE p == workloads[id]
<1>t. /\ statuses \in Seq(Status) /\ DOMAIN statuses = 1 .. Len(statuses)
      /\ p \in DOMAIN statuses
  BY DEF RuntimeInv, StopWorkload
<1>1. statuses' = [statuses EXCEPT ![p].state = "stopped"] /\ workloads' = workloads
  BY DEF StopWorkload
<1> HIDE DEF p
<1>2. statuses[p] \in Status
  BY <1>t
<1>3. /\ [statuses[p] EXCEPT !.state = "stopped"] \in Status
      /\ [statuses[p] EXCEPT !.state = "stopped"].id = statuses[p].id
      /\ [statuses[p] EXCEPT !.state = "stopped"].slot = statuses[p].slot
  BY <1>2 DEF Status
<1>4. /\ statuses' \in Seq(Status) /\ DOMAIN statuses' = DOMAIN statuses
      /\ \A i \in DOMAIN statuses : i # p => statuses'[i] = statuses[i]
      /\ statuses'[p] = [statuses[p] EXCEPT !.state = "stopped"]
  BY <1>t, <1>1, <1>3
<1>5. \A i \in DOMAIN statuses : /\ statuses'[i].id = statuses[i].id
                                 /\ statuses'[i].slot = statuses[i].slot
  BY <1>3, <1>4
<1>6. \A i \in DOMAIN statuses : FirstStart(i)' => FirstStart(i)
  <2> SUFFICES ASSUME NEW i \in DOMAIN statuses, FirstStart(i)', NEW k \in 1 .. i - 1
               PROVE  statuses[k].id # statuses[i].id
    BY DEF FirstStart
  <2>1. k \in DOMAIN statuses
    BY <1>t
  <2>2. statuses'[k].id # statuses'[i].id
    BY DEF FirstStart
  <2> QED
    BY <1>5, <2>1, <2>2
<1>7. RuntimeInv'
  <2>1. {statuses'[i].id : i \in DOMAIN statuses'} = {statuses[i].id : i \in DOMAIN statuses}
    BY <1>4, <1>5
  <2>2. \A w \in DOMAIN workloads' : /\ workloads'[w] \in DOMAIN statuses'
                                     /\ statuses'[workloads'[w]].id = w
    BY <1>1, <1>4, <1>5 DEF RuntimeInv
  <2>3. \A i \in DOMAIN statuses' : FirstStart(i)' =>
          /\ statuses'[i].slot < Cardinality(DOMAIN workloads')
          /\ \A j \in DOMAIN statuses' : i < j => statuses'[i].slot < statuses'[j].slot
    BY <1>1, <1>4, <1>5, <1>6 DEF RuntimeInv
  <2> QED
    BY <1>1, <1>4, <2>1, <2>2, <2>3 DEF RuntimeInv
<1> QED
  BY <1>4, <1>5, <1>7

\* ComputeInv is inductive.
LEMMA ComputeInvariance == PackagesSpec => []ComputeInv
<1>1. PackagesInit => ComputeInv
  <2> SUFFICES ASSUME ComputeInit PROVE ComputeInv
    BY DEF PackagesInit
  <2>1. request = NoRequest /\ statuses = <<>> /\ DOMAIN workloads = {} /\ deploy = "idle"
        /\ approved = {}
    BY DEF ComputeInit, SchedulerInit, RuntimeInit
  <2>2. statuses \in Seq(Status) /\ DOMAIN statuses = {}
    BY <2>1
  <2>3. RuntimeInv
    BY <2>1, <2>2, FS_EmptySet DEF RuntimeInv
  <2>4. RequestOK /\ DeployInv
    BY <2>1 DEF RequestOK, DeployInv
  <2>5. DeployedAsApproved
    BY <2>2 DEF DeployedAsApproved
  <2> QED
    BY <2>3, <2>4, <2>5 DEF ComputeInv
<1>2. ComputeInv /\ [PackagesNext]_allVars => ComputeInv'
  <2> SUFFICES ASSUME ComputeInv,
                      \/ /\ focus = "scheduler" /\ SchedulerNext
                         /\ UNCHANGED <<runtimeVars, deploy, approved, focus>>
                      \/ focus = "compute" /\ ComputeNext /\ UNCHANGED focus
                      \/ UNCHANGED <<computeVars, focus>>
               PROVE  ComputeInv'
    BY ComputeSteps
  <2>i. RequestOK /\ RuntimeInv /\ DeployInv /\ DeployedAsApproved
    BY DEF ComputeInv
  \* The engine and what was approved rest, or more is approved.
  <2>r. ASSUME UNCHANGED runtimeVars, approved \subseteq approved'
        PROVE  RuntimeInv' /\ DeployedAsApproved'
    <3>1. statuses' = statuses /\ workloads' = workloads
      BY <2>r DEF runtimeVars
    <3>2. RuntimeInv'
      BY <2>i, <3>1 DEF RuntimeInv, FirstStart
    <3>3. DeployedAsApproved'
      BY <2>r, <2>i, <3>1 DEF DeployedAsApproved
    <3> QED
      BY <3>2, <3>3
  <2>1. CASE UNCHANGED <<computeVars, focus>>
    BY <2>1, <2>i, <2>r DEF computeVars, ComputeInv, RequestOK, DeployInv
  <2>2. CASE /\ focus = "scheduler" /\ SchedulerNext
             /\ UNCHANGED <<runtimeVars, deploy, approved, focus>>
    <3>1. RequestOK'
      <4>1. ASSUME NEW m \in Manifests, ParseManifestYAML(m) PROVE RequestOK'
        BY <2>i, <4>1, ParseStep
      <4>2. ASSUME NEW cands \in CandidateLists, SelectNode(cands) PROVE RequestOK'
        BY <2>i, <4>2, SelectStep, CandidateLists_Nodes
      <4>3. ASSUME NEW cands \in CandidateLists, RescheduleOnNodeFailure(cands)
            PROVE  RequestOK'
        BY <2>i, <4>3, RescheduleStep, CandidateLists_Nodes
      <4>4. CASE Consider
        BY <2>i, <4>4, ConsiderStep
      <4>5. CASE SelectReturns
        BY <2>i, <4>5, ReturnsStep
      <4> QED
        BY <2>2, <4>1, <4>2, <4>3, <4>4, <4>5 DEF SchedulerNext
    <3>2. DeployInv'
      BY <2>2, <2>i DEF DeployInv
    <3> QED
      BY <2>2, <2>r, <3>1, <3>2 DEF ComputeInv
  <2>3. CASE DeployParse /\ UNCHANGED focus
    <3>1. PICK m \in Manifests : /\ ParseManifestYAML(m)
                                 /\ deploy' = IF ManifestValid(m) THEN "consent" ELSE "idle"
      BY <2>3 DEF DeployParse
    <3>2. RequestOK' /\ (ManifestValid(m) => request'.pc = "parsed")
      BY <2>i, <3>1, ParseStep
    <3>3. CASE focus = "compute"
      <4>1. DeployInv'
        BY <2>3, <2>i, <3>1, <3>2, <3>3 DEF DeployParse, DeployInv
      <4> QED
        BY <2>3, <2>r, <3>2, <4>1 DEF DeployParse, ComputeInv
    <3>4. CASE focus # "compute"
      BY <2>1, <2>2, <3>4
    <3> QED
      BY <3>3, <3>4
  <2>4. CASE focus = "compute" /\ DeployConsent /\ UNCHANGED focus
    <3>1. <<LocalNode>> \in Seq(Nodes)
      BY DEF Nodes
    <3>2. /\ RequestOK' /\ PlacingOK(request) /\ request'.raw = request.raw
          /\ request'.cands = <<LocalNode>> /\ request'.pc = "scan"
      BY <2>4, <2>i, <3>1, SelectStep DEF DeployConsent
    <3>3. request.raw \in Manifests
      BY <3>2, PlacingNeeds
    <3>4. DeployInv'
      BY <2>4, <2>i, <3>2, <3>3 DEF DeployConsent, DeployInv
    <3> QED
      BY <2>4, <2>r, <3>2, <3>4 DEF DeployConsent, ComputeInv
  <2>5. CASE focus = "compute" /\ DeployAborts /\ UNCHANGED focus
    <3>1. RequestOK'
      BY <2>5 DEF DeployAborts, RequestOK
    <3>2. DeployInv'
      BY <2>5, <2>i DEF DeployAborts, DeployInv
    <3> QED
      BY <2>5, <2>r, <3>1, <3>2 DEF DeployAborts, ComputeInv
  <2>6. CASE focus = "compute" /\ DeploySchedule /\ UNCHANGED focus
    <3>1. CASE Consider /\ UNCHANGED deploy
      <4>1. /\ RequestOK' /\ request'.raw = request.raw
            /\ request'.cands = request.cands /\ request'.pc = "scan"
        BY <2>i, <3>1, ConsiderStep
      <4>2. DeployInv'
        BY <2>6, <2>i, <3>1, <4>1 DEF DeploySchedule, DeployInv
      <4> QED
        BY <2>6, <2>r, <4>1, <4>2 DEF DeploySchedule, ComputeInv
    <3>2. CASE SelectReturns /\ deploy' = IF request.best = NoBest THEN "idle" ELSE "start"
      <4>1. /\ RequestOK' /\ request'.raw = request.raw
            /\ request'.cands = request.cands
            /\ request'.pc = IF request.best = NoBest THEN "unplaced" ELSE "placed"
        BY <2>i, <3>2, ReturnsStep
      <4>2. DeployInv'
        BY <2>6, <2>i, <3>2, <4>1 DEF DeploySchedule, DeployInv
      <4> QED
        BY <2>6, <2>r, <4>1, <4>2 DEF DeploySchedule, ComputeInv
    <3> QED
      BY <2>6, <3>1, <3>2 DEF DeploySchedule
  <2>7. CASE focus = "compute" /\ DeployStart /\ UNCHANGED focus
    <3>1. request.pc = "placed" /\ request.cands = <<LocalNode>> /\ request.raw \in approved
      BY <2>7, <2>i DEF DeployStart, DeployInv
    <3>2. PlacingOK(request)
      BY <2>i, <3>1, UnderWay
    <3>3. /\ Needs(request.manifest) /\ request.manifest.id = request.raw.id
          /\ request.manifest.cpu = request.raw.cpu /\ request.manifest.mem = request.raw.mem
          /\ request.raw \in Manifests
      BY <3>2, PlacingNeeds
    <3>4. request.best = 1 /\ Fits(request.manifest, LocalNode)
      <4>1. request.best # NoBest /\ request.i = Len(request.cands) + 1 /\ Scanned(request)
        BY <3>1, <3>2 DEF PlacingOK
      <4>2. Len(request.cands) = 1 /\ request.cands[1] = LocalNode
        BY <3>1
      <4>3. request.best = 1
        BY <4>1, <4>2 DEF Scanned, NoBest
      <4> QED
        BY <4>1, <4>2, <4>3 DEF Scanned
    <3>5. request.raw.cpu <= LocalNode.totalCPU /\ request.raw.mem <= LocalNode.totalMem
      BY <3>3, <3>4 DEF Fits, Needs, AvailableCPU, AvailableMemoryMB, LocalNode
    <3>6. request.manifest.id \in StartIDs
      BY <3>2, <3>3 DEF PlacingOK, ManifestValid, StartIDs
    <3>7. StartWorkload(request.manifest.id)
      BY <2>7 DEF DeployStart
    <3>8. /\ RuntimeInv' /\ DOMAIN statuses' = 1 .. Len(statuses) + 1
          /\ \A i \in DOMAIN statuses : statuses'[i] = statuses[i]
          /\ statuses'[Len(statuses) + 1].id = request.manifest.id
      BY <2>i, <3>6, <3>7, StartStep
    <3>9. DeployedAsApproved'
      <4> SUFFICES ASSUME NEW i \in 1 .. Len(statuses) + 1
                   PROVE  \E m \in approved : /\ m.id = statuses'[i].id
                                              /\ m.cpu <= LocalNode.totalCPU
                                              /\ m.mem <= LocalNode.totalMem
        BY <2>7, <3>8 DEF DeployStart, DeployedAsApproved
      <4>1. CASE i = Len(statuses) + 1
        BY <3>1, <3>3, <3>5, <3>8, <4>1
      <4>2. CASE i # Len(statuses) + 1
        <5>1. i \in DOMAIN statuses
          BY <2>i, <4>2 DEF RuntimeInv
        <5> QED
          BY <2>i, <3>8, <5>1 DEF DeployedAsApproved
      <4> QED
        BY <4>1, <4>2
    <3>10. RequestOK' /\ DeployInv'
      BY <2>7, <2>i DEF DeployStart, RequestOK, DeployInv
    <3> QED
      BY <3>8, <3>9, <3>10 DEF ComputeInv
  <2>8. CASE focus = "compute" /\ Stop /\ UNCHANGED focus
    <3>1. PICK id \in WorkloadIDs : StopWorkload(id)
      BY <2>8 DEF Stop
    <3>2. /\ RuntimeInv' /\ DOMAIN statuses' = DOMAIN statuses
          /\ \A i \in DOMAIN statuses : statuses'[i].id = statuses[i].id
      BY <2>i, <3>1, StopStep
    <3>3. DeployedAsApproved'
      BY <2>8, <2>i, <3>2 DEF Stop, DeployedAsApproved
    <3>4. RequestOK' /\ DeployInv'
      BY <2>8, <2>i DEF Stop, RequestOK, DeployInv
    <3> QED
      BY <3>2, <3>3, <3>4 DEF ComputeInv
  <2> QED
    BY <2>1, <2>2, <2>3, <2>4, <2>5, <2>6, <2>7, <2>8 DEF ComputeNext
<1> QED
  BY <1>1, <1>2, PTL DEF PackagesSpec

\* Whatever commands ran before, the engine has started only workloads from
\* manifests the user consented to, and that fit the node (cmdComputeDeploy).
THEOREM DeployedAsApprovedTheorem == PackagesSpec => []DeployedAsApproved
<1>1. ComputeInv => DeployedAsApproved
  BY DEF ComputeInv
<1> QED
  BY <1>1, ComputeInvariance, PTL

\* For every workload and list of candidates, SelectNode's loop ends with the
\* first of the least loaded suitable nodes, or with none only if none is
\* suitable; RescheduleOnNodeFailure never returns to the failed node.
THEOREM SelectsLeastLoadedTheorem == PackagesSpec => []SelectsLeastLoaded
<1>1. ComputeInv => SelectsLeastLoaded
  <2> SUFFICES ASSUME ComputeInv, request.pc \in {"placed", "unplaced"}
               PROVE  SelectsLeastLoaded
    BY DEF SelectsLeastLoaded
  <2>1. PlacingOK(request)
    BY UnderWay DEF ComputeInv
  <2>2. /\ Needs(request.manifest)
        /\ request.manifest.cpu = request.raw.cpu /\ request.manifest.mem = request.raw.mem
    BY <2>1, PlacingNeeds
  <2>3. /\ request \in Placing /\ Scanned(request) /\ request.i = Len(request.cands) + 1
        /\ \A j \in DOMAIN request.cands : request.cands[j].nodeID # request.dead
        /\ request.pc = "placed" <=> request.best # NoBest
    BY <2>1 DEF PlacingOK
  <2>4. /\ request.cands \in Seq(Nodes) /\ Len(request.cands) \in Nat
        /\ DOMAIN request.cands = 1 .. Len(request.cands)
        /\ request.i - 1 = Len(request.cands)
    BY <2>3 DEF Placing
  <2>5. ASSUME NEW j \in DOMAIN request.cands
        PROVE  /\ request.cands[j] \in Nodes
               /\ Suitable(request.cands[j]) <=> Fits(request.manifest, request.cands[j])
    <3>1. request.cands[j] \in Nodes
      BY <2>4
    <3>2. PICK c \in Nodes : c = request.cands[j]
      BY <3>1
    <3>3. /\ c.totalCPU \in Nat /\ c.totalMem \in Nat /\ c.allocCPU \in Nat
          /\ c.allocMem \in Nat /\ c.nodeID # request.dead
      BY <2>3, <3>2, NodeFields
    <3>4. /\ c.allocCPU + request.raw.cpu <= c.totalCPU
                <=> AvailableCPU(c) >= request.manifest.cpu
          /\ c.allocMem + request.raw.mem <= c.totalMem
                <=> AvailableMemoryMB(c) >= request.manifest.mem
      BY <2>2, <3>3 DEF Needs, AvailableCPU, AvailableMemoryMB
    <3>5. Suitable(c) <=> Fits(request.manifest, c)
      BY <3>3, <3>4 DEF Suitable, Fits
    <3> QED
      BY <3>1, <3>2, <3>5
  <2>6. CASE request.pc = "unplaced"
    <3>1. \A j \in DOMAIN request.cands : ~Fits(request.manifest, request.cands[j])
      BY <2>3, <2>4, <2>6 DEF Scanned
    <3> QED
      BY <2>5, <2>6, <3>1 DEF SelectsLeastLoaded
  <2>7. CASE request.pc = "placed"
    <3> DEFINE b == request.cands[request.best]
    <3>1. /\ request.best \in DOMAIN request.cands /\ Fits(request.manifest, b)
          /\ \A j \in DOMAIN request.cands : Fits(request.manifest, request.cands[j]) =>
                /\ ~Better(request.cands[j], b)
                /\ j < request.best => Better(b, request.cands[j])
      BY <2>3, <2>4, <2>7 DEF Scanned, NoBest
    <3>2. b \in Nodes /\ Suitable(b)
      BY <2>5, <3>1
    <3>3. ASSUME NEW j \in DOMAIN request.cands, Suitable(request.cands[j])
          PROVE  /\ ~LessLoaded(request.cands[j], b)
                 /\ j < request.best => LessLoaded(b, request.cands[j])
      <4>1. request.cands[j] \in Nodes /\ Fits(request.manifest, request.cands[j])
        BY <2>5, <3>3
      <4>2. Better(request.cands[j], b) <=> LessLoaded(request.cands[j], b)
        BY <2>2, <3>1, <3>2, <4>1, BetterIsLessLoaded
      <4>3. Better(b, request.cands[j]) <=> LessLoaded(b, request.cands[j])
        BY <2>2, <3>1, <3>2, <4>1, BetterIsLessLoaded
      <4> QED
        BY <3>1, <4>1, <4>2, <4>3
    <3> QED
      BY <2>7, <3>2, <3>3 DEF SelectsLeastLoaded
  <2> QED
    BY <2>6, <2>7
<1> QED
  BY <1>1, ComputeInvariance, PTL

\* A stateful workload, however its manifest writes the type, is never placed
\* again after its node failed (ErrStatefulWorkloadPinned).
THEOREM StatefulStaysPinnedTheorem == PackagesSpec => []StatefulStaysPinned
<1>1. ComputeInv => StatefulStaysPinned
  <2> SUFFICES ASSUME ComputeInv, request.pc \in {"scan", "placed", "unplaced"},
                      request.raw.type \in {"stateful", "Stateful"}
               PROVE  request.dead = Nothing
    BY DEF StatefulStaysPinned
  <2>1. PlacingOK(request)
    BY UnderWay DEF ComputeInv
  <2>2. request.raw \in Manifests /\ request.manifest = Normalised(request.raw)
    BY <2>1 DEF PlacingOK, Placing
  <2>3. request.manifest.type = "stateful"
    BY <2>2, NormalisedOK
  <2> QED
    BY <2>1, <2>3 DEF PlacingOK
<1> QED
  BY <1>1, ComputeInvariance, PTL

\* Two workloads that were each started once have different addresses, for any
\* number of starts and stops of these and of others.
THEOREM AddressesUniqueTheorem == PackagesSpec => []AddressesUnique
<1>1. ComputeInv => AddressesUnique
  <2> SUFFICES ASSUME ComputeInv PROVE AddressesUnique
    OBVIOUS
  <2>0. RuntimeInv
    BY DEF ComputeInv
  <2>t. /\ statuses \in Seq(Status) /\ DOMAIN statuses = 1 .. Len(statuses)
        /\ \A id \in DOMAIN workloads : /\ workloads[id] \in DOMAIN statuses
                                        /\ statuses[workloads[id]].id = id
        /\ \A i \in DOMAIN statuses : FirstStart(i) =>
              /\ statuses[i].slot < Cardinality(DOMAIN workloads)
              /\ \A j \in DOMAIN statuses : i < j => statuses[i].slot < statuses[j].slot
    <3>1. statuses \in Seq(Status)
      BY <2>0 DEF RuntimeInv
    <3>2. DOMAIN statuses = 1 .. Len(statuses)
      BY <3>1
    <3>3. \A i \in DOMAIN statuses : FirstStart(i) =>
              /\ statuses[i].slot < Cardinality(DOMAIN workloads)
              /\ \A j \in DOMAIN statuses : i < j => statuses[i].slot < statuses[j].slot
      BY <2>0, Zenon DEF RuntimeInv
    <3>4. \A id \in DOMAIN workloads : /\ workloads[id] \in DOMAIN statuses
                                        /\ statuses[workloads[id]].id = id
      BY <2>0, Zenon DEF RuntimeInv
    <3> QED
      BY <3>1, <3>2, <3>3, <3>4
  <2>1. ASSUME NEW id \in DOMAIN workloads, StartedOnce(id)
        PROVE  FirstStart(workloads[id])
    <3> DEFINE S == {i \in DOMAIN statuses : statuses[i].id = id}
    <3>1. IsFiniteSet(DOMAIN statuses) /\ S \in SUBSET DOMAIN statuses
      BY <2>t, FS_Interval
    <3>2. IsFiniteSet(S) /\ Cardinality(S) = 1
      BY <2>1, <3>1, FS_Subset DEF StartedOnce
    <3> HIDE DEF S
    <3>3. PICK i : S = {i}
      BY <3>2, FS_Singleton
    <3>4. workloads[id] = i
      BY <2>t, <3>3 DEF S
    <3>5. ASSUME NEW k \in 1 .. workloads[id] - 1 PROVE statuses[k].id # id
      <4>1. k \in DOMAIN statuses /\ k # workloads[id]
        BY <2>t
      <4> QED
        BY <3>3, <3>4, <4>1 DEF S
    <3> QED
      BY <2>t, <3>5 DEF FirstStart
  <2>2. ASSUME NEW x \in DOMAIN workloads, NEW y \in DOMAIN workloads,
               StartedOnce(x), StartedOnce(y), x # y
        PROVE  statuses[workloads[x]].slot # statuses[workloads[y]].slot
    <3>1. workloads[x] \in 1 .. Len(statuses) /\ workloads[y] \in 1 .. Len(statuses)
          /\ workloads[x] # workloads[y]
      BY <2>t, <2>2
    <3>2. statuses[workloads[x]].slot \in Nat /\ statuses[workloads[y]].slot \in Nat
      <4>1. statuses[workloads[x]] \in Status /\ statuses[workloads[y]] \in Status
        BY <2>t, <3>1
      <4> QED
        BY <4>1 DEF Status
    <3>3. CASE workloads[x] < workloads[y]
      BY <2>t, <2>1, <2>2, <3>1, <3>2, <3>3
    <3>4. CASE workloads[y] < workloads[x]
      BY <2>t, <2>1, <2>2, <3>1, <3>2, <3>4
    <3> QED
      BY <3>1, <3>3, <3>4
  <2>3. \A id \in DOMAIN workloads : GetWorkloadStatus(id).id = id
    BY <2>t DEF GetWorkloadStatus
  <2> QED
    BY <2>2, <2>3 DEF AddressesUnique, ListWorkloads, GetWorkloadStatus
<1> QED
  BY <1>1, ComputeInvariance, PTL

-----------------------------------------------------------------------------
(* The desktop application *)

\* Shard s of chunk c has a number among those of n chunks of w shards.
HasNumber(c, s, n, w) == \E i \in 0 .. n * w - 1 : i \div w = c /\ i % w = s

\* Division undoes the numbering of shards, chunk by chunk.
LEMMA ShardNumber ==
    ASSUME NEW c \in Nat, NEW w \in Nat, NEW s \in 0 .. w - 1, NEW n \in Nat,
           c \in 0 .. n - 1
    PROVE  HasNumber(c, s, n, w)
<1>1. (c + 1) * w <= n * w
  OBVIOUS
<1>2. (c + 1) * w = c * w + w
  OBVIOUS
<1>3. c * w + s \in 0 .. n * w - 1
  BY <1>1, <1>2
<1>4. (c * w + s) \div w = c /\ (c * w + s) % w = s
  OBVIOUS
<1> QED
  BY <1>3, <1>4 DEF HasNumber

\* A size of at least 1 has at least one chunk.
LEMMA SomeChunk ==
    ASSUME NEW n \in Nat \ {0}, NEW u \in Nat \ {0}
    PROVE  (n + u - 1) \div u \in Nat \ {0}
  OBVIOUS

\* The image of a finite set under a function is finite.
LEMMA FiniteImage ==
    ASSUME NEW S, IsFiniteSet(S), NEW g, g = [x \in S |-> g[x]]
    PROVE  IsFiniteSet({g[x] : x \in S})
<1>1. g \in Surjection(S, {g[x] : x \in S})
  BY DEF Surjection
<1> QED
  BY <1>1, FS_Surjection

ListedFile == [id : Nat, size : Nat \ {0}]

Whole(f) == \A c \in 0 .. UploadChunks(f.size) - 1, s \in ShardIndex :
               [file |-> f.id, chunk |-> c, shard |-> s] \in shardsDir

\* The files listed have all their shards; the directory is finite.
DesktopInv == /\ uploads \in Nat /\ IsFiniteSet(shardsDir)
              /\ appFiles \in Seq(ListedFile)
              /\ \A i \in DOMAIN appFiles : Whole(appFiles[i])

\* The shards UploadFile writes are finitely many, and with the last one every
\* shard of every chunk is there.
LEMMA WrittenOK ==
    ASSUME NEW f, NEW size \in Nat \ {0}, NEW n \in Nat
    PROVE  /\ IsFiniteSet(ShardsWritten(f, n))
           /\ n = ShardCount(size) =>
                 \A c \in 0 .. UploadChunks(size) - 1, s \in ShardIndex :
                    [file |-> f, chunk |-> c, shard |-> s] \in ShardsWritten(f, n)
<1> DEFINE w == K + M
           g == [i \in 0 .. n - 1 |->
                   [file |-> f, chunk |-> i \div (K + M), shard |-> i % (K + M)]]
<1>1. IsFiniteSet(0 .. n - 1)
  BY FS_Interval
<1>2. ShardsWritten(f, n) = {g[i] : i \in 0 .. n - 1} /\ g = [i \in 0 .. n - 1 |-> g[i]]
  BY DEF ShardsWritten
<1> HIDE DEF g
<1>3. IsFiniteSet(ShardsWritten(f, n))
  BY <1>1, <1>2, FiniteImage
<1>4. ASSUME n = ShardCount(size), NEW c \in 0 .. UploadChunks(size) - 1, NEW s \in ShardIndex
      PROVE  [file |-> f, chunk |-> c, shard |-> s] \in ShardsWritten(f, n)
  <2>1. UploadChunks(size) \in Nat
    BY DesktopAssumption, SomeChunk DEF UploadChunks
  <2>2. w \in Nat /\ s \in 0 .. w - 1 /\ c \in Nat
    BY <2>1, ShardsAssumption DEF ShardIndex
  <2>3. n = UploadChunks(size) * w
    BY <1>4 DEF ShardCount
  <2> HIDE DEF w
  <2>4. PICK u : u = UploadChunks(size)
    OBVIOUS
  <2>5. PICK i \in 0 .. n - 1 : i \div w = c /\ i % w = s
    <3>1. u \in Nat /\ c \in 0 .. u - 1 /\ n = u * w
      BY <2>1, <2>3, <2>4
    <3>2. HasNumber(c, s, u, w)
      BY <2>2, <3>1, ShardNumber
    <3> QED
      BY ONLY <3>1, <3>2, Zenon DEF HasNumber
  <2> QED
    BY <2>5 DEF ShardsWritten, w
<1> QED
  BY <1>3, <1>4

\* DesktopInv is inductive.
LEMMA DesktopInvariance == PackagesSpec => []DesktopInv
<1>1. PackagesInit => DesktopInv
  <2> SUFFICES ASSUME DesktopInit PROVE DesktopInv
    BY DEF PackagesInit
  <2>1. appFiles = <<>> /\ shardsDir = {} /\ uploads = 0
    BY DEF DesktopInit, NewApp
  <2>2. appFiles \in Seq(ListedFile) /\ DOMAIN appFiles = {}
    BY <2>1
  <2> QED
    BY <2>1, <2>2, FS_EmptySet DEF DesktopInv
<1>2. DesktopInv /\ [PackagesNext]_allVars => DesktopInv'
  <2> SUFFICES ASSUME DesktopInv, [DesktopNext]_desktopVars PROVE DesktopInv'
    BY DesktopSteps
  <2>i. /\ uploads \in Nat /\ IsFiniteSet(shardsDir) /\ appFiles \in Seq(ListedFile)
        /\ \A i \in DOMAIN appFiles : Whole(appFiles[i])
    BY DEF DesktopInv
  <2>1. ASSUME NEW size \in UploadSizes, UploadFile(size) PROVE DesktopInv'
    <3>1. PICK s \in Nat \ {0} : s = EffectiveSize(size)
      BY DesktopAssumption DEF EffectiveSize
    <3>2. PICK n \in 0 .. ShardCount(s) :
             /\ shardsDir' = shardsDir \cup ShardsWritten(uploads', n)
             /\ appFiles' = IF n = ShardCount(s)
                            THEN Append(appFiles, [id |-> uploads', size |-> s]) ELSE appFiles
      BY <2>1, <3>1 DEF UploadFile
    <3>3. uploads' \in Nat
      BY <2>1, <2>i DEF UploadFile
    <3>4. n \in Nat
      <4>1. UploadChunks(s) \in Nat
        BY DesktopAssumption, SomeChunk DEF UploadChunks
      <4>2. ShardCount(s) \in Nat
        BY <4>1, ShardsAssumption DEF ShardCount
      <4> QED
        BY <4>2
    <3>5. PICK f : f = uploads'
      OBVIOUS
    <3>6. /\ IsFiniteSet(ShardsWritten(f, n))
          /\ n = ShardCount(s) =>
                \A c \in 0 .. UploadChunks(s) - 1, x \in ShardIndex :
                   [file |-> f, chunk |-> c, shard |-> x] \in ShardsWritten(f, n)
      BY <3>4, WrittenOK
    <3>7. IsFiniteSet(shardsDir') /\ shardsDir \subseteq shardsDir'
      BY <2>i, <3>2, <3>5, <3>6, FS_Union
    <3>8. ASSUME NEW x, Whole(x)
          PROVE  \A c \in 0 .. UploadChunks(x.size) - 1, y \in ShardIndex :
                    [file |-> x.id, chunk |-> c, shard |-> y] \in shardsDir'
      BY <3>7, <3>8 DEF Whole
    <3>9. CASE n # ShardCount(s)
      <4>1. appFiles' = appFiles
        BY <3>2, <3>9
      <4> QED
        BY <2>i, <3>3, <3>7, <3>8, <4>1 DEF DesktopInv, Whole
    <3>10. CASE n = ShardCount(s)
      <4> DEFINE new == [id |-> f, size |-> s]
      <4>1. appFiles' = Append(appFiles, new)
        BY <3>2, <3>5, <3>10
      <4>2. new \in ListedFile /\ new.id = f /\ new.size = s
        BY <3>3, <3>5 DEF ListedFile
      <4> HIDE DEF new
      <4>3. /\ appFiles' \in Seq(ListedFile) /\ DOMAIN appFiles' = 1 .. Len(appFiles) + 1
            /\ \A i \in DOMAIN appFiles : appFiles'[i] = appFiles[i]
            /\ appFiles'[Len(appFiles) + 1] = new /\ Len(appFiles) \in Nat
            /\ DOMAIN appFiles = 1 .. Len(appFiles)
        BY <2>i, <4>1, <4>2
      <4>4. ASSUME NEW i \in DOMAIN appFiles'
            PROVE  \A c \in 0 .. UploadChunks(appFiles'[i].size) - 1, y \in ShardIndex :
                      [file |-> appFiles'[i].id, chunk |-> c, shard |-> y] \in shardsDir'
        <5>1. CASE i = Len(appFiles) + 1
          BY <3>2, <3>5, <3>6, <3>10, <4>2, <4>3, <5>1
        <5>2. CASE i \in DOMAIN appFiles
          BY <2>i, <3>8, <4>3, <5>2
        <5> QED
          BY <4>3, <5>1, <5>2
      <4> QED
        BY <3>3, <3>7, <4>3, <4>4 DEF DesktopInv, Whole
    <3> QED
      BY <3>9, <3>10
  <2>2. CASE UNCHANGED <<appFiles, shardsDir, uploads>>
    BY <2>2, <2>i DEF DesktopInv, Whole
  <2>3. ASSUME NEW bytes \in Allocations, SetStorageAllocation(bytes) PROVE DesktopInv'
    BY <2>2, <2>3 DEF SetStorageAllocation
  <2>4. CASE PauseNode
    BY <2>2, <2>4 DEF PauseNode
  <2>5. CASE Reopen
    <3>1. appFiles' = <<>> /\ UNCHANGED <<shardsDir, uploads>>
      BY <2>5 DEF Reopen
    <3>2. appFiles' \in Seq(ListedFile) /\ DOMAIN appFiles' = {}
      BY <3>1
    <3> QED
      BY <2>i, <3>1, <3>2 DEF DesktopInv
  <2>6. CASE UNCHANGED desktopVars
    BY <2>2, <2>6 DEF desktopVars
  <2> QED
    BY <2>1, <2>3, <2>4, <2>5, <2>6 DEF DesktopNext
<1> QED
  BY <1>1, <1>2, PTL DEF PackagesSpec

\* A file listed has every shard of every chunk on disk, and the usage reported
\* covers all files listed, for any sizes, failures and restarts (UploadFile).
THEOREM ListedFilesCompleteTheorem == PackagesSpec => []ListedFilesComplete
<1>1. DesktopInv => ListedFilesComplete
  <2> SUFFICES ASSUME DesktopInv PROVE ListedFilesComplete
    OBVIOUS
  <2>i. /\ IsFiniteSet(shardsDir) /\ appFiles \in Seq(ListedFile)
        /\ \A i \in DOMAIN appFiles : Whole(appFiles[i])
    BY DEF DesktopInv
  <2>1. \A f \in ListFiles : Whole(f) /\ f \in ListedFile
    BY <2>i DEF ListFiles
  <2> DEFINE Ids == {f.id : f \in ListFiles}
             g == [p \in Ids \X ShardIndex |-> [file |-> p[1], chunk |-> 0, shard |-> p[2]]]
  <2>2. ASSUME NEW id \in Ids, NEW s \in ShardIndex
        PROVE  [file |-> id, chunk |-> 0, shard |-> s] \in shardsDir
    <3>1. PICK f \in ListFiles : id = f.id
      OBVIOUS
    <3>2. f.size \in Nat \ {0}
      BY <2>1 DEF ListedFile
    <3>3. UploadChunks(f.size) \in Nat \ {0}
      BY <3>2, DesktopAssumption, SomeChunk DEF UploadChunks
    <3>4. 0 \in 0 .. UploadChunks(f.size) - 1
      BY <3>3
    <3> QED
      BY <2>1, <3>1, <3>4 DEF Whole
  <2>3. IsFiniteSet(Ids)
    <3> DEFINE h == [i \in DOMAIN appFiles |-> appFiles[i].id]
    <3>1. IsFiniteSet(DOMAIN appFiles)
      BY <2>i, FS_Interval
    <3>2. Ids = {h[i] : i \in DOMAIN appFiles} /\ h = [i \in DOMAIN appFiles |-> h[i]]
      BY DEF ListFiles
    <3> HIDE DEF h, Ids
    <3> QED
      BY <3>1, <3>2, FiniteImage
  <2> HIDE DEF Ids
  <2>4. g \in Injection(Ids \X ShardIndex, shardsDir)
    <3>1. g \in [Ids \X ShardIndex -> shardsDir]
      BY <2>2
    <3>2. ASSUME NEW p \in Ids \X ShardIndex, NEW q \in Ids \X ShardIndex, g[p] = g[q]
          PROVE  p = q
      <4>1. /\ g[p].file = p[1] /\ g[p].shard = p[2]
            /\ g[q].file = q[1] /\ g[q].shard = q[2]
        OBVIOUS
      <4>2. p = <<p[1], p[2]>> /\ q = <<q[1], q[2]>>
        OBVIOUS
      <4> QED
        BY <3>2, <4>1, <4>2
    <3> QED
      BY <3>1, <3>2 DEF Injection, IsInjective
  <2> HIDE DEF g
  <2>5. Cardinality(Ids \X ShardIndex) <= Cardinality(shardsDir)
    BY <2>i, <2>4, FS_Injection
  <2>6. IsFiniteSet(ShardIndex) /\ Cardinality(ShardIndex) = K + M
    BY ShardsAssumption, FS_Interval DEF ShardIndex
  <2>7. Cardinality(Ids \X ShardIndex) = Cardinality(Ids) * (K + M)
    BY <2>3, <2>6, FS_Product
  <2>8. Cardinality(Ids) \in Nat /\ Cardinality(shardsDir) \in Nat
    BY <2>i, <2>3, FS_CardinalityType
  <2>9. Cardinality(shardsDir) >= Cardinality(Ids) * (K + M)
    BY <2>5, <2>7, <2>8, ShardsAssumption
  <2> QED
    BY <2>1, <2>9 DEF ListedFilesComplete, Whole, GetNodeStatus, Ids
<1> QED
  BY <1>1, DesktopInvariance, PTL
-----------------------------------------------------------------------------
(* The routing table *)

\* Two identifiers agree in a number of leading bits: all, or the ones before
\* the first that differs.
LEMMA PrefixExists ==
  ASSUME NEW x \in [1 .. IDBits -> {0, 1}]
  PROVE  \E n \in 0 .. IDBits : /\ \A i \in 1 .. n : x[i] = 0
                                /\ n < IDBits => x[n + 1] = 1
<1>0. IDBits \in Nat
  BY RoutingAssumption
<1>1. PICK T : T = {n \in Nat : n \in 1 .. IDBits /\ x[n] = 1}
  OBVIOUS
<1>2. CASE T = {}
  <2>1. \A i \in 1 .. IDBits : x[i] = 0
    BY <1>0, <1>1, <1>2
  <2> QED
    BY <1>0, <2>1
<1>3. CASE T # {}
  <2>1. T \subseteq Nat
    BY <1>1
  <2>2. PICK m \in T : \A k \in T : <<k, m>> \notin OpToRel(<, Nat)
    BY <1>3, <2>1, NatLessThanWellFounded, WFMin
  <2>3. \A k \in T : ~(k < m)
    BY <2>1, <2>2 DEF OpToRel
  <2>4. /\ m - 1 \in 0 .. IDBits /\ (m - 1) + 1 = m /\ x[m] = 1
        /\ \A i \in 1 .. m - 1 : i \in 1 .. IDBits /\ i < m
    BY <1>0, <1>1
  <2>5. \A i \in 1 .. m - 1 : x[i] = 0
    BY <1>0, <1>1, <2>3, <2>4
  <2> QED
    BY <2>4, <2>5
<1> QED
  BY <1>2, <1>3

\* Every identifier has a bucket and, unless it is the local one, it is that
\* of the prefix the two share.
LEMMA OwnBucket ==
  ASSUME NEW id \in NodeID
  PROVE  /\ bucketIdx(id) \in BucketIndex
         /\ id # localID => bucketIdx(id) = PrefixLen(localID, id)
<1>0. IDBits \in Nat \ {0} /\ localID \in NodeID
  BY RoutingAssumption
<1>1. PICK x : x = XOR(localID, id)
  OBVIOUS
<1>2. x \in [1 .. IDBits -> {0, 1}]
  BY <1>0, <1>1 DEF XOR, NodeID
<1>3. PrefixLen(localID, id) \in 0 .. IDBits
      /\ \A i \in 1 .. PrefixLen(localID, id) : x[i] = 0
  BY <1>1, <1>2, PrefixExists DEF PrefixLen
<1>4. bucketIdx(id) \in BucketIndex
  BY <1>0, <1>3 DEF bucketIdx, BucketIndex
<1>5. ASSUME id # localID PROVE PrefixLen(localID, id) < IDBits
  <2>1. PICK k \in 1 .. IDBits : localID[k] # id[k]
    BY <1>0, <1>5 DEF NodeID
  <2>2. x[k] # 0
    BY <1>0, <1>1, <2>1 DEF XOR, NodeID
  <2> QED
    BY <1>0, <1>3, <2>1, <2>2
<1> QED
  BY <1>0, <1>3, <1>4, <1>5 DEF bucketIdx

\* Every contact is in its own bucket, and once.
WellPlaced(B) ==
    /\ B \in [BucketIndex -> Seq(Contact)]
    /\ \A b \in BucketIndex : \A i \in 1 .. Len(B[b]) :
          /\ B[b][i].id # localID /\ bucketIdx(B[b][i].id) = b
          /\ \A j \in 1 .. Len(B[b]) : B[b][i].id = B[b][j].id => i = j

\* Contacts, and the book of the refinement, of any buckets.
ContactsOf(B) == UNION {{B[b][i] : i \in DOMAIN B[b]} : b \in BucketIndex}

IdsOf(B) == {c.id : c \in ContactsOf(B)}

BookOf(B) == [id \in IdsOf(B) |-> (CHOOSE c \in ContactsOf(B) : c.id = id).addr]

\* No contact of id in a bucket.
Absent(B, b, id) == \A i \in 1 .. Len(B[b]) : B[b][i].id # id

\* From B to C, c is stored, or the contact of id is taken out.
Puts(B, C, c) ==
    \A x : x \in ContactsOf(C) <=> x = c \/ (x \in ContactsOf(B) /\ x.id # c.id)

TakesOut(B, C, id) == \A x : x \in ContactsOf(C) <=> x \in ContactsOf(B) /\ x.id # id

\* The contacts are the entries of the buckets.
LEMMA ContactsAre ==
  ASSUME NEW B, WellPlaced(B)
  PROVE  /\ \A c \in ContactsOf(B) :
               /\ c \in Contact /\ c.id # localID
               /\ bucketIdx(c.id) \in BucketIndex
               /\ \E i \in 1 .. Len(B[bucketIdx(c.id)]) : B[bucketIdx(c.id)][i] = c
         /\ \A b \in BucketIndex : \A i \in 1 .. Len(B[b]) : B[b][i] \in ContactsOf(B)
<1>1. \A b \in BucketIndex : /\ B[b] \in Seq(Contact) /\ DOMAIN B[b] = 1 .. Len(B[b])
                             /\ \A i \in 1 .. Len(B[b]) : B[b][i] \in Contact
  BY LenProperties, ElementOfSeq DEF WellPlaced
<1>2. ASSUME NEW c \in ContactsOf(B)
      PROVE  /\ c \in Contact /\ c.id # localID
             /\ bucketIdx(c.id) \in BucketIndex
             /\ \E i \in 1 .. Len(B[bucketIdx(c.id)]) : B[bucketIdx(c.id)][i] = c
  <2>1. PICK b \in BucketIndex : \E i \in DOMAIN B[b] : B[b][i] = c
    BY DEF ContactsOf
  <2>2. PICK i \in 1 .. Len(B[b]) : B[b][i] = c
    BY <1>1, <2>1
  <2>3. c.id # localID /\ bucketIdx(c.id) = b
    BY <2>2 DEF WellPlaced
  <2> QED
    BY <1>1, <2>2, <2>3
<1>3. ASSUME NEW b \in BucketIndex, NEW i \in 1 .. Len(B[b]) PROVE B[b][i] \in ContactsOf(B)
  BY <1>1 DEF ContactsOf
<1> QED
  BY <1>2, <1>3

\* A node has one contact, and the book holds its address.
LEMMA BookIs ==
  ASSUME NEW B, WellPlaced(B)
  PROVE  /\ \A c, d \in ContactsOf(B) : c.id = d.id => c = d
         /\ \A c \in ContactsOf(B) : BookOf(B)[c.id] = c.addr
         /\ DOMAIN BookOf(B) = IdsOf(B)
<1>1. ASSUME NEW c \in ContactsOf(B), NEW d \in ContactsOf(B), c.id = d.id PROVE c = d
  <2>1. PICK b \in BucketIndex : b = bucketIdx(c.id)
    BY ContactsAre
  <2>2. PICK i \in 1 .. Len(B[b]) : B[b][i] = c
    BY <2>1, ContactsAre
  <2>3. PICK j \in 1 .. Len(B[b]) : B[b][j] = d
    BY <1>1, <2>1, ContactsAre
  <2>4. i = j
    BY <1>1, <2>2, <2>3 DEF WellPlaced
  <2> QED
    BY <2>2, <2>3, <2>4
<1>2. ASSUME NEW c \in ContactsOf(B) PROVE BookOf(B)[c.id] = c.addr
  <2>1. c.id \in IdsOf(B)
    BY DEF IdsOf
  <2>2. PICK d : d = CHOOSE e \in ContactsOf(B) : e.id = c.id
    OBVIOUS
  <2>3. d \in ContactsOf(B) /\ d.id = c.id
    BY <2>2
  <2>4. d = c
    BY <1>1, <2>3
  <2> QED
    BY <2>1, <2>2, <2>4 DEF BookOf
<1>3. DOMAIN BookOf(B) = IdsOf(B)
  BY DEF BookOf
<1> QED
  BY <1>1, <1>2, <1>3

\* The book of C is that of B with c entered.
Enters(B, C, c) == BookOf(C) = [j \in IdsOf(B) \cup {c.id} |->
                                  IF j = c.id THEN c.addr ELSE BookOf(B)[j]]

\* A contact that is stored, in the place of an older one of its node or as a
\* new one, is one entry of the book.
LEMMA Stored ==
  ASSUME NEW B, NEW C, WellPlaced(B), WellPlaced(C), NEW c \in Contact, Puts(B, C, c)
  PROVE  Enters(B, C, c)
<1>1. IdsOf(C) = IdsOf(B) \cup {c.id}
  BY DEF IdsOf, Puts
<1>2. ASSUME NEW j \in IdsOf(C)
      PROVE  BookOf(C)[j] = IF j = c.id THEN c.addr ELSE BookOf(B)[j]
  <2>1. PICK x \in ContactsOf(C) : x.id = j
    BY DEF IdsOf
  <2>2. BookOf(C)[j] = x.addr
    BY <2>1, BookIs
  <2>3. CASE j = c.id
    <3>1. x = c
      BY <2>1, <2>3 DEF Puts
    <3> QED
      BY <2>2, <2>3, <3>1
  <2>4. CASE j # c.id
    <3>1. x \in ContactsOf(B)
      BY <2>1, <2>4 DEF Puts
    <3>2. BookOf(B)[j] = x.addr
      BY <2>1, <3>1, BookIs
    <3> QED
      BY <2>2, <2>4, <3>2
  <2> QED
    BY <2>3, <2>4
<1>3. BookOf(C) = [j \in IdsOf(C) |-> BookOf(C)[j]]
  BY DEF BookOf
<1> QED
  BY ONLY <1>1, <1>2, <1>3 DEF Enters

\* A contact that is taken out leaves the rest of the book.
LEMMA TakenOut ==
  ASSUME NEW B, NEW C, WellPlaced(B), WellPlaced(C), NEW id, TakesOut(B, C, id)
  PROVE  BookOf(C) = [j \in IdsOf(B) \ {id} |-> BookOf(B)[j]]
<1>1. IdsOf(C) = IdsOf(B) \ {id}
  BY DEF IdsOf, TakesOut
<1>2. ASSUME NEW j \in IdsOf(C) PROVE BookOf(C)[j] = BookOf(B)[j]
  <2>1. PICK x \in ContactsOf(C) : x.id = j
    BY DEF IdsOf
  <2>2. x \in ContactsOf(B)
    BY <2>1 DEF TakesOut
  <2> QED
    BY <2>1, <2>2, BookIs
<1> QED
  BY <1>1, <1>2 DEF BookOf

\* The class of a node that is known is its bucket: a bucket's length is the
\* number of nodes of its class.
LEMMA ClassSize ==
  ASSUME NEW B, WellPlaced(B), NEW b \in BucketIndex
  PROVE  Cardinality({j \in IdsOf(B) : PrefixLen(localID, j) = b}) = Len(B[b])
<1>1. PICK S : S = {j \in IdsOf(B) : PrefixLen(localID, j) = b}
  OBVIOUS
<1>2. Len(B[b]) \in Nat /\ B[b] \in Seq(Contact)
  BY LenProperties DEF WellPlaced
<1>3. PICK f : f = [i \in 1 .. Len(B[b]) |-> B[b][i].id]
  OBVIOUS
<1>4. ASSUME NEW i \in 1 .. Len(B[b]) PROVE f[i] \in S
  <2>1. B[b][i] \in ContactsOf(B) /\ B[b][i].id \in NodeID
        /\ B[b][i].id # localID /\ bucketIdx(B[b][i].id) = b
    BY <1>2, ContactsAre, ElementOfSeq DEF WellPlaced, Contact
  <2>2. PrefixLen(localID, B[b][i].id) = b
    BY <2>1, OwnBucket
  <2> QED
    BY <1>1, <1>3, <2>1, <2>2 DEF IdsOf
<1>5. ASSUME NEW i \in 1 .. Len(B[b]), NEW j \in 1 .. Len(B[b]), f[i] = f[j] PROVE i = j
  BY <1>3, <1>5 DEF WellPlaced
<1>6. ASSUME NEW id \in S PROVE \E i \in 1 .. Len(B[b]) : f[i] = id
  <2>1. PICK c \in ContactsOf(B) : c.id = id /\ PrefixLen(localID, id) = b
    BY <1>1 DEF IdsOf
  <2>2. bucketIdx(c.id) = b
    BY <2>1, ContactsAre, OwnBucket DEF Contact
  <2> QED
    BY <1>3, <2>1, <2>2, ContactsAre
<1>7. f \in Bijection(1 .. Len(B[b]), S)
  <2>1. f \in [1 .. Len(B[b]) -> S]
    BY <1>3, <1>4
  <2>2. f \in Injection(1 .. Len(B[b]), S)
    BY <1>5, <2>1 DEF Injection, IsInjective
  <2>3. f \in Surjection(1 .. Len(B[b]), S)
    BY <1>6, <2>1 DEF Surjection
  <2> QED
    BY <2>2, <2>3 DEF Bijection
<1> QED
  BY <1>1, <1>2, <1>7, FS_CountingElements DEF ExistsBijection

\* A node that its bucket does not hold is not known.
LEMMA UnknownIfAbsent ==
  ASSUME NEW B, WellPlaced(B), NEW id, Absent(B, bucketIdx(id), id)
  PROVE  id \notin IdsOf(B)
<1> SUFFICES ASSUME id \in IdsOf(B) PROVE FALSE
  OBVIOUS
<1>1. PICK c \in ContactsOf(B) : c.id = id
  BY DEF IdsOf
<1> QED
  BY <1>1, ContactsAre DEF Absent

\* Changing one bucket, so that its contacts are again distinct ones of that
\* bucket, leaves every contact well placed.
LEMMA OneBucketChanged ==
  ASSUME NEW B, WellPlaced(B), NEW b \in BucketIndex, NEW s \in Seq(Contact),
         \A i \in 1 .. Len(s) : /\ s[i].id # localID /\ bucketIdx(s[i].id) = b
                                /\ \A j \in 1 .. Len(s) : s[i].id = s[j].id => i = j,
         NEW C, C = [B EXCEPT ![b] = s]
  PROVE  /\ WellPlaced(C)
         /\ \A x : x \in ContactsOf(C) <=>
               \/ \E i \in 1 .. Len(s) : s[i] = x
               \/ x \in ContactsOf(B) /\ bucketIdx(x.id) # b
<1>1. /\ C \in [BucketIndex -> Seq(Contact)] /\ C[b] = s
      /\ \A d \in BucketIndex : d # b => C[d] = B[d]
  BY DEF WellPlaced
<1>2. WellPlaced(C)
  <2> SUFFICES ASSUME NEW d \in BucketIndex, NEW i \in 1 .. Len(C[d])
               PROVE  /\ C[d][i].id # localID /\ bucketIdx(C[d][i].id) = d
                      /\ \A j \in 1 .. Len(C[d]) : C[d][i].id = C[d][j].id => i = j
    BY <1>1 DEF WellPlaced
  <2>1. CASE d = b
    BY <1>1, <2>1
  <2>2. CASE d # b
    BY <1>1, <2>2 DEF WellPlaced
  <2> QED
    BY <2>1, <2>2
<1>3. ASSUME NEW x \in ContactsOf(C)
      PROVE  \/ \E i \in 1 .. Len(s) : s[i] = x
             \/ x \in ContactsOf(B) /\ bucketIdx(x.id) # b
  <2>1. PICK d \in BucketIndex : d = bucketIdx(x.id)
    BY <1>2, ContactsAre
  <2>2. PICK i \in 1 .. Len(C[d]) : C[d][i] = x
    <3>1. \E i \in 1 .. Len(C[bucketIdx(x.id)]) : C[bucketIdx(x.id)][i] = x
      BY ONLY <1>2, x \in ContactsOf(C), ContactsAre
    <3> QED
      BY <2>1, <3>1
  <2>3. CASE d = b
    BY <1>1, <2>2, <2>3
  <2>4. CASE d # b
    <3>1. C[d] = B[d]
      BY <1>1, <2>4
    <3> QED
      BY <2>1, <2>2, <2>4, <3>1, ContactsAre
  <2> QED
    BY <2>3, <2>4
<1>4. ASSUME NEW i \in 1 .. Len(s) PROVE s[i] \in ContactsOf(C)
  BY <1>1, <1>2, ContactsAre
<1>5. ASSUME NEW x \in ContactsOf(B), bucketIdx(x.id) # b PROVE x \in ContactsOf(C)
  <2>1. PICK d \in BucketIndex : d = bucketIdx(x.id)
    BY ContactsAre
  <2>2. PICK i \in 1 .. Len(B[d]) : B[d][i] = x
    BY <2>1, ContactsAre
  <2>3. C[d] = B[d]
    BY <1>1, <1>5, <2>1
  <2> QED
    BY <1>2, <2>2, <2>3, ContactsAre
<1> QED
  BY <1>2, <1>3, <1>4, <1>5

\* b.contacts[i] = c
LEMMA Replaced ==
  ASSUME NEW B, WellPlaced(B), NEW c \in Contact, c.id # localID,
         NEW b \in BucketIndex, b = bucketIdx(c.id),
         NEW i \in 1 .. Len(B[b]), B[b][i].id = c.id,
         NEW s, s = [B[b] EXCEPT ![i] = c], NEW C, C = [B EXCEPT ![b] = s]
  PROVE  WellPlaced(C) /\ c.id \in IdsOf(B) /\ Puts(B, C, c)
<1>2. B[b] \in Seq(Contact)
  BY DEF WellPlaced
<1>3. /\ s \in Seq(Contact) /\ Len(s) = Len(B[b]) /\ s[i] = c
      /\ \A j \in 1 .. Len(s) : j # i => s[j] = B[b][j]
  BY <1>2, ExceptSeq, LenProperties
<1>4. \A j \in 1 .. Len(s) : s[j].id = B[b][j].id
  BY <1>3
<1>5. \A j \in 1 .. Len(s) : /\ s[j].id # localID /\ bucketIdx(s[j].id) = b
                             /\ \A k \in 1 .. Len(s) : s[j].id = s[k].id => j = k
  <2> SUFFICES ASSUME NEW j \in 1 .. Len(s)
               PROVE  /\ s[j].id # localID /\ bucketIdx(s[j].id) = b
                      /\ \A k \in 1 .. Len(s) : s[j].id = s[k].id => j = k
    OBVIOUS
  <2>1. j \in 1 .. Len(B[b]) /\ s[j].id = B[b][j].id
    BY <1>3, <1>4
  <2>2. /\ B[b][j].id # localID /\ bucketIdx(B[b][j].id) = b
        /\ \A k \in 1 .. Len(B[b]) : B[b][j].id = B[b][k].id => j = k
    BY <2>1 DEF WellPlaced
  <2>3. ASSUME NEW k \in 1 .. Len(s), s[j].id = s[k].id PROVE j = k
    <3>1. k \in 1 .. Len(B[b]) /\ s[k].id = B[b][k].id
      BY <1>3, <1>4
    <3> QED
      BY <2>1, <2>2, <2>3, <3>1
  <2> QED
    BY <2>1, <2>2, <2>3
<1>7. /\ WellPlaced(C)
      /\ \A x : x \in ContactsOf(C) <=>
               \/ \E j \in 1 .. Len(s) : s[j] = x
               \/ x \in ContactsOf(B) /\ bucketIdx(x.id) # b
  BY ONLY <1>3, <1>5, OneBucketChanged, WellPlaced(B), b \in BucketIndex,
          C = [B EXCEPT ![b] = s]
<1>8. c.id \in IdsOf(B)
  <2>1. B[b][i] \in ContactsOf(B)
    BY ContactsAre
  <2> QED
    BY <2>1 DEF IdsOf
<1>9. ASSUME NEW x \in ContactsOf(C), x # c PROVE x \in ContactsOf(B) /\ x.id # c.id
  <2>1. CASE \E j \in 1 .. Len(s) : s[j] = x
    <3>1. PICK j \in 1 .. Len(s) : s[j] = x
      BY <2>1
    <3>2. j # i
      BY <1>3, <1>9, <3>1
    <3>3. x = B[b][j] /\ j \in 1 .. Len(B[b])
      BY <1>3, <3>1, <3>2
    <3> QED
      BY <3>2, <3>3, ContactsAre DEF WellPlaced
  <2>2. CASE x \in ContactsOf(B) /\ bucketIdx(x.id) # b
    BY <2>2
  <2> QED
    BY <1>7, <2>1, <2>2
<1>10. c \in ContactsOf(C)
  BY <1>3, <1>7
<1>11. ASSUME NEW x \in ContactsOf(B), x.id # c.id PROVE x \in ContactsOf(C)
  <2>1. CASE bucketIdx(x.id) = b
    <3>1. PICK j \in 1 .. Len(B[b]) : B[b][j] = x
      BY <2>1, ContactsAre
    <3>2. j # i
      BY <1>11, <3>1
    <3>3. s[j] = x /\ j \in 1 .. Len(s)
      BY <1>3, <3>1, <3>2
    <3> QED
      BY <1>7, <3>3
  <2>2. CASE bucketIdx(x.id) # b
    BY <1>7, <2>2
  <2> QED
    BY <2>1, <2>2
<1> QED
  BY <1>7, <1>8, <1>9, <1>10, <1>11 DEF Puts

\* b.contacts = append(b.contacts, c)
LEMMA Added ==
  ASSUME NEW B, WellPlaced(B), NEW c \in Contact, c.id # localID,
         NEW b \in BucketIndex, b = bucketIdx(c.id),
         Absent(B, b, c.id),
         NEW s, s = Append(B[b], c), NEW C, C = [B EXCEPT ![b] = s]
  PROVE  WellPlaced(C) /\ c.id \notin IdsOf(B) /\ Puts(B, C, c)
<1>2. B[b] \in Seq(Contact) /\ Len(B[b]) \in Nat
  BY LenProperties DEF WellPlaced
<1>3. /\ s \in Seq(Contact) /\ Len(s) = Len(B[b]) + 1 /\ s[Len(B[b]) + 1] = c
      /\ \A j \in 1 .. Len(B[b]) : s[j] = B[b][j]
  BY <1>2, AppendProperties
<1>4. ASSUME NEW j \in 1 .. Len(s)
      PROVE  (j \in 1 .. Len(B[b]) /\ s[j] = B[b][j]) \/ (j = Len(B[b]) + 1 /\ s[j] = c)
  BY <1>2, <1>3
<1>5. ASSUME NEW j \in 1 .. Len(s)
      PROVE  /\ s[j].id # localID /\ bucketIdx(s[j].id) = b
             /\ \A k \in 1 .. Len(s) : s[j].id = s[k].id => j = k
  <2>1. s[j].id # localID /\ bucketIdx(s[j].id) = b
    BY <1>4 DEF WellPlaced
  <2>2. ASSUME NEW k \in 1 .. Len(s), s[j].id = s[k].id PROVE j = k
    <3>1. CASE j \in 1 .. Len(B[b]) /\ s[j] = B[b][j]
      <4>1. k \in 1 .. Len(B[b]) /\ s[k] = B[b][k]
        BY <1>4, <2>2, <3>1 DEF Absent
      <4> QED
        BY <2>2, <3>1, <4>1 DEF WellPlaced
    <3>2. CASE j = Len(B[b]) + 1 /\ s[j] = c
      BY <1>4, <2>2, <3>2 DEF Absent
    <3> QED
      BY <1>4, <3>1, <3>2
  <2> QED
    BY <2>1, <2>2
<1>7. /\ WellPlaced(C)
      /\ \A x : x \in ContactsOf(C) <=>
               \/ \E j \in 1 .. Len(s) : s[j] = x
               \/ x \in ContactsOf(B) /\ bucketIdx(x.id) # b
  BY ONLY <1>3, <1>5, OneBucketChanged, WellPlaced(B), b \in BucketIndex,
          C = [B EXCEPT ![b] = s]
<1>8. c.id \notin IdsOf(B)
  BY UnknownIfAbsent
<1>9. ASSUME NEW x \in ContactsOf(C), x # c PROVE x \in ContactsOf(B) /\ x.id # c.id
  <2>1. CASE \E j \in 1 .. Len(s) : s[j] = x
    <3>1. PICK j \in 1 .. Len(s) : s[j] = x
      BY <2>1
    <3>2. x = B[b][j] /\ j \in 1 .. Len(B[b])
      BY <1>4, <1>9, <3>1
    <3> QED
      BY <3>2, ContactsAre DEF Absent
  <2>2. CASE x \in ContactsOf(B) /\ bucketIdx(x.id) # b
    BY <2>2
  <2> QED
    BY <1>7, <2>1, <2>2
<1>10. c \in ContactsOf(C)
  <2>1. Len(B[b]) + 1 \in 1 .. Len(s)
    BY <1>2, <1>3
  <2> QED
    BY <1>3, <1>7, <2>1
<1>11. ASSUME NEW x \in ContactsOf(B), x.id # c.id PROVE x \in ContactsOf(C)
  <2>1. CASE bucketIdx(x.id) = b
    <3>1. PICK j \in 1 .. Len(B[b]) : B[b][j] = x
      BY <2>1, ContactsAre
    <3>2. s[j] = x /\ j \in 1 .. Len(s)
      BY <1>2, <1>3, <3>1
    <3> QED
      BY <1>7, <3>2
  <2>2. CASE bucketIdx(x.id) # b
    BY <1>7, <2>2
  <2> QED
    BY <2>1, <2>2
<1> QED
  BY <1>7, <1>8, <1>9, <1>10, <1>11 DEF Puts

\* Without keeps the other entries, in their order.
LEMMA WithoutIs ==
  ASSUME NEW S, NEW s \in Seq(S), NEW i \in 1 .. Len(s)
  PROVE  /\ Without(s, i) \in Seq(S) /\ Len(Without(s, i)) = Len(s) - 1
         /\ \A k \in 1 .. Len(s) - 1 : Without(s, i)[k] = IF k < i THEN s[k] ELSE s[k + 1]
<1>0. Len(s) \in Nat /\ i \in Nat /\ i >= 1 /\ i <= Len(s)
  BY LenProperties
<1>1. \A k \in 1 .. Len(s) : s[k] \in S
  BY ElementOfSeq
<1>2. PICK front : front = SubSeq(s, 1, i - 1)
  OBVIOUS
<1>3. PICK back : back = SubSeq(s, i + 1, Len(s))
  OBVIOUS
<1>4. /\ front \in Seq(S) /\ Len(front) = i - 1
      /\ \A k \in 1 .. i - 1 : front[k] = s[k]
  <2>1. /\ \A k \in 1 .. i - 1 : s[k] \in S
        /\ 1 \in Int /\ i - 1 \in Int
    BY <1>0, <1>1
  <2>2. /\ SubSeq(s, 1, i - 1) \in Seq(S)
        /\ Len(SubSeq(s, 1, i - 1)) = IF 1 <= i - 1 THEN (i - 1) - 1 + 1 ELSE 0
        /\ \A k \in 1 .. (i - 1) - 1 + 1 : SubSeq(s, 1, i - 1)[k] = s[1 + k - 1]
    BY ONLY <2>1, SubSeqProperties
  <2> QED
    BY <1>0, <1>2, <2>2
<1>5. /\ back \in Seq(S) /\ Len(back) = Len(s) - i
      /\ \A k \in 1 .. Len(s) - i : back[k] = s[i + k]
  <2>1. /\ \A k \in i + 1 .. Len(s) : s[k] \in S
        /\ i + 1 \in Int /\ Len(s) \in Int
    BY <1>0, <1>1
  <2>2. /\ SubSeq(s, i + 1, Len(s)) \in Seq(S)
        /\ Len(SubSeq(s, i + 1, Len(s))) =
              IF i + 1 <= Len(s) THEN Len(s) - (i + 1) + 1 ELSE 0
        /\ \A k \in 1 .. Len(s) - (i + 1) + 1 :
              SubSeq(s, i + 1, Len(s))[k] = s[(i + 1) + k - 1]
    BY ONLY <2>1, SubSeqProperties
  <2>3. ASSUME NEW k \in 1 .. Len(s) - i PROVE back[k] = s[i + k]
    <3>1. (i + 1) + k - 1 = i + k /\ k \in 1 .. Len(s) - (i + 1) + 1
      BY <1>0
    <3> QED
      BY <1>3, <2>2, <3>1
  <2> QED
    BY <1>0, <1>3, <2>2, <2>3
<1>6. /\ front \o back \in Seq(S) /\ Len(front \o back) = Len(front) + Len(back)
      /\ \A k \in 1 .. Len(front) + Len(back) :
            (front \o back)[k] = IF k <= Len(front) THEN front[k] ELSE back[k - Len(front)]
  BY <1>4, <1>5, ConcatProperties
<1>7. Without(s, i) = front \o back
  BY <1>2, <1>3 DEF Without
<1>8. Len(front) + Len(back) = Len(s) - 1
  BY <1>0, <1>4, <1>5
<1>9. ASSUME NEW k \in 1 .. Len(s) - 1
      PROVE  (front \o back)[k] = IF k < i THEN s[k] ELSE s[k + 1]
  <2>1. CASE k < i
    BY <1>0, <1>4, <1>6, <1>8, <2>1
  <2>2. CASE ~(k < i)
    <3>1. /\ k - (i - 1) \in 1 .. Len(s) - i /\ i + (k - (i - 1)) = k + 1 /\ ~(k <= i - 1)
      BY <1>0, <2>2
    <3>2. (front \o back)[k] = back[k - (i - 1)]
      BY <1>4, <1>6, <1>8, <3>1
    <3> QED
      BY <1>5, <2>2, <3>1, <3>2
  <2> QED
    BY <2>1, <2>2
<1> QED
  BY <1>6, <1>7, <1>8, <1>9

\* Remove takes out the one contact of the node.
LEMMA Removed ==
  ASSUME NEW B, WellPlaced(B), NEW b \in BucketIndex,
         NEW i \in 1 .. Len(B[b]), NEW id, B[b][i].id = id,
         NEW s, s = Without(B[b], i), NEW C, C = [B EXCEPT ![b] = s]
  PROVE  WellPlaced(C) /\ TakesOut(B, C, id)
<1>2. B[b] \in Seq(Contact) /\ Len(B[b]) \in Nat
  BY LenProperties DEF WellPlaced
<1>3. /\ s \in Seq(Contact) /\ Len(s) = Len(B[b]) - 1
      /\ \A k \in 1 .. Len(B[b]) - 1 : s[k] = IF k < i THEN B[b][k] ELSE B[b][k + 1]
  BY <1>2, WithoutIs
<1> DEFINE old(k) == IF k < i THEN k ELSE k + 1
<1>4. \A k \in 1 .. Len(s) : old(k) \in 1 .. Len(B[b]) /\ old(k) # i /\ s[k] = B[b][old(k)]
  BY <1>2, <1>3
<1>5. \A k, l \in 1 .. Len(s) : old(k) = old(l) => k = l
  BY <1>2, <1>3
<1>6. \A m \in 1 .. Len(B[b]) : m # i => \E k \in 1 .. Len(s) : old(k) = m
  <2> SUFFICES ASSUME NEW m \in 1 .. Len(B[b]), m # i
               PROVE  \E k \in 1 .. Len(s) : old(k) = m
    OBVIOUS
  <2>1. CASE m < i
    <3>1. m \in 1 .. Len(s) /\ old(m) = m
      BY <1>2, <1>3, <2>1
    <3> QED
      BY <3>1
  <2>2. CASE m > i
    <3>1. m - 1 \in 1 .. Len(s) /\ old(m - 1) = m
      BY <1>2, <1>3, <2>2
    <3> QED
      BY <3>1
  <2> QED
    BY <1>2, <2>1, <2>2
<1> HIDE DEF old
<1>7. ASSUME NEW k \in 1 .. Len(s)
      PROVE  /\ s[k].id # localID /\ bucketIdx(s[k].id) = b
             /\ \A l \in 1 .. Len(s) : s[k].id = s[l].id => k = l
  <2>1. old(k) \in 1 .. Len(B[b]) /\ s[k] = B[b][old(k)]
    BY <1>4
  <2>2. /\ s[k].id # localID /\ bucketIdx(s[k].id) = b
        /\ \A j \in 1 .. Len(B[b]) : s[k].id = B[b][j].id => old(k) = j
    BY <2>1 DEF WellPlaced
  <2>3. ASSUME NEW l \in 1 .. Len(s), s[k].id = s[l].id PROVE k = l
    <3>1. old(l) \in 1 .. Len(B[b]) /\ s[l] = B[b][old(l)]
      BY <1>4
    <3>2. old(k) = old(l)
      BY <2>2, <2>3, <3>1
    <3> QED
      BY <1>5, <3>2
  <2> QED
    BY <2>2, <2>3
<1>9. /\ WellPlaced(C)
      /\ \A x : x \in ContactsOf(C) <=>
               \/ \E j \in 1 .. Len(s) : s[j] = x
               \/ x \in ContactsOf(B) /\ bucketIdx(x.id) # b
  BY ONLY <1>3, <1>7, OneBucketChanged, WellPlaced(B), b \in BucketIndex,
          C = [B EXCEPT ![b] = s]
<1>10. bucketIdx(id) = b
  BY DEF WellPlaced
<1>11. ASSUME NEW x \in ContactsOf(C) PROVE x \in ContactsOf(B) /\ x.id # id
  <2>1. CASE \E j \in 1 .. Len(s) : s[j] = x
    <3>1. PICK j \in 1 .. Len(s) : s[j] = x
      BY <2>1
    <3>2. PICK m \in 1 .. Len(B[b]) : m # i /\ x = B[b][m]
      BY <1>4, <3>1
    <3> QED
      BY <3>2, ContactsAre DEF WellPlaced
  <2>2. CASE x \in ContactsOf(B) /\ bucketIdx(x.id) # b
    BY <1>10, <2>2
  <2> QED
    BY <1>9, <2>1, <2>2
<1>12. ASSUME NEW x \in ContactsOf(B), x.id # id PROVE x \in ContactsOf(C)
  <2>1. CASE bucketIdx(x.id) = b
    <3>1. PICK m \in 1 .. Len(B[b]) : B[b][m] = x
      BY <2>1, ContactsAre
    <3>2. m # i
      BY <1>12, <3>1
    <3>3. PICK k \in 1 .. Len(s) : s[k] = x
      BY <1>4, <1>6, <3>1, <3>2
    <3> QED
      BY <1>9, <3>3
  <2>2. CASE bucketIdx(x.id) # b
    BY <1>9, <2>2
  <2> QED
    BY <2>1, <2>2
<1> QED
  BY <1>9, <1>11, <1>12 DEF TakesOut

\* The buckets of a new table are empty.
LEMMA InitWellPlaced == NewRoutingTable => WellPlaced(buckets) /\ Book!Init
<1> SUFFICES ASSUME NewRoutingTable PROVE WellPlaced(buckets) /\ Book!Init
  OBVIOUS
<1>1. \A b \in BucketIndex : buckets[b] = <<>> /\ Len(buckets[b]) = 0
  BY DEF NewRoutingTable
<1>2. WellPlaced(buckets)
  <2>1. buckets \in [BucketIndex -> Seq(Contact)]
    BY EmptySeq DEF NewRoutingTable
  <2> QED
    BY <1>1, <2>1 DEF WellPlaced
<1>3. Contacts = {}
  BY <1>1 DEF Contacts
<1> QED
  BY <1>2, <1>3 DEF Book!Init, NewRoutingTable

\* The mapping of the refinement, in the terms of the lemmas.
LEMMA BookMapping ==
  /\ Contacts = ContactsOf(buckets)
  /\ Book!Known = IdsOf(buckets)
  BY DEF Contacts, ContactsOf, IdsOf, Book!Known

\* The book counts as the table does.
LEMMA BookCounts == \A S : Book!Cardinality(S) = Cardinality(S)
  BY Zenon DEF Book!Cardinality, Cardinality

\* Whether a node is acceptable, read off its bucket.
LEMMA AcceptableIs ==
  ASSUME WellPlaced(buckets), NEW id \in NodeID, id # localID
  PROVE  Book!Acceptable(id) <=>
            id \in IdsOf(buckets) \/ Len(buckets[bucketIdx(id)]) < BucketSize
<1>1. bucketIdx(id) \in BucketIndex /\ bucketIdx(id) = PrefixLen(localID, id)
  BY OwnBucket
<1>2. \A j \in IdsOf(buckets) : j \in NodeID
  BY ContactsAre DEF IdsOf, Contact
<1>3. PICK b \in BucketIndex : b = bucketIdx(id)
  BY <1>1
<1> DEFINE Class == [j \in NodeID |-> PrefixLen(localID, j)]
<1>4. {j \in IdsOf(buckets) : Class[j] = Class[id]}
        = {j \in IdsOf(buckets) : PrefixLen(localID, j) = b}
  BY <1>1, <1>2, <1>3
<1>5. Cardinality({j \in IdsOf(buckets) : Class[j] = Class[id]}) = Len(buckets[b])
  BY <1>4, ClassSize
<1>6. Book!Acceptable(id) <=>
         /\ id # localID
         /\ \/ id \in Book!Known
            \/ Cardinality({j \in Book!Known : Class[j] = Class[id]}) < BucketSize
  BY BookCounts, Zenon DEF Book!Acceptable
<1>7. Book!Acceptable(id) <=>
         /\ id # localID
         /\ \/ id \in IdsOf(buckets)
            \/ Cardinality({j \in IdsOf(buckets) : Class[j] = Class[id]}) < BucketSize
  BY <1>6, BookMapping, Zenon
<1> HIDE DEF Class
<1> QED
  BY <1>3, <1>5, <1>7

\* The loops stop at the entry of the node exactly if there is one.
LEMMA FirstOfIs ==
  ASSUME WellPlaced(buckets), NEW b \in BucketIndex, NEW id
  PROVE  FirstOf(b, id) = {i \in 1 .. Len(buckets[b]) : buckets[b][i].id = id}
<1>1. buckets[b] \in Seq(Contact) /\ Len(buckets[b]) \in Nat
      /\ DOMAIN buckets[b] = 1 .. Len(buckets[b])
  BY LenProperties DEF WellPlaced
<1>2. ASSUME NEW i \in 1 .. Len(buckets[b]), buckets[b][i].id = id,
             NEW j \in 1 .. i - 1
      PROVE  buckets[b][j].id # id
  <2>1. j \in 1 .. Len(buckets[b]) /\ j # i
    BY <1>1
  <2> QED
    BY <1>2, <2>1 DEF WellPlaced
<1> QED
  BY <1>1, <1>2 DEF FirstOf

\* Storing a contact is an offer that the book accepts.
LEMMA StoringIsOffer ==
  ASSUME WellPlaced(buckets), WellPlaced(buckets'), NEW c \in Contact, c.id # localID,
         c.id \in IdsOf(buckets) \/ Len(buckets[bucketIdx(c.id)]) < BucketSize,
         Puts(buckets, buckets', c),
         addResult' = [id |-> c.id, ok |-> TRUE]
  PROVE  Book!Offer(c.id, c.addr)
<1>1. c.id \in NodeID
  BY DEF Contact
<1>2. Book!Acceptable(c.id) = TRUE
  BY <1>1, AcceptableIs DEF Book!Acceptable
<1>3. Enters(buckets, buckets', c)
  BY Stored
<1> QED
  BY <1>2, <1>3, BookMapping DEF Enters, Book!Offer, BookOf, IdsOf, Contacts, ContactsOf

\* A call of Add is an offer, with the answer that the book gives.
LEMMA AddIsOffer ==
  ASSUME WellPlaced(buckets), NEW c \in Contact, Add(c)
  PROVE  WellPlaced(buckets') /\ Book!Offer(c.id, c.addr)
<1>0. c.id \in NodeID
  BY DEF Contact
<1>1. CASE c.id = localID
  <2>1. buckets' = buckets /\ addResult' = [id |-> c.id, ok |-> FALSE]
    BY <1>1 DEF Add, AddReplaces, AddAppends, AddRefuses
  <2>2. Book!Acceptable(c.id) = FALSE
    BY <1>1 DEF Book!Acceptable
  <2>3. BookOf(buckets') = BookOf(buckets)
    BY <2>1
  <2>4. WellPlaced(buckets')
    BY <2>1
  <2>5. Book!Offer(c.id, c.addr)
    BY <2>1, <2>2, <2>3 DEF Book!Offer, BookOf, IdsOf, Contacts, ContactsOf
  <2> QED
    BY <2>4, <2>5
<1>2. CASE c.id # localID
  <2>1. PICK b \in BucketIndex : b = bucketIdx(c.id)
    BY <1>0, <1>2, OwnBucket
  <2>2. FirstOf(b, c.id) = {i \in 1 .. Len(buckets[b]) : buckets[b][i].id = c.id}
    BY FirstOfIs
  <2>3. CASE AddReplaces(c)
    <3>1. PICK i \in 1 .. Len(buckets[b]) : /\ buckets[b][i].id = c.id
                                            /\ buckets' = [buckets EXCEPT ![b][i] = c]
      BY <2>1, <2>2, <2>3 DEF AddReplaces
    <3>2. PICK s : s = [buckets[b] EXCEPT ![i] = c] /\ buckets' = [buckets EXCEPT ![b] = s]
      BY <3>1
    <3>3. WellPlaced(buckets') /\ c.id \in IdsOf(buckets) /\ Puts(buckets, buckets', c)
      BY <1>2, <2>1, <3>1, <3>2, Replaced
    <3>4. addResult' = [id |-> c.id, ok |-> TRUE]
      BY <2>3 DEF AddReplaces
    <3> QED
      BY <1>2, <3>3, <3>4, StoringIsOffer
  <2>4. CASE AddAppends(c)
    <3>1. /\ Absent(buckets, b, c.id)
          /\ Len(buckets[b]) < BucketSize
          /\ buckets' = [buckets EXCEPT ![b] = Append(buckets[b], c)]
      BY <2>1, <2>2, <2>4 DEF AddAppends, Absent
    <3>2. PICK s : s = Append(buckets[b], c) /\ buckets' = [buckets EXCEPT ![b] = s]
      BY <3>1
    <3>3. WellPlaced(buckets') /\ Puts(buckets, buckets', c)
      <4>1. PICK B, C : B = buckets /\ C = buckets'
        OBVIOUS
      <4>2. WellPlaced(B) /\ Absent(B, b, c.id)
        BY <3>1, <4>1
      <4>3. s = Append(B[b], c) /\ C = [B EXCEPT ![b] = s]
        BY <3>2, <4>1
      <4>4. WellPlaced(C) /\ Puts(B, C, c)
        BY ONLY c \in Contact, b \in BucketIndex, <1>2, <2>1, <4>2, <4>3, Added
      <4> QED
        BY <4>1, <4>4
    <3>4. addResult' = [id |-> c.id, ok |-> TRUE]
      BY <2>4 DEF AddAppends
    <3> QED
      BY <1>2, <2>1, <3>1, <3>3, <3>4, StoringIsOffer
  <2>5. CASE AddRefuses(c)
    <3>1. /\ Absent(buckets, b, c.id)
          /\ Len(buckets[b]) >= BucketSize
          /\ addResult' = [id |-> c.id, ok |-> FALSE] /\ buckets' = buckets
      BY <1>2, <2>1, <2>2, <2>5 DEF AddRefuses, Absent
    <3>2. c.id \notin IdsOf(buckets)
      BY <2>1, <3>1, UnknownIfAbsent
    <3>3. Len(buckets[b]) \in Nat /\ BucketSize \in Nat
      BY LenProperties, RoutingAssumption DEF WellPlaced
    <3>4. Book!Acceptable(c.id) = FALSE
      <4>1. ~Book!Acceptable(c.id)
        BY <1>0, <1>2, <2>1, <3>1, <3>2, <3>3, AcceptableIs
      <4> QED
        BY <4>1, Zenon DEF Book!Acceptable
    <3>5. BookOf(buckets') = BookOf(buckets)
      BY <3>1
    <3>6. Book!Offer(c.id, c.addr)
      BY <3>1, <3>4, <3>5 DEF Book!Offer, BookOf, IdsOf, Contacts, ContactsOf
    <3> QED
      BY <3>1, <3>6
  <2> QED
    BY <2>3, <2>4, <2>5 DEF Add
<1> QED
  BY <1>1, <1>2

\* A call of Remove that finds its node forgets it.
LEMMA RemoveIsForget ==
  ASSUME WellPlaced(buckets), NEW id \in NodeID, Remove(id)
  PROVE  WellPlaced(buckets') /\ Book!Forget(id)
<1>1. PICK b \in BucketIndex : b = bucketIdx(id)
  BY OwnBucket
<1>2. FirstOf(b, id) = {i \in 1 .. Len(buckets[b]) : buckets[b][i].id = id}
  BY FirstOfIs
<1>3. PICK i \in 1 .. Len(buckets[b]) :
        /\ buckets[b][i].id = id
        /\ buckets' = [buckets EXCEPT ![b] = Without(buckets[b], i)]
  BY <1>1, <1>2 DEF Remove
<1>4. PICK s : s = Without(buckets[b], i) /\ buckets' = [buckets EXCEPT ![b] = s]
  BY <1>3
<1>5. WellPlaced(buckets') /\ TakesOut(buckets, buckets', id)
  BY <1>3, <1>4, Removed
<1>6. BookOf(buckets') = [j \in IdsOf(buckets) \ {id} |-> BookOf(buckets)[j]]
  BY <1>5, TakenOut
<1>7. addResult' = addResult
  BY DEF Remove
<1> QED
  BY <1>5, <1>6, <1>7, BookMapping
     DEF Book!Forget, BookOf, IdsOf, Contacts, ContactsOf

\* The routing table implements ContactBook: a contact is refused only if it
\* is the table's own or BucketSize others of its prefix length are known and
\* not removed, one that is removed is gone, the last accepted address is kept
\* and no call disturbs another contact (dht.go, Add and Remove).
THEOREM ImplementsContactBookTheorem == PackagesSpec => ImplementsContactBook
<1>1. PackagesInit => WellPlaced(buckets) /\ Book!Init
  BY InitWellPlaced DEF PackagesInit
<1>2. WellPlaced(buckets) /\ [PackagesNext]_allVars =>
         WellPlaced(buckets)' /\ [Book!Next]_(Book!bookVars)
  <2> SUFFICES ASSUME WellPlaced(buckets), [RoutingNext]_routingVars
               PROVE  WellPlaced(buckets') /\ [Book!Next]_(Book!bookVars)
    BY RoutingSteps
  <2>1. CASE UNCHANGED routingVars
    BY <2>1 DEF routingVars, Book!bookVars, Contacts
  <2>2. ASSUME NEW c \in Contact, Add(c) PROVE WellPlaced(buckets') /\ Book!Next
    <3>1. c.id \in NodeID /\ c.addr \in ContactAddrs
      BY DEF Contact
    <3> QED
      BY <2>2, <3>1, AddIsOffer DEF Book!Next
  <2>3. ASSUME NEW id \in NodeID, Remove(id) PROVE WellPlaced(buckets') /\ Book!Next
    BY <2>3, RemoveIsForget DEF Book!Next
  <2> QED
    BY <2>1, <2>2, <2>3 DEF RoutingNext
<1> QED
  BY <1>1, <1>2, PTL DEF PackagesSpec, ImplementsContactBook, Book!Spec

\* The contacts stay well placed, and Add's last answer is one.
RoutingInv == WellPlaced(buckets) /\ addResult \in [id : NodeID, ok : BOOLEAN]

\* RoutingInv is inductive.
LEMMA RoutingInvariance == PackagesSpec => []RoutingInv
<1>1. PackagesInit => RoutingInv
  BY InitWellPlaced, RoutingAssumption DEF PackagesInit, NewRoutingTable, RoutingInv
<1>2. RoutingInv /\ [PackagesNext]_allVars => RoutingInv'
  <2> SUFFICES ASSUME WellPlaced(buckets), addResult \in [id : NodeID, ok : BOOLEAN],
                      [RoutingNext]_routingVars
               PROVE  WellPlaced(buckets') /\ addResult' \in [id : NodeID, ok : BOOLEAN]
    BY RoutingSteps DEF RoutingInv
  <2>1. CASE UNCHANGED routingVars
    BY <2>1 DEF routingVars
  <2>2. ASSUME NEW c \in Contact, Add(c)
        PROVE  WellPlaced(buckets') /\ addResult' \in [id : NodeID, ok : BOOLEAN]
    <3>1. c.id \in NodeID
      BY DEF Contact
    <3>2. WellPlaced(buckets')
      BY <2>2, AddIsOffer
    <3>3. \E ok \in BOOLEAN : addResult' = [id |-> c.id, ok |-> ok]
      BY <2>2, Zenon DEF Add, AddReplaces, AddAppends, AddRefuses
    <3> QED
      BY <3>1, <3>2, <3>3
  <2>3. ASSUME NEW id \in NodeID, Remove(id)
        PROVE  WellPlaced(buckets') /\ addResult' \in [id : NodeID, ok : BOOLEAN]
    BY <2>3, RemoveIsForget DEF Remove
  <2> QED
    BY <2>1, <2>2, <2>3 DEF RoutingNext
<1> QED
  BY <1>1, <1>2, PTL DEF PackagesSpec

-----------------------------------------------------------------------------
(* FindClosest *)

\* v has the values of the first bits of x, for each number of bits up to n.
Horner(v, x, n) == v = [i \in 0 .. n |-> IF i = 0 THEN 0 ELSE 2 * v[i - 1] + x[i]]

\* Such values exist, for any number of bits.
LEMMA HornerExists ==
  ASSUME NEW x, NEW N \in Nat
  PROVE  \E v : Horner(v, x, N)
<1> DEFINE P == {n \in Nat : \E v : Horner(v, x, n)}
<1>p. \A n \in Nat : n \in P <=> \E v : Horner(v, x, n)
  OBVIOUS
<1> HIDE DEF P
<1>1. 0 \in P
  <2> DEFINE v == [i \in 0 .. 0 |-> 0]
  <2>1. \A i \in 0 .. 0 : i = 0 /\ v[i] = 0
    OBVIOUS
  <2>2. v = [i \in 0 .. 0 |-> v[i]]
    OBVIOUS
  <2> HIDE DEF v
  <2>3. Horner(v, x, 0)
    BY <2>1, <2>2 DEF Horner
  <2> QED
    BY <2>3, <1>p
<1>2. \A n \in Nat : n \in P => n + 1 \in P
  <2> SUFFICES ASSUME NEW n \in Nat, n \in P PROVE \E v : Horner(v, x, n + 1)
    BY <1>p
  <2>1. PICK v : Horner(v, x, n)
    BY <1>p
  <2>2. \A i \in 0 .. n : v[i] = IF i = 0 THEN 0 ELSE 2 * v[i - 1] + x[i]
    BY <2>1 DEF Horner
  <2> DEFINE w == [i \in 0 .. n + 1 |-> IF i = n + 1 THEN 2 * v[n] + x[n + 1] ELSE v[i]]
  <2>3. /\ \A i \in 0 .. n : w[i] = v[i]
        /\ w[n + 1] = 2 * v[n] + x[n + 1]
        /\ w = [i \in 0 .. n + 1 |-> w[i]]
    OBVIOUS
  <2> HIDE DEF w
  <2>4. ASSUME NEW i \in 0 .. n + 1
        PROVE  w[i] = IF i = 0 THEN 0 ELSE 2 * w[i - 1] + x[i]
    <3>1. CASE i = n + 1
      <4>1. i # 0 /\ i - 1 = n /\ n \in 0 .. n
        BY <3>1
      <4> QED
        BY <2>3, <3>1, <4>1
    <3>2. CASE i = 0
      BY <2>2, <2>3, <3>2
    <3>3. CASE i # n + 1 /\ i # 0
      <4>1. i \in 0 .. n /\ i - 1 \in 0 .. n
        BY <3>3
      <4> QED
        BY <2>2, <2>3, <3>3, <4>1
    <3> QED
      BY <3>1, <3>2, <3>3
  <2>5. Horner(w, x, n + 1)
    BY <2>3, <2>4 DEF Horner
  <2> QED
    BY <2>5
<1> QED
  BY <1>1, <1>2, <1>p, NatSetInduction

\* They are natural numbers, each given by the one before it.
HornerSteps(v, x, N) == /\ v[0] = 0
                        /\ \A i \in 1 .. N : v[i] = 2 * v[i - 1] + x[i]
                        /\ \A i \in 0 .. N : v[i] \in Nat

\* So they are for any bits.
LEMMA HornerIs ==
  ASSUME NEW N \in Nat, NEW x \in [1 .. N -> {0, 1}], NEW v, Horner(v, x, N)
  PROVE  HornerSteps(v, x, N)
<1>1. \A i \in 0 .. N : v[i] = IF i = 0 THEN 0 ELSE 2 * v[i - 1] + x[i]
  BY DEF Horner
<1>2. v[0] = 0 /\ \A i \in 1 .. N : v[i] = 2 * v[i - 1] + x[i]
  BY <1>1
<1> DEFINE P == {n \in Nat : n <= N => v[n] \in Nat}
<1>p. \A n \in Nat : n \in P <=> (n <= N => v[n] \in Nat)
  OBVIOUS
<1> HIDE DEF P
<1>3. 0 \in P
  BY <1>2, <1>p
<1>4. \A n \in Nat : n \in P => n + 1 \in P
  <2> SUFFICES ASSUME NEW n \in Nat, n \in P, n + 1 <= N PROVE v[n + 1] \in Nat
    BY <1>p
  <2>1. v[n] \in Nat /\ n + 1 \in 1 .. N /\ (n + 1) - 1 = n
    BY <1>p
  <2>2. v[n + 1] = 2 * v[n] + x[n + 1] /\ x[n + 1] \in {0, 1}
    BY <1>2, <2>1
  <2> QED
    BY <2>1, <2>2
<1>5. Nat \subseteq P
  BY <1>3, <1>4, NatSetInduction
<1>6. \A i \in 0 .. N : v[i] \in Nat
  BY <1>5, <1>p
<1> QED
  BY <1>2, <1>6 DEF HornerSteps

\* The first bit that differs decides.
LEMMA HornerLess ==
  ASSUME NEW N \in Nat, NEW x \in [1 .. N -> {0, 1}], NEW v, Horner(v, x, N),
         NEW y \in [1 .. N -> {0, 1}], NEW w, Horner(w, y, N),
         NEW p \in 1 .. N, x[p] < y[p], \A j \in 1 .. p - 1 : x[j] = y[j]
  PROVE  v[N] < w[N]
<1>v. /\ v[0] = 0 /\ \A i \in 1 .. N : v[i] = 2 * v[i - 1] + x[i]
      /\ \A i \in 0 .. N : v[i] \in Nat
  <2>1. HornerSteps(v, x, N)
    BY HornerIs
  <2> QED
    BY ONLY <2>1 DEF HornerSteps
<1>w. /\ w[0] = 0 /\ \A i \in 1 .. N : w[i] = 2 * w[i - 1] + y[i]
      /\ \A i \in 0 .. N : w[i] \in Nat
  <2>1. HornerSteps(w, y, N)
    BY HornerIs
  <2> QED
    BY ONLY <2>1 DEF HornerSteps
<1> DEFINE P == {n \in Nat : n <= N => IF n < p THEN v[n] = w[n] ELSE v[n] < w[n]}
<1>p. \A n \in Nat : n \in P <=> (n <= N => IF n < p THEN v[n] = w[n] ELSE v[n] < w[n])
  OBVIOUS
<1> HIDE DEF P
<1>1. 0 \in P
  BY <1>v, <1>w, <1>p
<1>2. \A n \in Nat : n \in P => n + 1 \in P
  <2> SUFFICES ASSUME NEW n \in Nat, n \in P, n + 1 <= N PROVE n + 1 \in P
    BY <1>p
  <2>1. /\ n + 1 \in 1 .. N /\ (n + 1) - 1 = n /\ n \in 0 .. N
        /\ x[n + 1] \in {0, 1} /\ y[n + 1] \in {0, 1}
    OBVIOUS
  <2>2. /\ v[n + 1] = 2 * v[n] + x[n + 1] /\ w[n + 1] = 2 * w[n] + y[n + 1]
        /\ v[n] \in Nat /\ w[n] \in Nat
    BY <1>v, <1>w, <2>1
  <2>3. IF n < p THEN v[n] = w[n] ELSE v[n] < w[n]
    BY <1>p, <2>1
  <2>4. CASE n + 1 < p
    <3>1. x[n + 1] = y[n + 1]
      BY <2>1, <2>4
    <3> QED
      BY <1>p, <2>2, <2>3, <2>4, <3>1
  <2>5. CASE n + 1 = p
    BY <1>p, <2>2, <2>3, <2>5
  <2>6. CASE n + 1 > p
    <3>1. v[n] < w[n]
      BY <2>3, <2>6
    <3>2. v[n + 1] < w[n + 1]
      BY <2>1, <2>2, <3>1
    <3> QED
      BY <1>p, <2>6, <3>2
  <2> QED
    BY <2>4, <2>5, <2>6
<1>3. N \in P
  BY <1>1, <1>2, NatSetInduction
<1> QED
  BY <1>3, <1>p

\* Distances are numbers, and comparing them is comparing the first byte that
\* differs.
LEMMA DistanceIs ==
  ASSUME NEW a \in NodeID, NEW t \in NodeID
  PROVE  /\ Distance(a, t) \in Nat
         /\ \A b \in NodeID : /\ Closer(a, b, t) <=> Distance(a, t) < Distance(b, t)
                              /\ Distance(a, t) = Distance(b, t) => a = b
<1>0. IDBits \in Nat
  BY RoutingAssumption
<1>1. \A b \in NodeID : XOR(b, t) \in [1 .. IDBits -> {0, 1}]
  BY <1>0 DEF XOR, NodeID
<1>2. \A b \in NodeID : \E v : Horner(v, XOR(b, t), IDBits) /\ Distance(b, t) = v[IDBits]
  <2> SUFFICES ASSUME NEW b \in NodeID
               PROVE  \E v : Horner(v, XOR(b, t), IDBits) /\ Distance(b, t) = v[IDBits]
    OBVIOUS
  <2> DEFINE v == CHOOSE v : Horner(v, XOR(b, t), IDBits)
  <2>1. Horner(v, XOR(b, t), IDBits)
    BY <1>0, HornerExists
  <2>2. Distance(b, t) = v[IDBits]
    BY DEF Distance, Horner
  <2> QED
    BY <2>1, <2>2
<1>3. \A b \in NodeID : Distance(b, t) \in Nat
  <2> SUFFICES ASSUME NEW b \in NodeID PROVE Distance(b, t) \in Nat
    OBVIOUS
  <2>1. PICK v : Horner(v, XOR(b, t), IDBits) /\ Distance(b, t) = v[IDBits]
    BY <1>2
  <2>2. v[IDBits] \in Nat
    <3>1. HornerSteps(v, XOR(b, t), IDBits)
      BY <1>0, <1>1, <2>1, HornerIs
    <3> QED
      BY <1>0, <3>1 DEF HornerSteps
  <2> QED
    BY <2>1, <2>2
\* Being closer is having the smaller distance.
<1>4. ASSUME NEW b \in NodeID, NEW c \in NodeID, Closer(b, c, t)
      PROVE  Distance(b, t) < Distance(c, t)
  <2>1. PICK v : Horner(v, XOR(b, t), IDBits) /\ Distance(b, t) = v[IDBits]
    BY <1>2
  <2>2. PICK w : Horner(w, XOR(c, t), IDBits) /\ Distance(c, t) = w[IDBits]
    BY <1>2
  <2>3. PICK p \in 1 .. IDBits : /\ XOR(b, t)[p] < XOR(c, t)[p]
                                 /\ \A j \in 1 .. p - 1 : XOR(b, t)[j] = XOR(c, t)[j]
    BY <1>4 DEF Closer
  <2>4. v[IDBits] < w[IDBits]
    BY <1>0, <1>1, <2>1, <2>2, <2>3, HornerLess
  <2> QED
    BY <2>1, <2>2, <2>4
\* Of two identifiers, one is closer.
<1>5. ASSUME NEW b \in NodeID, a # b
      PROVE  Closer(a, b, t) \/ Closer(b, a, t)
  <2>0. XOR(a, b) \in [1 .. IDBits -> {0, 1}]
    BY <1>0 DEF XOR, NodeID
  <2>1. PICK x \in [1 .. IDBits -> {0, 1}] : x = XOR(a, b)
    BY <2>0
  <2>2. PICK n \in 0 .. IDBits : (\A i \in 1 .. n : x[i] = 0) /\ (n < IDBits => x[n + 1] = 1)
    BY PrefixExists
  <2>3. \A i \in 1 .. IDBits : /\ a[i] \in {0, 1} /\ b[i] \in {0, 1} /\ t[i] \in {0, 1}
                               /\ x[i] = (a[i] + b[i]) % 2
                               /\ XOR(a, t)[i] = (a[i] + t[i]) % 2
                               /\ XOR(b, t)[i] = (b[i] + t[i]) % 2
    BY <2>1 DEF XOR, NodeID
  <2>4. \A i \in 1 .. IDBits : /\ x[i] = 0 => a[i] = b[i]
                               /\ x[i] = 1 => a[i] # b[i]
    BY <2>3
  <2>5. n < IDBits
    <3>1. PICK k \in 1 .. IDBits : a[k] # b[k]
      BY <1>0, <1>5 DEF NodeID
    <3> QED
      BY <1>0, <2>2, <2>4, <3>1
  <2>6. PICK p \in 1 .. IDBits : p = n + 1 /\ a[p] # b[p] /\ \A j \in 1 .. p - 1 : a[j] = b[j]
    BY <1>0, <2>2, <2>4, <2>5
  <2>7. \A j \in 1 .. p - 1 : XOR(a, t)[j] = XOR(b, t)[j]
    BY <1>0, <2>3, <2>6
  <2>8. XOR(a, t)[p] < XOR(b, t)[p] \/ XOR(b, t)[p] < XOR(a, t)[p]
    BY <2>3, <2>6
  <2> QED
    BY <2>7, <2>8 DEF Closer
<1>6. ASSUME NEW b \in NodeID
      PROVE  /\ Closer(a, b, t) <=> Distance(a, t) < Distance(b, t)
             /\ Distance(a, t) = Distance(b, t) => a = b
  <2>1. Distance(a, t) \in Nat /\ Distance(b, t) \in Nat
    BY <1>3
  <2>2. /\ Closer(a, b, t) => Distance(a, t) < Distance(b, t)
        /\ Closer(b, a, t) => Distance(b, t) < Distance(a, t)
        /\ a # b => Closer(a, b, t) \/ Closer(b, a, t)
    BY <1>4, <1>5
  <2> QED
    BY <2>1, <2>2
<1> QED
  BY <1>3, <1>6

-----------------------------------------------------------------------------
\* The place of each of N entries by its distance d.
Places(d, N) == [i \in 1 .. N |-> Cardinality({j \in 1 .. N : d[j] < d[i]}) + 1]

\* Where distances differ, every place is taken once and in their order.
LEMMA PlacesAre ==
  ASSUME NEW N \in Nat, NEW d \in [1 .. N -> Nat],
         \A i, j \in 1 .. N : d[i] = d[j] => i = j
  PROVE  /\ Places(d, N) \in [1 .. N -> 1 .. N]
         /\ \A i, j \in 1 .. N : d[i] < d[j] => Places(d, N)[i] < Places(d, N)[j]
         /\ \A i, j \in 1 .. N : Places(d, N)[i] = Places(d, N)[j] => i = j
         /\ \A k \in 1 .. N : \E i \in 1 .. N : Places(d, N)[i] = k
<1> DEFINE S == 1 .. N
           U(i) == {j \in S : d[j] < d[i]}
<1>0. IsFiniteSet(S) /\ Cardinality(S) = N
  BY FS_Interval
<1>1. PICK r : r = Places(d, N)
  OBVIOUS
<1>2. r = [i \in S |-> Cardinality(U(i)) + 1]
  BY <1>1 DEF Places
<1>d. \A i \in S : d[i] \in Nat
  OBVIOUS
<1>u. \A i \in S : U(i) \subseteq S /\ i \notin U(i) /\ \A j \in S : j \in U(i) <=> d[j] < d[i]
  BY <1>d
<1> HIDE DEF S, U
<1>3. \A i \in S : IsFiniteSet(U(i)) /\ Cardinality(U(i)) \in Nat /\ r[i] = Cardinality(U(i)) + 1
  BY <1>0, <1>2, <1>u, FS_Subset, FS_CardinalityType
<1>4. \A i \in S : Cardinality(U(i)) < N
  <2> SUFFICES ASSUME NEW i \in S PROVE Cardinality(U(i)) < N
    OBVIOUS
  <2>0. PICK T \in SUBSET S : T = U(i)
    BY <1>u
  <2>1. Cardinality(T) <= Cardinality(S) /\ (Cardinality(S) = Cardinality(T) => S = T)
    BY <1>0, FS_Subset
  <2> QED
    <3>1. i \notin T /\ Cardinality(T) \in Nat
      BY <1>3, <1>u, <2>0
    <3>2. Cardinality(T) # N
      BY <1>0, <2>1, <3>1
    <3>3. Cardinality(T) < N
      BY <1>0, <2>1, <3>1, <3>2
    <3> QED
      BY <2>0, <3>3
<1>5. r \in [S -> S]
  <2>1. \A i \in S : r[i] \in 1 .. N
    BY <1>3, <1>4
  <2> QED
    BY <1>2, <2>1 DEF S
<1>6. ASSUME NEW i \in S, NEW j \in S, d[i] < d[j] PROVE r[i] < r[j]
  <2>1. U(i) \subseteq U(j) /\ i \in U(j) /\ i \notin U(i)
    <3>1. \A k \in S : d[k] < d[i] => d[k] < d[j]
      BY <1>6, <1>d
    <3> QED
      BY <1>6, <1>u, <3>1
  <2>2. /\ Cardinality(U(i)) <= Cardinality(U(j))
        /\ Cardinality(U(j)) = Cardinality(U(i)) => U(j) = U(i)
    BY <1>3, <2>1, FS_Subset
  <2> QED
    BY <1>3, <2>1, <2>2
<1>7. ASSUME NEW i \in S, NEW j \in S, r[i] = r[j] PROVE i = j
  <2>1. ~(d[i] < d[j]) /\ ~(d[j] < d[i])
    BY <1>3, <1>6, <1>7
  <2>2. d[i] = d[j]
    BY <1>d, <2>1
  <2> QED
    BY <2>2 DEF S
<1>8. r \in Surjection(S, S)
  <2>1. r \in Injection(S, S)
    BY <1>5, <1>7 DEF Injection, IsInjective
  <2> QED
    BY <1>0, <2>1, FS_Injection
<1>9. \A k \in S : \E i \in S : r[i] = k
  BY <1>8 DEF Surjection
<1> QED
  BY <1>1, <1>5, <1>6, <1>7, <1>9 DEF S

\* What the buckets below n hold, listed in s, each contact once.
Lists(s, B, n) ==
    /\ s \in Seq(Contact)
    /\ \A i \in 1 .. Len(s) : s[i] \in ContactsOf(B) /\ bucketIdx(s[i].id) < n
    /\ \A c \in ContactsOf(B) : bucketIdx(c.id) < n => \E i \in 1 .. Len(s) : s[i] = c
    /\ \A i, j \in 1 .. Len(s) : s[i].id = s[j].id => i = j

\* Appending a bucket to the list of the ones below it.
LEMMA OneMoreBucket ==
  ASSUME NEW B, WellPlaced(B), NEW b \in BucketIndex, NEW s, Lists(s, B, b)
  PROVE  Lists(s \o B[b], B, b + 1)
<1>0. IDBits \in Nat /\ b \in Nat
  BY RoutingAssumption DEF BucketIndex
<1>1. PICK u : u = B[b]
  OBVIOUS
<1>2. u \in Seq(Contact) /\ s \in Seq(Contact) /\ Len(u) \in Nat /\ Len(s) \in Nat
  BY <1>1 DEF WellPlaced, Lists
<1>3. \A i \in 1 .. Len(u) : /\ u[i].id # localID /\ bucketIdx(u[i].id) = b
                             /\ u[i] \in ContactsOf(B)
                             /\ \A j \in 1 .. Len(u) : u[i].id = u[j].id => i = j
  BY <1>1, ContactsAre DEF WellPlaced
<1>4. /\ \A i \in 1 .. Len(s) : s[i] \in ContactsOf(B) /\ bucketIdx(s[i].id) < b
      /\ \A c \in ContactsOf(B) : bucketIdx(c.id) < b => \E i \in 1 .. Len(s) : s[i] = c
      /\ \A i, j \in 1 .. Len(s) : s[i].id = s[j].id => i = j
  BY DEF Lists
<1>5. PICK t : t = s \o u
  OBVIOUS
<1>6. /\ t \in Seq(Contact) /\ Len(t) = Len(s) + Len(u)
      /\ \A i \in 1 .. Len(s) : t[i] = s[i]
      /\ \A i \in 1 .. Len(u) : t[Len(s) + i] = u[i]
  BY <1>2, <1>5
<1>7. \A i \in 1 .. Len(t) : \/ i \in 1 .. Len(s) /\ t[i] = s[i]
                             \/ i - Len(s) \in 1 .. Len(u) /\ t[i] = u[i - Len(s)]
  <2> SUFFICES ASSUME NEW i \in 1 .. Len(t), i \notin 1 .. Len(s)
               PROVE  i - Len(s) \in 1 .. Len(u) /\ t[i] = u[i - Len(s)]
    BY <1>6
  <2>1. i - Len(s) \in 1 .. Len(u) /\ Len(s) + (i - Len(s)) = i
    BY <1>2, <1>6
  <2> QED
    BY <1>6, <2>1
<1>8. \A c \in ContactsOf(B) : bucketIdx(c.id) \in Nat
  BY ContactsAre DEF BucketIndex
<1>9. \A i \in 1 .. Len(t) : t[i] \in ContactsOf(B) /\ bucketIdx(t[i].id) < b + 1
  <2> SUFFICES ASSUME NEW i \in 1 .. Len(t)
               PROVE  t[i] \in ContactsOf(B) /\ bucketIdx(t[i].id) < b + 1
    OBVIOUS
  <2>1. t[i] \in ContactsOf(B) /\ (bucketIdx(t[i].id) < b \/ bucketIdx(t[i].id) = b)
    <3>1. CASE i \in 1 .. Len(s) /\ t[i] = s[i]
      BY <1>4, <3>1, Zenon
    <3>2. CASE i - Len(s) \in 1 .. Len(u) /\ t[i] = u[i - Len(s)]
      <4>1. PICK j \in 1 .. Len(u) : t[i] = u[j]
        BY <3>2, Zenon
      <4> QED
        BY <1>3, <4>1, Zenon
    <3> QED
      BY <1>7, <3>1, <3>2, Zenon
  <2>2. PICK k \in Nat : k = bucketIdx(t[i].id)
    BY <1>8, <2>1, Zenon
  <2>3. k < b + 1
    BY <1>0, <2>1, <2>2
  <2> QED
    BY <2>1, <2>2, <2>3
<1>10. ASSUME NEW c \in ContactsOf(B), bucketIdx(c.id) < b + 1
       PROVE  \E i \in 1 .. Len(t) : t[i] = c
  <2>1. CASE bucketIdx(c.id) < b
    <3>1. PICK i \in 1 .. Len(s) : s[i] = c
      BY <1>4, <2>1
    <3>2. i \in 1 .. Len(t) /\ t[i] = c
      BY <1>2, <1>6, <3>1
    <3> QED
      BY <3>2
  <2>2. CASE ~(bucketIdx(c.id) < b)
    <3>1. bucketIdx(c.id) = b
      BY <1>0, <1>8, <1>10, <2>2
    <3>2. PICK i \in 1 .. Len(u) : u[i] = c
      BY <1>1, <3>1, ContactsAre
    <3>3. Len(s) + i \in 1 .. Len(t) /\ t[Len(s) + i] = c
      BY <1>2, <1>6, <3>2
    <3> QED
      BY <3>3
  <2> QED
    BY <2>1, <2>2
<1>11. ASSUME NEW i \in 1 .. Len(t), NEW j \in 1 .. Len(t), t[i].id = t[j].id PROVE i = j
  <2>1. CASE i \in 1 .. Len(s) /\ t[i] = s[i] /\ j \in 1 .. Len(s) /\ t[j] = s[j]
    BY <1>4, <1>11, <2>1
  <2>2. CASE /\ i - Len(s) \in 1 .. Len(u) /\ t[i] = u[i - Len(s)]
             /\ j - Len(s) \in 1 .. Len(u) /\ t[j] = u[j - Len(s)]
    <3>1. i - Len(s) = j - Len(s)
      BY <1>3, <1>11, <2>2
    <3> QED
      BY <1>2, <1>6, <3>1
  <2>3. ASSUME NEW k \in 1 .. Len(s), NEW l \in 1 .. Len(u), s[k].id = u[l].id PROVE FALSE
    <3>1. bucketIdx(s[k].id) < b /\ bucketIdx(u[l].id) = b
      BY <1>3, <1>4
    <3> QED
      BY <1>0, <2>3, <3>1
  <2>4. CASE i \in 1 .. Len(s) /\ t[i] = s[i] /\ j - Len(s) \in 1 .. Len(u) /\ t[j] = u[j - Len(s)]
    BY <1>11, <2>3, <2>4
  <2>5. CASE j \in 1 .. Len(s) /\ t[j] = s[j] /\ i - Len(s) \in 1 .. Len(u) /\ t[i] = u[i - Len(s)]
    BY <1>11, <2>3, <2>5
  <2> QED
    BY <1>7, <2>1, <2>2, <2>4, <2>5
<1>12. Lists(t, B, b + 1)
  BY <1>6, <1>9, <1>10, <1>11 DEF Lists
<1> QED
  BY <1>1, <1>5, <1>12

\* FindClosest sees every contact, once.
LEMMA AllContactsAre ==
  ASSUME WellPlaced(buckets)
  PROVE  Lists(AllContacts, buckets, IDBits)
<1>0. IDBits \in Nat
  BY RoutingAssumption
<1> DEFINE part == [i \in 1 .. IDBits |-> buckets[i - 1]]
<1>1. \A n \in 1 .. IDBits : part[n] = buckets[n - 1]
  OBVIOUS
<1> HIDE DEF part
<1>2. PICK J : Chain(J, part, IDBits)
  BY <1>0, ChainExists
<1> DEFINE Is(all) == all = [n \in 0 .. IDBits |-> IF n = 0 THEN <<>> ELSE all[n - 1] \o buckets[n - 1]]
<1>3. Is(J)
  <2>1. [n \in 0 .. IDBits |-> IF n = 0 THEN <<>> ELSE J[n - 1] \o part[n]]
          = [n \in 0 .. IDBits |-> IF n = 0 THEN <<>> ELSE J[n - 1] \o buckets[n - 1]]
    BY <1>0, <1>1
  <2> QED
    BY <1>2, <2>1 DEF Chain
<1>4. PICK A : A = CHOOSE all : Is(all)
  OBVIOUS
<1>5. Is(A)
  BY <1>3, <1>4
<1>6. AllContacts = A[IDBits]
  BY <1>4 DEF AllContacts
<1>7. \A n \in 0 .. IDBits : A[n] = IF n = 0 THEN <<>> ELSE A[n - 1] \o buckets[n - 1]
  BY <1>5
<1> HIDE DEF Is
<1> DEFINE P == {n \in Nat : n <= IDBits => Lists(A[n], buckets, n)}
<1>p. \A n \in Nat : n \in P <=> (n <= IDBits => Lists(A[n], buckets, n))
  OBVIOUS
<1> HIDE DEF P
<1>8. 0 \in P
  <2>0. A[0] = <<>>
    BY <1>0, <1>7
  <2>1. Len(A[0]) = 0 /\ A[0] \in Seq(Contact)
    BY <2>0
  <2>2. \A c \in ContactsOf(buckets) : bucketIdx(c.id) \in BucketIndex
    BY ContactsAre
  <2>3. \A c \in ContactsOf(buckets) : ~(bucketIdx(c.id) < 0)
    BY <1>0, <2>2 DEF BucketIndex
  <2>4. Lists(A[0], buckets, 0)
    BY <2>1, <2>3 DEF Lists
  <2> QED
    BY <1>p, <2>4
<1>9. \A n \in Nat : n \in P => n + 1 \in P
  <2> SUFFICES ASSUME NEW n \in Nat, n \in P, n + 1 <= IDBits
               PROVE  Lists(A[n + 1], buckets, n + 1)
    BY <1>p
  <2>1. /\ n \in BucketIndex /\ n + 1 \in 0 .. IDBits /\ n + 1 # 0 /\ (n + 1) - 1 = n
        /\ Lists(A[n], buckets, n)
    BY <1>0, <1>p DEF BucketIndex
  <2>2. A[n + 1] = A[n] \o buckets[n]
    BY <1>7, <2>1
  <2> QED
    BY <2>1, <2>2, OneMoreBucket
<1>10. IDBits \in P
  BY <1>0, <1>8, <1>9, NatSetInduction
<1> QED
  BY <1>0, <1>6, <1>10, <1>p

\* What sorting does to a list without repetitions: entry i goes to r[i], and
\* who is nearer comes first.
SortedBy(s, all, goal, r) ==
    /\ r \in [1 .. Len(all) -> 1 .. Len(all)]
    /\ \A k \in 1 .. Len(all) : \E i \in 1 .. Len(all) : r[i] = k
    /\ \A i, j \in 1 .. Len(all) :
          Distance(all[i].id, goal) < Distance(all[j].id, goal) <=> r[i] < r[j]
    /\ s \in Seq(Contact) /\ Len(s) = Len(all)
    /\ \A i \in 1 .. Len(all) : s[r[i]] = all[i]

\* FindClosest's sort does so for any list without repetitions.
LEMMA SortedIs ==
  ASSUME NEW all \in Seq(Contact), NEW goal \in NodeID,
         \A i, j \in 1 .. Len(all) : all[i].id = all[j].id => i = j
  PROVE  \E r : SortedBy(Sorted(all, goal), all, goal, r)
<1>1. PICK N \in Nat : N = Len(all) /\ DOMAIN all = 1 .. N /\ \A i \in 1 .. N : all[i] \in Contact
  OBVIOUS
<1>2. \A i \in 1 .. N : all[i].id \in NodeID
  BY <1>1 DEF Contact
<1> DEFINE d == [i \in 1 .. N |-> Distance(all[i].id, goal)]
<1>3. d \in [1 .. N -> Nat] /\ \A i \in 1 .. N : d[i] = Distance(all[i].id, goal)
  BY <1>2, DistanceIs
<1> HIDE DEF d
<1>4. \A i, j \in 1 .. N : /\ Closer(all[i].id, all[j].id, goal) <=> d[i] < d[j]
                           /\ d[i] = d[j] => i = j
  <2> SUFFICES ASSUME NEW i \in 1 .. N, NEW j \in 1 .. N
               PROVE  /\ Closer(all[i].id, all[j].id, goal) <=> d[i] < d[j]
                      /\ d[i] = d[j] => i = j
    OBVIOUS
  <2>1. /\ Closer(all[i].id, all[j].id, goal)
             <=> Distance(all[i].id, goal) < Distance(all[j].id, goal)
        /\ Distance(all[i].id, goal) = Distance(all[j].id, goal) => all[i].id = all[j].id
    BY <1>2, DistanceIs
  <2> QED
    BY <1>1, <1>3, <2>1
<1>5. PICK r : r = Places(d, N)
  OBVIOUS
<1>6. /\ r \in [1 .. N -> 1 .. N]
      /\ \A i, j \in 1 .. N : d[i] < d[j] => r[i] < r[j]
      /\ \A i, j \in 1 .. N : r[i] = r[j] => i = j
      /\ \A k \in 1 .. N : \E i \in 1 .. N : r[i] = k
  <2>1. \A i, j \in 1 .. N : d[i] = d[j] => i = j
    BY <1>4
  <2>2. /\ Places(d, N) \in [1 .. N -> 1 .. N]
        /\ \A i, j \in 1 .. N : d[i] < d[j] => Places(d, N)[i] < Places(d, N)[j]
        /\ \A i, j \in 1 .. N : Places(d, N)[i] = Places(d, N)[j] => i = j
        /\ \A k \in 1 .. N : \E i \in 1 .. N : Places(d, N)[i] = k
    BY <1>3, <2>1, PlacesAre
  <2> QED
    BY <1>5, <2>2
<1> DEFINE before(i, j) == \/ Closer(all[i].id, all[j].id, goal)
                           \/ i < j /\ ~Closer(all[j].id, all[i].id, goal)
           places == {<<i, Cardinality({j \in DOMAIN all : before(j, i)}) + 1>> : i \in DOMAIN all}
<1>7. \A i, j \in 1 .. N : before(j, i) <=> d[j] < d[i]
  <2> SUFFICES ASSUME NEW i \in 1 .. N, NEW j \in 1 .. N
               PROVE  before(j, i) <=> d[j] < d[i]
    OBVIOUS
  <2>1. d[i] \in Nat /\ d[j] \in Nat /\ (d[i] = d[j] => i = j)
    BY <1>3, <1>4
  <2> QED
    BY <1>4, <2>1
<1>8. places = {<<i, r[i]>> : i \in 1 .. N}
  <2>1. \A i \in 1 .. N : {j \in 1 .. N : before(j, i)} = {j \in 1 .. N : d[j] < d[i]}
    BY <1>7
  <2> HIDE DEF before
  <2> DEFINE place(i) == Cardinality({j \in 1 .. N : before(j, i)}) + 1
  <2>2. \A i \in 1 .. N : r[i] = place(i)
    BY <1>5, <2>1 DEF Places
  <2>3. places = {<<i, place(i)>> : i \in 1 .. N}
    BY <1>1, Zenon
  <2> HIDE DEF place, places
  <2> QED
    BY ONLY <2>2, <2>3
<1>9. Sorted(all, goal) = [k \in 1 .. N |-> all[CHOOSE i \in 1 .. N : <<i, k>> \in places]]
  BY <1>1 DEF Sorted
<1> HIDE DEF before, places
<1>10. PICK s : s = Sorted(all, goal)
  OBVIOUS
<1>11. \A i \in 1 .. N : s[r[i]] = all[i]
  <2> SUFFICES ASSUME NEW i \in 1 .. N PROVE s[r[i]] = all[i]
    OBVIOUS
  <2>1. PICK k \in 1 .. N : k = r[i]
    BY <1>6
  <2>2. \A j \in 1 .. N : <<j, k>> \in places <=> j = i
    <3>1. \A j \in 1 .. N : <<j, k>> \in places <=> r[j] = k
      BY <1>8
    <3>2. \A j \in 1 .. N : r[j] = k <=> j = i
      BY <1>6, <2>1
    <3> QED
      BY <3>1, <3>2
  <2>3. (CHOOSE j \in 1 .. N : <<j, k>> \in places) = i
    BY <2>2
  <2>4. s[k] = all[CHOOSE j \in 1 .. N : <<j, k>> \in places]
    BY <1>9, <1>10
  <2> QED
    BY <2>1, <2>3, <2>4
<1>12. s \in Seq(Contact) /\ Len(s) = N
  <2>1. \A k \in 1 .. N : s[k] \in Contact
    BY <1>1, <1>6, <1>11
  <2>2. s = [k \in 1 .. N |-> s[k]]
    BY <1>9, <1>10
  <2> QED
    BY <2>1, <2>2
<1>13. \A i, j \in 1 .. N : Distance(all[i].id, goal) < Distance(all[j].id, goal) <=> r[i] < r[j]
  <2> SUFFICES ASSUME NEW i \in 1 .. N, NEW j \in 1 .. N
               PROVE  Distance(all[i].id, goal) < Distance(all[j].id, goal) <=> r[i] < r[j]
    OBVIOUS
  <2>1. d[i] \in Nat /\ d[j] \in Nat /\ r[i] \in 1 .. N /\ r[j] \in 1 .. N
    BY <1>3, <1>6
  <2>2. (d[i] = d[j] => i = j) /\ (d[i] < d[j] => r[i] < r[j]) /\ (d[j] < d[i] => r[j] < r[i])
    BY <1>4, <1>6
  <2>3. d[i] < d[j] <=> r[i] < r[j]
    BY <2>1, <2>2
  <2> QED
    BY <1>3, <2>3
<1>14. SortedBy(s, all, goal, r)
  BY <1>1, <1>6, <1>11, <1>12, <1>13 DEF SortedBy
<1> QED
  BY <1>10, <1>14

\* FindClosest returns the contacts nearest to the target, nearest first.
LEMMA FindClosestIs ==
  ASSUME WellPlaced(buckets), NEW goal \in NodeID, NEW count \in Nat
  PROVE  LET found == FindClosest(goal, count)
             d(c) == Distance(c.id, goal) IN
         /\ Cardinality(Contacts) \in Nat
         /\ Len(found) = IF count < Cardinality(Contacts) THEN count ELSE Cardinality(Contacts)
         /\ \A i \in DOMAIN found : found[i] \in Contacts
         /\ \A i, j \in DOMAIN found : i < j => d(found[i]) < d(found[j])
         /\ \A c \in Contacts : \/ \E i \in DOMAIN found : found[i] = c
                                \/ \A i \in DOMAIN found : d(found[i]) < d(c)
<1> DEFINE d(c) == Distance(c.id, goal)
<1>1. PICK all : all = AllContacts
  OBVIOUS
<1>2. Lists(all, buckets, IDBits) /\ all \in Seq(Contact)
  BY <1>1, AllContactsAre DEF Lists
<1>3. PICK N \in Nat : N = Len(all) /\ DOMAIN all = 1 .. N /\ \A i \in 1 .. N : all[i] \in Contact
  BY <1>2
<1>4. \A c : c \in Contacts <=> \E i \in 1 .. N : all[i] = c
  <2>1. \A c \in ContactsOf(buckets) : bucketIdx(c.id) < IDBits
    <3>1. \A c \in ContactsOf(buckets) : bucketIdx(c.id) \in BucketIndex
      BY ContactsAre
    <3> QED
      BY <3>1, RoutingAssumption DEF BucketIndex
  <2> QED
    BY <1>2, <1>3, <2>1, BookMapping DEF Lists
<1>5. \A i, j \in 1 .. N : all[i].id = all[j].id => i = j
  BY <1>2, <1>3 DEF Lists
<1>6. Cardinality(Contacts) = N
  <2>1. all \in [1 .. N -> Contacts]
    <3>1. all = [i \in 1 .. N |-> all[i]]
      BY <1>2, <1>3
    <3> QED
      BY <1>4, <3>1
  <2>2. all \in Injection(1 .. N, Contacts)
    BY <1>5, <2>1 DEF Injection, IsInjective
  <2>3. all \in Surjection(1 .. N, Contacts)
    BY <1>4, <2>1 DEF Surjection
  <2>4. ExistsBijection(1 .. N, Contacts)
    BY <2>2, <2>3 DEF ExistsBijection, Bijection
  <2> QED
    BY <2>4, FS_CountingElements
<1>7. PICK s, r : s = Sorted(all, goal) /\ SortedBy(s, all, goal, r)
  BY <1>2, <1>3, <1>5, SortedIs
<1>8. /\ r \in [1 .. N -> 1 .. N] /\ \A k \in 1 .. N : \E i \in 1 .. N : r[i] = k
      /\ \A i, j \in 1 .. N : d(all[i]) < d(all[j]) <=> r[i] < r[j]
      /\ s \in Seq(Contact) /\ Len(s) = N
      /\ \A i \in 1 .. N : s[r[i]] = all[i]
  BY <1>3, <1>7 DEF SortedBy
<1>9. PICK L \in Nat : L = IF count < N THEN count ELSE N
  OBVIOUS
<1>10. PICK found : found = FindClosest(goal, count)
  OBVIOUS
<1>11. /\ Len(found) = L /\ DOMAIN found = 1 .. L /\ L <= N
       /\ \A k \in 1 .. L : found[k] = s[k]
  <2>1. found = IF N > count THEN SubSeq(s, 1, count) ELSE s
    BY <1>1, <1>3, <1>7, <1>10 DEF FindClosest
  <2>2. CASE count < N
    <3>1. found = SubSeq(s, 1, count) /\ L = count
      BY <1>9, <2>1, <2>2
    <3>2. /\ SubSeq(s, 1, count) \in Seq(Contact) /\ Len(SubSeq(s, 1, count)) = count
          /\ \A k \in 1 .. count : SubSeq(s, 1, count)[k] = s[k]
      BY <1>8, <2>2
    <3> QED
      BY <2>2, <3>1, <3>2
  <2>3. CASE ~(count < N)
    <3>1. found = s /\ L = N
      BY <1>9, <2>1, <2>3
    <3> QED
      BY <1>8, <3>1
  <2> QED
    BY <2>2, <2>3
\* The k-th found is the contact whose place is k.
<1>12. \A k \in 1 .. L : \E i \in 1 .. N : r[i] = k /\ found[k] = all[i]
  <2> SUFFICES ASSUME NEW k \in 1 .. L PROVE \E i \in 1 .. N : r[i] = k /\ found[k] = all[i]
    OBVIOUS
  <2>1. k \in 1 .. N
    BY <1>11
  <2>2. PICK i \in 1 .. N : r[i] = k
    BY <1>8, <2>1
  <2> QED
    BY <1>8, <1>11, <2>2
<1>13. \A k \in 1 .. L : found[k] \in Contacts
  BY <1>4, <1>12
<1>14. ASSUME NEW k \in 1 .. L, NEW l \in 1 .. L, k < l PROVE d(found[k]) < d(found[l])
  <2>1. PICK i \in 1 .. N : r[i] = k /\ found[k] = all[i]
    BY <1>12
  <2>2. PICK j \in 1 .. N : r[j] = l /\ found[l] = all[j]
    BY <1>12
  <2> QED
    BY <1>8, <1>14, <2>1, <2>2
<1>15. ASSUME NEW c \in Contacts
       PROVE  (\E k \in 1 .. L : found[k] = c) \/ (\A k \in 1 .. L : d(found[k]) < d(c))
  <2>1. PICK j \in 1 .. N : all[j] = c
    BY <1>4
  <2>2. PICK m \in 1 .. N : m = r[j] /\ s[m] = c
    BY <1>8, <2>1
  <2>3. CASE m <= L
    <3>1. m \in 1 .. L /\ found[m] = c
      BY <1>11, <2>2, <2>3
    <3> QED
      BY <3>1
  <2>4. CASE m > L
    <3> SUFFICES ASSUME NEW k \in 1 .. L PROVE d(found[k]) < d(c)
      OBVIOUS
    <3>1. PICK i \in 1 .. N : r[i] = k /\ found[k] = all[i]
      BY <1>12
    <3>2. r[i] < r[j]
      BY <2>2, <2>4, <3>1
    <3> QED
      BY <1>8, <2>1, <3>1, <3>2
  <2> QED
    BY <2>3, <2>4
<1> HIDE DEF d
<1>16. /\ Cardinality(Contacts) \in Nat
       /\ Len(found) = IF count < Cardinality(Contacts) THEN count ELSE Cardinality(Contacts)
       /\ \A i \in DOMAIN found : found[i] \in Contacts
       /\ \A i, j \in DOMAIN found : i < j => d(found[i]) < d(found[j])
       /\ \A c \in Contacts : \/ \E i \in DOMAIN found : found[i] = c
                              \/ \A i \in DOMAIN found : d(found[i]) < d(c)
  BY <1>6, <1>9, <1>11, <1>13, <1>14, <1>15
<1> QED
  BY <1>10, <1>16 DEF d

\* For every length of identifiers, size of buckets and history of calls:
\* FindClosest returns the contacts with the smallest distances to the target,
\* nearest first, as many as asked for or all (dht.go, FindClosest).
THEOREM FindsClosestTheorem == PackagesSpec => []FindsClosest
<1>1. RoutingInv => FindsClosest
  <2> SUFFICES ASSUME WellPlaced(buckets) PROVE FindsClosest
    BY DEF RoutingInv
  <2>0. localID \in NodeID
    BY RoutingAssumption
  <2>1. Cardinality(Contacts) \in Nat
    BY <2>0, FindClosestIs
  <2>2. \A count \in 0 .. Cardinality(Contacts) + 1 : count \in Nat
    BY <2>1
  <2> QED
    BY <2>2, FindClosestIs DEF FindsClosest
<1> QED
  BY <1>1, RoutingInvariance, PTL

-----------------------------------------------------------------------------
(* Types *)

\* The desktop application keeps its types: what is listed and on disk is of
\* uploads that were made.
LEMMA DesktopTypes == PackagesSpec => []DesktopTypeOK
<1>1. PackagesInit => DesktopTypeOK
  <2> SUFFICES ASSUME DesktopInit PROVE DesktopTypeOK
    BY DEF PackagesInit
  <2>1. DOMAIN appFiles = {} /\ shardsDir = {} /\ uploads \in 0 .. MaxUploads
    BY DesktopAssumption DEF DesktopInit, NewApp
  <2>2. paused \in BOOLEAN /\ storageAlloc \in Nat \ {0}
    BY DesktopAssumption, Zenon DEF DesktopInit, NewApp
  <2> QED
    BY <2>1, <2>2 DEF DesktopTypeOK
<1>2. DesktopInv /\ DesktopTypeOK /\ [PackagesNext]_allVars => DesktopTypeOK'
  <2> SUFFICES ASSUME DesktopInv, DesktopTypeOK, [DesktopNext]_desktopVars
               PROVE  DesktopTypeOK'
    BY DesktopSteps
  <2>t. /\ \A i \in DOMAIN appFiles : appFiles[i].id \in 1 .. uploads /\ appFiles[i].size \in Nat
        /\ shardsDir \subseteq [file : 1 .. uploads, chunk : Nat, shard : ShardIndex]
        /\ uploads \in 0 .. MaxUploads /\ paused \in BOOLEAN /\ storageAlloc \in Nat \ {0}
        /\ MaxUploads \in Nat
    BY DesktopAssumption DEF DesktopTypeOK
  <2>1. ASSUME NEW size \in UploadSizes, UploadFile(size) PROVE DesktopTypeOK'
    <3>1. PICK s \in Nat \ {0} : s = EffectiveSize(size)
      BY DesktopAssumption DEF EffectiveSize
    <3>2. PICK n \in 0 .. ShardCount(s) :
             /\ shardsDir' = shardsDir \cup ShardsWritten(uploads', n)
             /\ appFiles' = IF n = ShardCount(s)
                            THEN Append(appFiles, [id |-> uploads', size |-> s]) ELSE appFiles
      BY <2>1, <3>1 DEF UploadFile
    <3>3. /\ uploads' = uploads + 1 /\ uploads' \in 1 .. MaxUploads
          /\ UNCHANGED <<paused, storageAlloc>>
          /\ \A j \in 1 .. uploads : j \in 1 .. uploads'
      BY <2>1, <2>t DEF UploadFile
    <3>4. ShardCount(s) \in Int
      <4>1. UploadChunks(s) \in Int
        BY DesktopAssumption DEF UploadChunks
      <4> QED
        BY <4>1, ShardsAssumption DEF ShardCount
    <3>5. ShardsWritten(uploads', n) \subseteq [file : 1 .. uploads', chunk : Nat, shard : ShardIndex]
      <4>1. PICK w \in Nat \ {0} : w = K + M
        BY ShardsAssumption
      <4>2. ShardIndex = 0 .. w - 1
        BY <4>1, ShardsAssumption DEF ShardIndex
      <4>3. \A i \in 0 .. n - 1 : i \in Nat
        BY <3>2, <3>4
      <4>4. \A i \in Nat : i \div w \in Nat /\ i % w \in 0 .. w - 1
        BY <4>1
      <4> QED
        BY <3>3, <4>1, <4>2, <4>3, <4>4 DEF ShardsWritten
    <3>6. shardsDir' \subseteq [file : 1 .. uploads', chunk : Nat, shard : ShardIndex]
      BY <2>t, <3>2, <3>3, <3>5
    <3>7. appFiles \in Seq(ListedFile)
      BY DEF DesktopInv
    <3>8. ASSUME NEW i \in DOMAIN appFiles'
          PROVE  appFiles'[i].id \in 1 .. uploads' /\ appFiles'[i].size \in Nat
      <4>1. CASE i \in DOMAIN appFiles /\ appFiles'[i] = appFiles[i]
        BY <2>t, <3>3, <4>1
      <4>2. CASE appFiles'[i] = [id |-> uploads', size |-> s]
        BY <3>1, <3>3, <4>2
      <4> QED
        BY <3>2, <3>7, <4>1, <4>2
    <3> QED
      BY <2>t, <3>3, <3>6, <3>8 DEF DesktopTypeOK
  <2>2. ASSUME NEW bytes \in Allocations, SetStorageAllocation(bytes) PROVE DesktopTypeOK'
    BY <2>2, <2>t, DesktopAssumption DEF SetStorageAllocation, DesktopTypeOK
  <2>3. CASE PauseNode
    BY <2>3, <2>t DEF PauseNode, DesktopTypeOK
  <2>4. CASE Reopen
    <3>1. DOMAIN appFiles' = {}
      BY <2>4 DEF Reopen
    <3> QED
      BY <2>4, <2>t, <3>1, DesktopAssumption DEF Reopen, DesktopTypeOK
  <2>5. CASE UNCHANGED desktopVars
    BY <2>5, <2>t DEF desktopVars, DesktopTypeOK
  <2> QED
    BY <2>1, <2>2, <2>3, <2>4, <2>5 DEF DesktopNext
<1> QED
  BY <1>1, <1>2, DesktopInvariance, PTL DEF PackagesSpec

\* The scheduler, the engine and the commands keep their types.
LEMMA ComputeTypes == ComputeInv => ComputeTypeOK
<1> SUFFICES ASSUME RequestOK, RuntimeInv, DeployInv PROVE ComputeTypeOK
  BY DEF ComputeInv
<1>1. SchedulerTypeOK(Nodes)
  <2>1. CASE request \in {NoRequest, [pc |-> "invalid"]}
    BY <2>1 DEF NoRequest, SchedulerTypeOK
  <2>2. CASE PlacingOK(request)
    <3>1. /\ request.pc \in {"parsed", "scan", "placed", "unplaced", "pinned"}
          /\ request.raw \in Manifests /\ request.manifest \in Normal
          /\ request.dead \in Names /\ request.cands \in Seq(Nodes)
      BY <2>2 DEF PlacingOK, Placing
    <3>2. request.i \in 1 .. Len(request.cands) + 1 /\ request.best \in 0 .. request.i - 1
      BY <2>2 DEF PlacingOK, Scanned
    <3>3. request.best \in 0 .. Len(request.cands)
      BY <3>1, <3>2
    <3> QED
      BY <3>1, <3>2, <3>3 DEF SchedulerTypeOK, Normal, Names
  <2> QED
    BY <2>1, <2>2 DEF RequestOK
<1>2. \A s \in Status : s \in ContainerStatus
  BY ComputeAssumption DEF Status, StartIDs, ContainerStatus
<1>3. statuses \in Seq(Status) /\ DOMAIN statuses = 1 .. Len(statuses)
      /\ \A i \in DOMAIN statuses : statuses[i] \in Status
  BY DEF RuntimeInv
<1>4. statuses \in Seq(ContainerStatus)
  BY <1>2, <1>3
<1>5. DOMAIN workloads \subseteq WorkloadIDs
  BY <1>2, <1>3 DEF RuntimeInv, ContainerStatus
<1> QED
  BY <1>1, <1>4, <1>5 DEF ComputeTypeOK, RuntimeTypeOK, RuntimeInv, DeployInv, Nodes

\* Snapshots and tunnels keep their types.
LEMMA EngineTypes == SnapshotInv /\ IngressInv => SnapshotTypeOK /\ IngressTypeOK
<1> SUFFICES ASSUME SnapshotInv, IngressInv PROVE SnapshotTypeOK /\ IngressTypeOK
  OBVIOUS
<1>1. \A t \in taken : /\ t.workload \in SnapWorkloads /\ t.data \in Version
                       /\ t.second \in 0 .. MaxSeconds /\ t.id \in DOMAIN snapshots
  BY DEF SnapshotInv, NamedWell, Metadata
<1>2. \A c \in SnapCalls : snapCall[c].pc \in {"idle", "read", "named"}
  BY DEF SnapshotInv, SnapIdle
<1>3. SnapshotTypeOK
  BY <1>1, <1>2 DEF SnapshotInv, SnapshotTypeOK
<1>4. \A i \in DOMAIN made : made[i] \in Tunnel
  BY DEF IngressInv
<1>5. \A t \in Tunnel : t.workload \in TunnelWorkloads /\ t.second \in 0 .. MaxSeconds
                       /\ t.port \in TargetPorts /\ ValidPort(t.port)
  BY DEF Tunnel
<1>6. \A p \in TargetPorts : ValidPort(p) => p \in 1 .. MaxPort
  <2>1. MaxPort \in Int
    BY DEF MaxPort
  <2> QED
    BY <2>1, IngressAssumption DEF ValidPort
<1>7. \A t \in Tunnel : t.active \in BOOLEAN
  BY Zenon DEF Tunnel
<1>8. \A i \in DOMAIN made : /\ made[i].workload \in TunnelWorkloads
                             /\ made[i].second \in 0 .. MaxSeconds
                             /\ made[i].port \in 1 .. MaxPort
                             /\ made[i].active \in BOOLEAN
  BY <1>4, <1>5, <1>6, <1>7, Zenon
<1>9. /\ \A id \in DOMAIN tunnels : tunnels[id] \in DOMAIN made
      /\ tunnelCall \in [TunnelCalls -> 0 .. Len(made)]
  BY Zenon DEF IngressInv
<1> QED
  BY <1>3, <1>8, <1>9, Zenon DEF IngressTypeOK

\* Every package keeps its types, whatever the others do: tokens, contacts,
\* requests and workloads, snapshots, tunnels, files and coded shards.
THEOREM PackagesTypeOKTheorem == PackagesSpec => []PackagesTypeOK
<1>1. PackagesInit => focus \in Focuses
  BY DEF PackagesInit
<1>2. focus \in Focuses /\ [PackagesNext]_allVars => (focus \in Focuses)'
  BY DEF PackagesNext, allVars, InviteMoves, RoutingMoves, SchedulerMoves, ComputeMoves,
         SnapshotMoves, IngressMoves, DesktopMoves, CodingMoves
<1>3. PackagesSpec => [](focus \in Focuses)
  BY <1>1, <1>2, PTL DEF PackagesSpec
<1>4. RoutingInv => RoutingTypeOK
  BY DEF RoutingInv, RoutingTypeOK, WellPlaced
<1>5. SnapshotInv => second \in 0 .. MaxSeconds
  BY DEF SnapshotInv
<1>6. TypeOK /\ RoutingTypeOK /\ ComputeTypeOK /\ second \in 0 .. MaxSeconds
      /\ SnapshotTypeOK /\ IngressTypeOK /\ DesktopTypeOK /\ CodingTypeOK
      /\ focus \in Focuses => PackagesTypeOK
  BY DEF PackagesTypeOK
<1> QED
  BY <1>3, <1>4, <1>5, <1>6, InviteTypeOK, RoutingInvariance, ComputeInvariance, ComputeTypes,
     SnapshotInvariance, IngressInvariance, EngineTypes, DesktopTypes, CodingTypes, PTL
=============================================================================
