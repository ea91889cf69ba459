------------------------------- MODULE Invite -------------------------------
(***************************************************************************)
(* Invite tokens (internal/invite, TokenManager) and the desktop           *)
(* application that issues and redeems them (gui/app.go, CreateNetwork and *)
(* JoinNetwork).                                                           *)
(*                                                                         *)
(* A token carries its fields and a MAC.  The MAC is modelled by what it   *)
(* is computed from: the signing key and one text, the identifier, the     *)
(* address, the other fields and the network key joined by colons.  An     *)
(* address has colons of its own (host:port), so the same text is also     *)
(* that of fields in which the first pieces of the address are the last    *)
(* ones of the identifier.  A token is therefore modelled as a text and    *)
(* the number of pieces of the address that its identifier has.  To divide *)
(* the text in any other way would make a port or a limit of uses the time *)
(* of expiry, long past.  A token that is malformed, wrongly signed or     *)
(* expired is refused without a state change.                              *)
(* TokenManager.usage is memory only; the application makes a new manager  *)
(* for every call, a long-lived manager is shared by goroutines.           *)
(***************************************************************************)
EXTENDS Integers, FiniteSets

CONSTANTS
    Apps,               \* running desktop applications, each with its signing key
    Calls,              \* goroutines that call ValidateAndUse of a shared manager
    Addrs,              \* tracker addresses
    Colons,             \* Colons[x]: the number of colons in address x
    UseLimits,          \* values of maxUses passed to a shared manager's CreateToken
    AppUses,            \* the limit the application passes (10)
    TTL,                \* lifetime passed to CreateToken
    MaxTokens,          \* bound on tokens issued
    MaxAccepts,         \* bound on the uses accepted, for tokens without a limit
    MaxTime             \* bound on the clock

ASSUME InviteAssumption == /\ UseLimits \subseteq Nat /\ AppUses \in Nat \ {0}
                           /\ TTL \in Nat /\ MaxTokens \in Nat /\ MaxAccepts \in Nat
                           /\ MaxTime \in Nat /\ Colons \in [Addrs -> Nat]

VARIABLES
    clock,
    issued,             \* history: tokens returned by CreateToken
    nets,               \* history: <<address, key>> of every network created
    app,                \* app[a]: trackerAddr and networkKey of application a
    usage,              \* usage[TokenID] of the shared manager
    call,               \* call[c]: a ValidateAndUse under way
    accepted            \* history: uses the shared manager accepted, by TokenID

vars == <<clock, issued, nets, app, usage, call, accepted>>

\* Identifiers and network keys are random: the n-th draw is n.
Draw == 1 .. MaxTokens
Texts == [id : Draw, addr : Addrs, key : Draw, expires : Int, maxUses : Nat]

\* The pieces of an address that an identifier before it may have.
Splits(addr) == 0 .. Colons[addr]
AnySplit == UNION {Splits(x) : x \in Addrs}

\* The two fields that a split of the text decides: a drawn identifier and
\* pieces of the address behind it, and what is left of the address.
TokenID(t) == <<t.text.id, t.split>>
TrackerAddr(t) == <<t.text.addr, t.split>>
TokenIDs == Draw \X AnySplit
WholeAddr(addr) == <<addr, 0>>

\* The shared manager signs with its own key.
Shared == "manager"
Signers == Apps \cup {Shared}

computeMAC(key, text) == [key |-> key, text |-> text]
Sign(key, text) == [text |-> text, split |-> 0, mac |-> computeMAC(key, text)]

Idle == [pc |-> "idle"]
NoNetwork == [configured |-> FALSE]
Network(addr, key) == [configured |-> TRUE, addr |-> addr, key |-> key]

TypeOK ==
    /\ clock \in 0 .. MaxTime
    /\ \A t \in issued : t.text \in Texts /\ t.split = 0 /\ t.mac \in [key : Signers, text : Texts]
    /\ nets \subseteq Addrs \X Draw
    /\ app \in [Apps -> {NoNetwork} \cup {Network(x, k) : x \in Addrs \X AnySplit, k \in Draw}]
    /\ usage \in [TokenIDs -> 0 .. MaxAccepts]
    /\ accepted \in [TokenIDs -> 0 .. MaxAccepts]
    /\ \A c \in Calls : call[c] = Idle \/ (call[c].pc = "use" /\ call[c].id \in TokenIDs)

Init == /\ clock = 0 /\ issued = {} /\ nets = {}
        /\ app = [a \in Apps |-> NoNetwork]
        /\ usage = [i \in TokenIDs |-> 0]
        /\ call = [c \in Calls |-> Idle]
        /\ accepted = [i \in TokenIDs |-> 0]

-----------------------------------------------------------------------------
(* TokenManager *)

\* CreateToken with a signing key; what it returns is in issued.
CreateToken(signer, addr, key, maxUses) ==
    issued' = issued \cup
      {Sign(signer, [id |-> Cardinality(issued) + 1, addr |-> addr, key |-> key,
                     expires |-> clock + TTL, maxUses |-> maxUses])}

\* The tokens a caller may present: issued ones, issued ones with a field of
\* the text altered, and issued ones whose text is split elsewhere.
Presented ==
    issued \cup UNION {{[t EXCEPT !.text.maxUses = m] : m \in UseLimits}
                         \cup {[t EXCEPT !.text.expires = MaxTime]}
                         \cup {[t EXCEPT !.text.addr = x] : x \in Addrs}
                         \cup {[t EXCEPT !.split = k] : k \in Splits(t.text.addr)} : t \in issued}

\* Mutant: the limit of uses is not covered by the MAC.
VerifiesWithoutLimit(signer, t) ==
    computeMAC(signer, t.text) = [t.mac EXCEPT !.text.maxUses = t.text.maxUses]

\* hmac.Equal
Verifies(signer, t) == computeMAC(signer, t.text) = t.mac

Expired(t) == clock > t.text.expires

MayUse(count, maxUses) == ~(maxUses > 0 /\ count >= maxUses)

\* ValidateAndUse up to the mutex: signature and expiry.
Validate(c) ==
    /\ call[c] = Idle
    /\ \E t \in Presented : /\ Verifies(Shared, t) /\ ~Expired(t)
                            /\ call' = [call EXCEPT ![c] = [pc |-> "use", id |-> TokenID(t),
                                                            maxUses |-> t.text.maxUses]]
    /\ UNCHANGED <<clock, issued, nets, app, usage, accepted>>

\* The part under the mutex: count the use, or refuse.
Use(c) ==
    LET id == call[c].id IN
    /\ call[c].pc = "use"
    /\ IF MayUse(usage[id], call[c].maxUses)
       THEN /\ usage[id] < MaxAccepts
            /\ usage' = [usage EXCEPT ![id] = @ + 1]
            /\ accepted' = [accepted EXCEPT ![id] = @ + 1]
       ELSE UNCHANGED <<usage, accepted>>
    /\ call' = [call EXCEPT ![c] = Idle]
    /\ UNCHANGED <<clock, issued, nets, app>>

\* The shared manager issues a token for a network that exists.
Invite == /\ Cardinality(issued) < MaxTokens
          /\ \E net \in nets, m \in UseLimits : CreateToken(Shared, net[1], net[2], m)
          /\ UNCHANGED <<clock, nets, app, usage, call, accepted>>

-----------------------------------------------------------------------------
(* The desktop application *)

\* CreateNetwork draws a new network key and returns a token for it.
CreateNetwork(a) ==
    LET key == Cardinality(issued) + 1 IN
    /\ Cardinality(issued) < MaxTokens
    /\ \E addr \in Addrs :
          /\ app' = [app EXCEPT ![a] = Network(WholeAddr(addr), key)]
          /\ nets' = nets \cup {<<addr, key>>}
          /\ CreateToken(a, addr, key, AppUses)
    /\ UNCHANGED <<clock, usage, call, accepted>>

\* Mutant: the address is taken over before the token is known to be valid.
JoinBeforeValidation(a, t) ==
    IF Verifies(a, t) /\ ~Expired(t)
    THEN app' = [app EXCEPT ![a] = Network(TrackerAddr(t), t.text.key)]
    ELSE app' = [app EXCEPT ![a] = IF @.configured THEN [@ EXCEPT !.addr = TrackerAddr(t)] ELSE @]

\* Mutant: the key of the token is not taken over.
JoinForgetsKey(a, t) == IF Verifies(a, t) /\ ~Expired(t)
                        THEN app' = [app EXCEPT ![a] = [configured |-> TRUE,
                                                        addr |-> TrackerAddr(t)]]
                        ELSE UNCHANGED app

\* ValidateAndUse of a manager without any recorded use, then the assignments.
Join(a, t) == IF Verifies(a, t) /\ ~Expired(t) /\ MayUse(0, t.text.maxUses)
              THEN app' = [app EXCEPT ![a] = Network(TrackerAddr(t), t.text.key)]
              ELSE UNCHANGED app

JoinNetwork(a) == /\ \E t \in Presented : Join(a, t)
                  /\ UNCHANGED <<clock, issued, nets, usage, call, accepted>>

Tick == /\ clock < MaxTime
        /\ clock' = clock + 1
        /\ UNCHANGED <<issued, nets, app, usage, call, accepted>>

Next == \/ Tick \/ Invite
        \/ \E c \in Calls : Validate(c) \/ Use(c)
        \/ \E a \in Apps : CreateNetwork(a) \/ JoinNetwork(a)

Spec == Init /\ [][Next]_vars

-----------------------------------------------------------------------------
(* Properties *)

\* The goroutines that redeem tokens at one manager never get more uses under
\* an identifier than were granted to the token it was issued for, although
\* signature and expiry are checked outside the mutex and altered tokens are
\* presented.  Uses are counted by identifier as presented: each way to split
\* the signed text between identifier and address has a count of its own, and
\* nothing bounds their sum by the limit (invite.go, ValidateAndUse).
UsesBounded == \A t \in issued : \A k \in Splits(t.text.addr) :
    t.text.maxUses > 0 => accepted[<<t.text.id, k>>] <= t.text.maxUses

\* The key of an application is that of a network that was created, and its
\* address is the address of the same network or an ending of it, whatever was
\* joined in between.  That it is the whole address holds only for tokens
\* presented as they were issued: the signed text does not tell where the
\* address begins (app.go, JoinNetwork; invite.go, computeMAC).
AddressMatchesKey == \A a \in Apps :
    app[a].configured =>
       \E net \in nets : app[a].key = net[2] /\ app[a].addr \in {net[1]} \X Splits(net[1])
=============================================================================
