---------------------------- MODULE RelayProofs ----------------------------
(***************************************************************************)
(* A relayed session, for every number of bytes that the two ends write.   *)
(* The bytes of a direction are numbered; the argument is that the bytes   *)
(* read, the bytes on the connection of the reader and the bytes on the    *)
(* connection of the writer follow one another in number as long as the    *)
(* reader can still read.                                                  *)
(***************************************************************************)
EXTENDS Relay, Integers, SequenceTheorems, TLAPS

\* From position k on, the item at position i is byte number base + i.
Numbered(s, k, base) == \A i \in 1 .. Len(s) : i >= k => s[i] = base + i

\* Before the target is dialled nothing is under way but the relay's answer.
Quiet ==
    /\ copyUp = FALSE /\ copyDown = FALSE
    /\ toRelay = <<>> /\ toTarget = <<>> /\ fromTarget = <<>>
    /\ toClient = <<>> \/ toClient = <<ERR>>
    /\ sent["client"] = 0 /\ sent["target"] = 0
    /\ got["client"] = <<>> /\ got["target"] = <<>>
    /\ client \notin {"open", "closed"}

\* How far the three parties are, relative to one another.
Phases ==
    /\ client \in {"idle", "dialing", "direct"} => relay = "none"
    /\ relay \in {"none", "accepted", "dial"} => target = "listening" /\ toClient = <<>>
    /\ relay = "none" => client # "wait"
    /\ relay = "pipe" => target # "listening"
    /\ relay # "pipe" => copyUp = FALSE /\ copyDown = FALSE
    /\ target = "listening" => Quiet

\* A copy that has ended met the end of its input or a closed destination.
Drained ==
    target # "listening" =>
       /\ copyUp = FALSE /\ target = "open" => ClientGone /\ toRelay = <<>>
       /\ copyDown = FALSE /\ ~ClientGone => target = "closed" /\ fromTarget = <<>>

\* From client to target.
Upward ==
    LET read == Len(got["target"]) IN
    /\ Numbered(got["target"], 1, 0)
    /\ Numbered(toTarget, 1, read)
    /\ read + Len(toTarget) <= sent["client"]
    /\ target = "open" =>
          /\ Numbered(toRelay, 1, read + Len(toTarget))
          /\ read + Len(toTarget) + Len(toRelay) <= sent["client"]
          /\ client \in {"wait", "open"} =>
                read + Len(toTarget) + Len(toRelay) = sent["client"]

\* From target to client, once the client has read the relay's OK.
DownwardOpen ==
    LET read == trimmed + Len(got["client"]) IN
    client = "open" =>
       /\ Numbered(toClient, 1, read)
       /\ Numbered(fromTarget, 1, read + Len(toClient))
       /\ read + Len(toClient) + Len(fromTarget) <= sent["target"]
       /\ target = "open" => read + Len(toClient) + Len(fromTarget) = sent["target"]

\* From target to client while the client waits: OK is ahead of the bytes.
DownwardWait ==
    client = "wait" /\ target # "listening" =>
       /\ got["client"] = <<>>
       /\ toClient # <<>> => toClient[1] = OK
       /\ relay = "pipe" => toClient # <<>>
       /\ Numbered(toClient, 2, -1)
       /\ toClient # <<>> =>
             /\ Numbered(fromTarget, 1, Len(toClient) - 1)
             /\ Len(toClient) - 1 + Len(fromTarget) <= sent["target"]
             /\ target = "open" => Len(toClient) - 1 + Len(fromTarget) = sent["target"]

ReadDown == /\ Numbered(got["client"], 1, trimmed)
            /\ trimmed + Len(got["client"]) <= sent["target"]

RelayInv == /\ TypeOK /\ Phases /\ Drained
            /\ Upward /\ ReadDown /\ DownwardOpen /\ DownwardWait

-----------------------------------------------------------------------------
(* Numbered sequences *)

\* What is taken from the front of a stream, and what is left of it.
LEMMA Rest ==
  ASSUME NEW S, NEW s \in Seq(S), NEW n \in 1 .. Len(s)
  PROVE  /\ SubSeq(s, n + 1, Len(s)) \in Seq(S)
         /\ Len(SubSeq(s, n + 1, Len(s))) = Len(s) - n
         /\ \A i \in 1 .. Len(s) - n : SubSeq(s, n + 1, Len(s))[i] = s[n + i]
         /\ SubSeq(s, 1, n) \in Seq(S) /\ Len(SubSeq(s, 1, n)) = n
         /\ \A i \in 1 .. n : SubSeq(s, 1, n)[i] = s[i]
<1>0. Len(s) \in Nat /\ n \in Nat /\ n >= 1 /\ n <= Len(s)
  BY LenProperties
<1>1. \A i \in 1 .. Len(s) : s[i] \in S
  BY ElementOfSeq
<1>2. /\ SubSeq(s, n + 1, Len(s)) \in Seq(S)
      /\ Len(SubSeq(s, n + 1, Len(s))) =
            IF n + 1 <= Len(s) THEN Len(s) - (n + 1) + 1 ELSE 0
      /\ \A i \in 1 .. Len(s) - (n + 1) + 1 :
            SubSeq(s, n + 1, Len(s))[i] = s[(n + 1) + i - 1]
  <2>1. \A i \in n + 1 .. Len(s) : s[i] \in S
    BY <1>0, <1>1
  <2> QED
    BY ONLY <1>0, <2>1, SubSeqProperties
<1>3. ASSUME NEW i \in 1 .. Len(s) - n PROVE SubSeq(s, n + 1, Len(s))[i] = s[n + i]
  <2>1. (n + 1) + i - 1 = n + i /\ Len(s) - (n + 1) + 1 = Len(s) - n
    BY <1>0
  <2> QED
    BY <1>2, <2>1
<1>4. /\ SubSeq(s, 1, n) \in Seq(S)
      /\ Len(SubSeq(s, 1, n)) = IF 1 <= n THEN n - 1 + 1 ELSE 0
      /\ \A i \in 1 .. n - 1 + 1 : SubSeq(s, 1, n)[i] = s[1 + i - 1]
  <2>1. \A i \in 1 .. n : s[i] \in S
    BY <1>0, <1>1
  <2> QED
    BY ONLY <1>0, <2>1, SubSeqProperties
<1>5. /\ SubSeq(s, 1, n) \in Seq(S) /\ Len(SubSeq(s, 1, n)) = n
      /\ \A i \in 1 .. n : SubSeq(s, 1, n)[i] = s[i]
  BY <1>0, <1>4
<1> QED
  BY <1>0, <1>2, <1>3, <1>5

\* The bytes that a turn of io.Copy moves, and those that it leaves.
LEMMA Split ==
  ASSUME NEW S, NEW s \in Seq(S), NEW n \in 1 .. Len(s), NEW base \in Int,
         Numbered(s, 1, base)
  PROVE  /\ SubSeq(s, 1, n) \in Seq(S) /\ Len(SubSeq(s, 1, n)) = n
         /\ Numbered(SubSeq(s, 1, n), 1, base)
         /\ SubSeq(s, n + 1, Len(s)) \in Seq(S)
         /\ Len(SubSeq(s, n + 1, Len(s))) = Len(s) - n
         /\ Numbered(SubSeq(s, n + 1, Len(s)), 1, base + n)
<1>0. Len(s) \in Nat /\ n \in Nat /\ n >= 1 /\ n <= Len(s)
  BY LenProperties
<1>2. /\ SubSeq(s, 1, n) \in Seq(S) /\ Len(SubSeq(s, 1, n)) = n
      /\ \A i \in 1 .. n : SubSeq(s, 1, n)[i] = s[i]
  BY Rest
<1>3. /\ SubSeq(s, n + 1, Len(s)) \in Seq(S)
      /\ Len(SubSeq(s, n + 1, Len(s))) = Len(s) - n
      /\ \A i \in 1 .. Len(s) - n : SubSeq(s, n + 1, Len(s))[i] = s[n + i]
  BY Rest
<1>4. Numbered(SubSeq(s, 1, n), 1, base)
  BY <1>0, <1>2 DEF Numbered
<1>5. Numbered(SubSeq(s, n + 1, Len(s)), 1, base + n)
  BY <1>0, <1>3 DEF Numbered
<1> QED
  BY <1>2, <1>3, <1>4, <1>5

\* Bytes that continue a stream, written behind it.
LEMMA Join ==
  ASSUME NEW S, NEW s \in Seq(S), NEW t \in Seq(S), NEW k \in Nat, NEW base \in Int,
         NEW next \in Int, next = base + Len(s),
         Numbered(s, k, base), Numbered(t, 1, next), k <= Len(s) + 1
  PROVE  /\ s \o t \in Seq(S) /\ Len(s \o t) = Len(s) + Len(t)
         /\ Numbered(s \o t, k, base)
         /\ s # <<>> => s \o t # <<>> /\ (s \o t)[1] = s[1]
<1>0. Len(s) \in Nat /\ Len(t) \in Nat
  BY LenProperties
<1>1. /\ s \o t \in Seq(S) /\ Len(s \o t) = Len(s) + Len(t)
      /\ \A i \in 1 .. Len(s) + Len(t) :
            (s \o t)[i] = IF i <= Len(s) THEN s[i] ELSE t[i - Len(s)]
  BY ConcatProperties
<1>2. Numbered(s \o t, k, base)
  BY <1>0, <1>1 DEF Numbered
<1>3. s # <<>> => s \o t # <<>> /\ (s \o t)[1] = s[1]
  <2>1. s # <<>> => Len(s) >= 1
    BY <1>0, EmptySeq
  <2> QED
    BY <1>0, <1>1, <2>1, EmptySeq
<1> QED
  BY <1>1, <1>2, <1>3

\* A byte written behind the stream, or read behind those already read.
LEMMA Appended ==
  ASSUME NEW S, NEW s \in Seq(S), NEW base \in Int, NEW e \in S,
         Numbered(s, 1, base), e = base + Len(s) + 1
  PROVE  /\ Append(s, e) \in Seq(S) /\ Len(Append(s, e)) = Len(s) + 1
         /\ Numbered(Append(s, e), 1, base)
<1>0. Len(s) \in Nat
  BY LenProperties
<1>1. /\ Append(s, e) \in Seq(S) /\ Len(Append(s, e)) = Len(s) + 1
      /\ \A i \in 1 .. Len(s) : Append(s, e)[i] = s[i]
      /\ Append(s, e)[Len(s) + 1] = e
  BY AppendProperties
<1> QED
  BY <1>0, <1>1 DEF Numbered

\* The first byte is read.
LEMMA HeadRead ==
  ASSUME NEW S, NEW s \in Seq(S), s # <<>>, NEW base \in Int, Numbered(s, 1, base)
  PROVE  /\ Head(s) = base + 1 /\ Head(s) \in S
         /\ Tail(s) \in Seq(S) /\ Len(Tail(s)) = Len(s) - 1 /\ Len(s) >= 1
         /\ Numbered(Tail(s), 1, base + 1)
<1>0. Len(s) \in Nat \ {0}
  BY EmptySeq
<1>1. /\ Head(s) \in S /\ Tail(s) \in Seq(S) /\ Len(Tail(s)) = Len(s) - 1
      /\ \A i \in 1 .. Len(Tail(s)) : Tail(s)[i] = s[i + 1]
  BY HeadTailProperties
<1>2. Head(s) = s[1]
  BY <1>0
<1> QED
  BY <1>0, <1>1, <1>2 DEF Numbered

\* Nothing under way is numbered as one likes.
LEMMA NothingNumbered ==
  ASSUME NEW k, NEW base PROVE Numbered(<<>>, k, base) /\ Len(<<>>) = 0
  BY DEF Numbered

-----------------------------------------------------------------------------
(* The invariant is inductive *)

\* Lengths are numbers.
LEMMA Lengths ==
  ASSUME TypeOK
  PROVE  /\ Len(toRelay) \in Nat /\ Len(toTarget) \in Nat
         /\ Len(fromTarget) \in Nat /\ Len(toClient) \in Nat
         /\ got["client"] \in Bytes /\ Len(got["client"]) \in Nat
         /\ got["target"] \in Bytes /\ Len(got["target"]) \in Nat
         /\ sent["client"] \in Nat /\ sent["target"] \in Nat
         /\ sent["client"] <= MaxBytes /\ sent["target"] <= MaxBytes
         /\ trimmed \in Nat
  BY BytesAssumption, LenProperties DEF TypeOK, End, Bytes

\* Nothing has been sent when the session starts.
LEMMA InitRelayInv == Init => RelayInv
<1> SUFFICES ASSUME Init PROVE RelayInv
  OBVIOUS
<1>1. TypeOK
  <2>1. 0 \in 0 .. MaxBytes
    BY BytesAssumption
  <2>2. sent \in [End -> 0 .. MaxBytes]
    BY <2>1 DEF Init
  <2>3. got \in [End -> Bytes]
    BY EmptySeq DEF Init, Bytes
  <2> QED
    BY <2>2, <2>3, EmptySeq DEF Init, TypeOK, Bytes
<1>2. Phases
  BY DEF Init, Phases, Quiet, End
<1>3. Drained
  BY DEF Init, Drained
<1>4. Upward /\ ReadDown
  BY NothingNumbered DEF Init, Upward, ReadDown, End
<1>5. DownwardOpen /\ DownwardWait
  BY DEF Init, DownwardOpen, DownwardWait
<1> QED
  BY <1>1, <1>2, <1>3, <1>4, <1>5 DEF RelayInv

\* Until the target is dialled, only the states of client and relay change.
LEMMA SetupSteps ==
  ASSUME RelayInv, Dial \/ Connect \/ HandshakeFails \/ ReadAddress
  PROVE  RelayInv'
<1> USE DEF RelayInv
<1>1. TypeOK'
  BY DEF TypeOK, Dial, Connect, HandshakeFails, ReadAddress
<1>2. Phases'
  BY DEF TypeOK, Phases, Quiet, Dial, Connect, HandshakeFails, ReadAddress
<1>3. Drained'
  BY DEF TypeOK, Phases, Drained, ClientGone, Dial, Connect, HandshakeFails, ReadAddress
<1>4. Upward' /\ ReadDown'
  BY DEF Upward, ReadDown, Phases, Dial, Connect, HandshakeFails, ReadAddress
<1>5. DownwardOpen' /\ DownwardWait'
  BY DEF DownwardOpen, DownwardWait, Phases, Dial, Connect, HandshakeFails, ReadAddress
<1> QED
  BY <1>1, <1>2, <1>3, <1>4, <1>5

\* The answer is one item, ahead of every byte.
LEMMA DialTargetStep == ASSUME RelayInv, DialTarget PROVE RelayInv'
<1> USE DEF RelayInv
<1>0. /\ relay = "dial" /\ target = "listening" /\ Quiet /\ client \notin {"idle", "dialing", "direct"}
      /\ toClient = <<>>
  BY DEF DialTarget, Phases
<1>1. CASE target' = "open"
  <2>1. /\ relay' = "pipe" /\ copyUp' = TRUE /\ copyDown' = TRUE /\ toClient' = <<OK>>
        /\ UNCHANGED <<client, toRelay, toTarget, fromTarget, sent, got, trimmed>>
    BY <1>0, <1>1 DEF DialTarget
  <2>2. TypeOK'
    BY <1>1, <2>1 DEF TypeOK
  <2>3. Phases'
    BY <1>0, <1>1, <2>1 DEF Phases
  <2>4. Drained'
    BY <2>1 DEF Drained
  <2>5. Upward'
    BY <1>0, <2>1, NothingNumbered DEF Upward, Quiet
  <2>6. ReadDown' /\ DownwardOpen'
    BY <1>0, <2>1 DEF ReadDown, DownwardOpen, Quiet
  <2>7. DownwardWait'
    <3>1. <<OK>> # <<>> /\ Len(<<OK>>) = 1 /\ <<OK>>[1] = OK
      OBVIOUS
    <3>2. Numbered(<<OK>>, 2, -1)
      BY <3>1 DEF Numbered
    <3>3. Numbered(fromTarget, 1, Len(<<OK>>) - 1) /\ Len(fromTarget) = 0
      BY <1>0, NothingNumbered DEF Quiet
    <3> QED
      BY <1>0, <2>1, <3>1, <3>2, <3>3 DEF DownwardWait, Quiet
  <2> QED
    BY <2>2, <2>3, <2>4, <2>5, <2>6, <2>7
<1>2. CASE target' # "open"
  <2>1. /\ relay' = "ended" /\ toClient' = <<ERR>>
        /\ UNCHANGED <<client, target, copyUp, copyDown, toRelay, toTarget, fromTarget, sent, got, trimmed>>
    BY <1>0, <1>2 DEF DialTarget
  <2>2. TypeOK'
    BY <2>1 DEF TypeOK
  <2>3. Phases'
    BY <1>0, <2>1 DEF Phases, Quiet
  <2>4. Drained' /\ Upward' /\ ReadDown' /\ DownwardWait'
    BY <1>0, <2>1 DEF Drained, Upward, ReadDown, DownwardWait
  <2>5. DownwardOpen'
    BY <1>0, <2>1 DEF DownwardOpen, Quiet
  <2> QED
    BY <2>2, <2>3, <2>4, <2>5
<1> QED
  BY <1>1, <1>2

\* The handshake takes the answer, and the client that goes on has taken
\* nothing else but a byte that was trimmed: the bytes behind OK are still there,
\* from the next one on.
LEMMA HandshakeStep == ASSUME RelayInv, Handshake PROVE RelayInv'
<1> USE DEF RelayInv
<1>0. /\ client = "wait" /\ toClient # <<>>
      /\ UNCHANGED <<relay, target, copyUp, copyDown, toRelay, toTarget, fromTarget, sent, got>>
  BY DEF Handshake
<1>1. PICK n \in 1 .. (IF Head(toClient) = OK THEN 2 ELSE 1), blank \in BOOLEAN :
        /\ n <= Len(toClient)
        /\ client' = IF Accepted(SubSeq(toClient, 1, n), blank) THEN "open" ELSE "failed"
        /\ trimmed' = IF Accepted(SubSeq(toClient, 1, n), blank) /\ blank THEN n - 1 ELSE 0
        /\ toClient' = SubSeq(toClient, n + 1, Len(toClient))
  BY DEF Handshake
<1> DEFINE Item == {OK, ERR} \cup 1 .. MaxBytes
<1>2. toClient \in Seq(Item) /\ Len(toClient) \in Nat /\ n \in 1 .. Len(toClient)
  BY <1>1, Lengths DEF TypeOK
<1>3. /\ toClient' \in Seq(Item) /\ Len(toClient') = Len(toClient) - n
      /\ \A i \in 1 .. Len(toClient) - n : toClient'[i] = toClient[n + i]
      /\ Len(SubSeq(toClient, 1, n)) = n /\ SubSeq(toClient, 1, n)[1] = toClient[1]
  <2>1. 1 \in 1 .. n
    BY <1>2
  <2> HIDE DEF Item
  <2> QED
    BY <1>1, <1>2, <2>1, Rest
<1>4. client' \in {"open", "failed"}
  BY <1>1
<1>5. /\ client' = "open" => toClient[1] = OK /\ trimmed' = n - 1
      /\ client' = "failed" => trimmed' = 0
      /\ trimmed' \in {0, 1}
  <2>1. n \in {1, 2}
    BY <1>1
  <2>2. n = 1 => n - 1 = 0
    OBVIOUS
  <2>3. n = 2 => n - 1 = 1
    OBVIOUS
  <2>4. Len(SubSeq(toClient, 1, n)) = n /\ SubSeq(toClient, 1, n)[1] = toClient[1]
    BY <1>3
  <2>5. Accepted(SubSeq(toClient, 1, n), blank) => toClient[1] = OK /\ (n = 2 => blank)
    BY <2>4 DEF Accepted
  <2> QED
    BY <1>1, <2>1, <2>2, <2>3, <2>5
<1>6. client' = "open" => target # "listening"
  <2>1. toClient = <<ERR>> => toClient[1] = ERR
    OBVIOUS
  <2> QED
    BY <1>0, <1>5, <2>1, BytesAssumption DEF Phases, Quiet
<1>7. TypeOK'
  BY <1>0, <1>3, <1>4, <1>5 DEF TypeOK
<1>8. Phases'
  <2>1. toClient = <<ERR>> => toClient' = <<>>
    <3>1. toClient = <<ERR>> => Len(toClient) = 1
      OBVIOUS
    <3>2. toClient = <<ERR>> => Len(toClient') = 0
      BY <1>2, <1>3, <3>1
    <3> QED
      BY <1>3, <3>2, EmptySeq
  <2> QED
    BY <1>0, <1>4, <1>6, <2>1 DEF Phases, Quiet
<1>9. Drained'
  BY <1>0, <1>4 DEF Drained, ClientGone
<1>10. Upward'
  BY <1>0, <1>4 DEF Upward
<1>11. DownwardWait'
  BY <1>4 DEF DownwardWait
<1>12. got["client"] = <<>> /\ Len(got["client"]) = 0
  BY <1>0, NothingNumbered DEF Phases, Quiet, DownwardWait
<1>13. client' = "open" =>
         /\ Numbered(toClient, 2, -1)
         /\ Numbered(fromTarget, 1, Len(toClient) - 1)
         /\ Len(toClient) - 1 + Len(fromTarget) <= sent["target"]
         /\ target = "open" => Len(toClient) - 1 + Len(fromTarget) = sent["target"]
  BY <1>0, <1>6 DEF DownwardWait
<1>14. client' = "open" =>
         trimmed' \in Nat /\ trimmed' + Len(toClient') = Len(toClient) - 1 /\ Len(toClient') \in Nat
  BY <1>2, <1>3, <1>5
<1>15. ReadDown'
  <2>1. got' = got /\ sent' = sent /\ trimmed' \in Nat
    BY <1>0, <1>5
  <2>2. Numbered(got["client"]', 1, trimmed')
    BY <1>12, <2>1, NothingNumbered
  <2>3. trimmed' + 0 <= sent["target"]
    <3>1. CASE client' = "open"
      BY <1>13, <1>14, <3>1, Lengths
    <3>2. CASE client' = "failed"
      BY <1>5, <3>2, Lengths
    <3> QED
      BY <1>4, <3>1, <3>2
  <2> QED
    BY <1>12, <2>1, <2>2, <2>3 DEF ReadDown
<1>16. DownwardOpen'
  <2> SUFFICES ASSUME client' = "open" PROVE DownwardOpen'
    BY DEF DownwardOpen
  <2>1. Numbered(toClient', 1, trimmed')
    BY <1>2, <1>3, <1>5, <1>13 DEF Numbered
  <2>2. trimmed' + Len(got["client"]') = trimmed'
    BY <1>0, <1>12, <1>14
  <2> QED
    BY <1>0, <1>13, <1>14, <2>1, <2>2 DEF DownwardOpen
<1> QED
  BY <1>7, <1>8, <1>9, <1>10, <1>11, <1>15, <1>16

\* A turn of the upward copy: the bytes it takes from one connection continue
\* the other.
LEMMA CopyToTargetStep == ASSUME RelayInv, CopyToTarget PROVE RelayInv'
<1> USE DEF RelayInv
<1>0. /\ copyUp
      /\ UNCHANGED <<client, relay, target, copyDown, fromTarget, toClient, sent, got, trimmed>>
  BY DEF CopyToTarget
<1>1. PICK n \in 1 .. Len(toRelay) :
        /\ toRelay' = SubSeq(toRelay, n + 1, Len(toRelay))
        /\ IF target = "closed"
           THEN copyUp' \in BOOLEAN /\ UNCHANGED toTarget
           ELSE toTarget' = toTarget \o SubSeq(toRelay, 1, n) /\ UNCHANGED copyUp
  BY DEF CopyToTarget
<1>2. relay = "pipe" /\ target \in {"open", "closed"}
  BY <1>0 DEF Phases, Quiet, TypeOK
<1>3. toRelay \in Seq(1 .. MaxBytes) /\ toTarget \in Seq(1 .. MaxBytes)
  BY DEF TypeOK, Bytes
<1>4. toRelay' \in Seq(1 .. MaxBytes) /\ Len(toRelay') = Len(toRelay) - n
  BY <1>1, <1>3, Rest
<1>5. CASE target = "closed"
  <2>1. copyUp' \in BOOLEAN /\ toTarget' = toTarget
    BY <1>1, <1>5
  <2>2. TypeOK'
    BY <1>0, <1>4, <2>1 DEF TypeOK, Bytes
  <2>3. Phases'
    BY <1>0, <1>2, <1>5 DEF Phases
  <2>4. Drained'
    BY <1>0, <1>5 DEF Drained, ClientGone
  <2>5. Upward' /\ ReadDown' /\ DownwardOpen' /\ DownwardWait'
    BY <1>0, <1>5, <2>1 DEF Upward, ReadDown, DownwardOpen, DownwardWait
  <2> QED
    BY <2>2, <2>3, <2>4, <2>5
<1>6. CASE target = "open"
  <2> DEFINE moved == SubSeq(toRelay, 1, n)
  <2>0. PICK base \in Int : base = Len(got["target"]) + Len(toTarget)
    BY Lengths
  <2>1. toTarget' = toTarget \o moved /\ copyUp' = copyUp
    BY <1>1, <1>6
  <2>2. /\ Len(toTarget) \in Nat /\ Len(got["target"]) \in Nat
        /\ Len(toRelay) \in Nat /\ n \in Nat /\ sent["client"] \in Nat
    BY Lengths
  <2>3. /\ Numbered(toTarget, 1, Len(got["target"])) /\ Numbered(toRelay, 1, base)
        /\ base + Len(toRelay) <= sent["client"]
        /\ client \in {"wait", "open"} => base + Len(toRelay) = sent["client"]
    BY <1>6, <2>0 DEF Upward
  <2>4. /\ moved \in Seq(1 .. MaxBytes) /\ Len(moved) = n
        /\ Numbered(moved, 1, base) /\ Numbered(toRelay', 1, base + n)
    <3>1. PICK S : S = 1 .. MaxBytes
      OBVIOUS
    <3>2. toRelay \in Seq(S) /\ n \in 1 .. Len(toRelay) /\ base \in Int /\ Numbered(toRelay, 1, base)
      BY <1>3, <2>3, <3>1
    <3>3. /\ moved \in Seq(S) /\ Len(moved) = n /\ Numbered(moved, 1, base)
          /\ Numbered(SubSeq(toRelay, n + 1, Len(toRelay)), 1, base + n)
      BY ONLY <3>2, Split
    <3> QED
      BY <1>1, <3>1, <3>3
  <2>5. /\ toTarget' \in Seq(1 .. MaxBytes) /\ Len(toTarget') = Len(toTarget) + n
        /\ Numbered(toTarget', 1, Len(got["target"]))
    <3>1. 1 <= Len(toTarget) + 1
      BY <2>2
    <3>2. PICK m \in Seq(1 .. MaxBytes) : m = moved
      BY <2>4
    <3>3. PICK b \in Int : b = Len(got["target"])
      BY <2>2
    <3>4. /\ Numbered(m, 1, base) /\ base = b + Len(toTarget)
          /\ Numbered(toTarget, 1, b) /\ Len(m) = n
      BY <2>0, <2>3, <2>4, <3>2, <3>3
    <3>5. /\ toTarget \o m \in Seq(1 .. MaxBytes)
          /\ Len(toTarget \o m) = Len(toTarget) + Len(m)
          /\ Numbered(toTarget \o m, 1, b)
      BY ONLY <1>3, <3>1, <3>4, Join, m \in Seq(1 .. MaxBytes), b \in Int, base \in Int
    <3> QED
      BY ONLY <2>1, <3>2, <3>3, <3>4, <3>5
  <2>6. TypeOK'
    BY <1>0, <1>4, <2>1, <2>5 DEF TypeOK, Bytes
  <2>7. Phases'
    BY <1>0, <1>2, <2>1 DEF Phases
  <2>8. Drained'
    BY <1>0, <2>1 DEF Drained, ClientGone
  <2>9. Upward'
    <3>1. Len(got["target"]) + Len(toTarget') = base + n
      <4>1. Len(toTarget') = Len(toTarget) + n
        BY <2>5
      <4>2. Len(toTarget) \in Int /\ Len(got["target"]) \in Int /\ n \in Int
        BY <2>2
      <4>3. \A i, j, k \in Int : i + (j + k) = (i + j) + k
        OBVIOUS
      <4>4. Len(got["target"]) + (Len(toTarget) + n) = (Len(got["target"]) + Len(toTarget)) + n
        BY ONLY <4>2, <4>3, Zenon
      <4> QED
        BY ONLY <2>0, <4>1, <4>4
    <3>2. /\ base + n <= sent["client"]
          /\ base + n + Len(toRelay') = base + Len(toRelay)
      BY <1>4, <2>2, <2>3
    <3>3. Numbered(toRelay', 1, Len(got["target"]) + Len(toTarget'))
      BY <2>4, <3>1
    <3> QED
      BY <1>0, <2>3, <2>5, <3>1, <3>2, <3>3 DEF Upward
  <2>10. ReadDown' /\ DownwardOpen' /\ DownwardWait'
    BY <1>0 DEF ReadDown, DownwardOpen, DownwardWait
  <2> QED
    BY <2>6, <2>7, <2>8, <2>9, <2>10
<1> QED
  BY <1>2, <1>5, <1>6

\* A turn of the downward copy, while the client waits or has the session.
LEMMA CopyToClientStep == ASSUME RelayInv, CopyToClient PROVE RelayInv'
<1> USE DEF RelayInv
<1>0. /\ copyDown
      /\ UNCHANGED <<client, relay, target, copyUp, toRelay, toTarget, sent, got, trimmed>>
  BY DEF CopyToClient
<1>1. PICK n \in 1 .. Len(fromTarget) :
        /\ fromTarget' = SubSeq(fromTarget, n + 1, Len(fromTarget))
        /\ IF ClientGone
           THEN copyDown' \in BOOLEAN /\ UNCHANGED toClient
           ELSE toClient' = toClient \o SubSeq(fromTarget, 1, n) /\ UNCHANGED copyDown
  BY DEF CopyToClient
<1>2. relay = "pipe" /\ target \in {"open", "closed"}
  BY <1>0 DEF Phases, Quiet, TypeOK
<1> DEFINE Item == {OK, ERR} \cup 1 .. MaxBytes
           moved == SubSeq(fromTarget, 1, n)
<1>3. fromTarget \in Seq(1 .. MaxBytes) /\ toClient \in Seq(Item)
  BY DEF TypeOK, Bytes
<1>4. fromTarget' \in Seq(1 .. MaxBytes) /\ Len(fromTarget') = Len(fromTarget) - n
  BY <1>1, <1>3, Rest
<1>5. Upward' /\ ReadDown'
  BY <1>0 DEF Upward, ReadDown
<1>6. CASE ClientGone
  <2>1. copyDown' \in BOOLEAN /\ toClient' = toClient
    BY <1>1, <1>6
  <2>2. TypeOK'
    BY <1>0, <1>4, <2>1 DEF TypeOK, Bytes
  <2>3. Phases'
    BY <1>0, <1>2 DEF Phases
  <2>4. Drained' /\ DownwardOpen' /\ DownwardWait'
    BY <1>0, <1>6 DEF Drained, DownwardOpen, DownwardWait, ClientGone
  <2> QED
    BY <1>5, <2>2, <2>3, <2>4
<1>7. CASE ~ClientGone
  <2>1. toClient' = toClient \o moved /\ copyDown' = copyDown
    BY <1>1, <1>7
  <2>2. client \in {"wait", "open"}
    BY <1>2, <1>7 DEF Phases, TypeOK, ClientGone
  <2>3. /\ Len(toClient) \in Nat /\ trimmed + Len(got["client"]) \in Nat
        /\ Len(fromTarget) \in Nat /\ n \in Nat /\ sent["target"] \in Nat
    BY Lengths
  <2>4. PICK k \in {1, 2}, base \in Int :
          /\ k <= Len(toClient) + 1
          /\ Numbered(toClient, k, base) /\ Numbered(fromTarget, 1, base + Len(toClient))
          /\ base + Len(toClient) + Len(fromTarget) <= sent["target"]
          /\ target = "open" => base + Len(toClient) + Len(fromTarget) = sent["target"]
          /\ client = "open" => k = 1 /\ base = trimmed + Len(got["client"])
          /\ client = "wait" => k = 2 /\ base = -1 /\ toClient # <<>>
    <3>1. CASE client = "open"
      BY <2>3, <3>1 DEF DownwardOpen
    <3>2. CASE client = "wait"
      <4>1. toClient # <<>> /\ Len(toClient) >= 1
        BY <1>2, <1>3, <2>3, <3>2, EmptySeq DEF DownwardWait
      <4>2. Len(toClient) - 1 = (-1) + Len(toClient)
        BY <2>3
      <4>3. /\ Numbered(toClient, 2, -1) /\ Numbered(fromTarget, 1, (-1) + Len(toClient))
            /\ (-1) + Len(toClient) + Len(fromTarget) <= sent["target"]
            /\ target = "open" => (-1) + Len(toClient) + Len(fromTarget) = sent["target"]
        BY <1>2, <3>2, <4>1, <4>2 DEF DownwardWait
      <4> QED
        BY <3>2, <4>1, <4>3, <2>3
    <3> QED
      BY <2>2, <3>1, <3>2
  <2>41. PICK next \in Int : next = base + Len(toClient)
    BY <2>3, <2>4
  <2>42. Numbered(fromTarget, 1, next)
    BY <2>4, <2>41
  <2>5. /\ moved \in Seq(1 .. MaxBytes) /\ Len(moved) = n
        /\ Numbered(moved, 1, next) /\ Numbered(fromTarget', 1, next + n)
    BY <1>1, <1>3, <2>42, Split
  <2>6. moved \in Seq(Item)
    <3>1. \A i \in 1 .. Len(moved) : moved[i] \in Item
      BY <2>5, ElementOfSeq
    <3> QED
      BY <2>5, <3>1
  <2>7. /\ toClient' \in Seq(Item) /\ Len(toClient') = Len(toClient) + n
        /\ Numbered(toClient', k, base)
        /\ toClient # <<>> => toClient' # <<>> /\ toClient'[1] = toClient[1]
    <3>1. PICK m \in Seq(Item) : m = moved
      BY <2>6
    <3>2. Numbered(m, 1, next) /\ Len(m) = n
      BY <2>5, <3>1
    <3>3. Numbered(toClient, k, base) /\ k \in Nat /\ k <= Len(toClient) + 1
      BY <2>4
    <3> HIDE DEF moved, Item
    <3>4. /\ toClient \o m \in Seq(Item)
          /\ Len(toClient \o m) = Len(toClient) + Len(m)
          /\ Numbered(toClient \o m, k, base)
          /\ toClient # <<>> => toClient \o m # <<>> /\ (toClient \o m)[1] = toClient[1]
      BY ONLY <1>3, <2>41, <3>2, <3>3, Join, m \in Seq(Item), base \in Int, next \in Int
    <3> QED
      BY ONLY <2>1, <3>1, <3>2, <3>4
  <2>8. TypeOK'
    BY <1>0, <1>4, <2>1, <2>7 DEF TypeOK, Bytes
  <2>9. Phases'
    BY <1>0, <1>2, <2>1 DEF Phases
  <2>10. Drained'
    BY <1>0, <2>1 DEF Drained, ClientGone
  <2>11. /\ base + Len(toClient) + n = base + Len(toClient')
         /\ base + Len(toClient') + Len(fromTarget') = base + Len(toClient) + Len(fromTarget)
    BY <1>4, <2>3, <2>7
  <2>12. Numbered(fromTarget', 1, base + Len(toClient'))
    BY <2>41, <2>5, <2>11
  <2>13. DownwardOpen'
    BY <1>0, <2>4, <2>7, <2>11, <2>12 DEF DownwardOpen
  <2>14. DownwardWait'
    <3> SUFFICES ASSUME client = "wait" PROVE DownwardWait'
      BY <1>0 DEF DownwardWait
    <3>1. base = -1 /\ k = 2 /\ toClient # <<>> /\ toClient' # <<>>
      BY <2>4, <2>7
    <3>2. toClient'[1] = OK /\ got["client"] = <<>>
      BY <1>2, <2>7, <3>1 DEF DownwardWait
    <3>3. base + Len(toClient') = Len(toClient') - 1
      BY <2>3, <2>7, <3>1
    <3> QED
      BY <1>0, <2>4, <2>7, <2>11, <2>12, <3>1, <3>2, <3>3 DEF DownwardWait
  <2> QED
    BY <1>5, <2>8, <2>9, <2>10, <2>13, <2>14
<1> QED
  BY <1>6, <1>7

\* A copy ends at the end of its input.
LEMMA EndOfCopySteps == ASSUME RelayInv, EndOfClient \/ EndOfTarget PROVE RelayInv'
<1> USE DEF RelayInv
<1>1. UNCHANGED <<client, relay, target, toRelay, toTarget, fromTarget, toClient, sent, got, trimmed>>
  BY DEF EndOfClient, EndOfTarget
<1>2. TypeOK'
  BY DEF TypeOK, EndOfClient, EndOfTarget
<1>3. Phases'
  BY DEF Phases, Quiet, EndOfClient, EndOfTarget
<1>4. Drained'
  BY DEF Drained, ClientGone, EndOfClient, EndOfTarget
<1>5. Upward' /\ ReadDown' /\ DownwardOpen' /\ DownwardWait'
  BY <1>1 DEF Upward, ReadDown, DownwardOpen, DownwardWait
<1> QED
  BY <1>2, <1>3, <1>4, <1>5

\* Closing both connections may destroy what an end has not read, and then
\* nothing more comes to that end.
LEMMA EndSessionStep == ASSUME RelayInv, EndSession PROVE RelayInv'
<1> USE DEF RelayInv
<1>0. /\ relay = "pipe" /\ copyUp = FALSE /\ copyDown = FALSE /\ relay' = "ended"
      /\ UNCHANGED <<client, target, copyUp, copyDown, toRelay, fromTarget, sent, got, trimmed>>
  BY DEF EndSession, PipeDone, TypeOK
<1>1. toClient' \in {toClient, <<>>} /\ toTarget' \in {toTarget, <<>>}
  BY DEF EndSession, AfterClose
<1>2. target \in {"open", "closed"}
  BY <1>0 DEF Phases, TypeOK
<1>3. TypeOK'
  <2>1. /\ toClient' \in Seq({OK, ERR} \cup 1 .. MaxBytes)
        /\ toTarget' \in Seq(1 .. MaxBytes)
    BY <1>1, EmptySeq DEF TypeOK, Bytes
  <2> QED
    BY <1>0, <2>1 DEF TypeOK, Bytes
<1>4. Phases'
  BY <1>0, <1>2 DEF Phases
<1>5. Drained'
  BY <1>0 DEF Drained, ClientGone
<1>6. Upward'
  <2>1. target = "open" => client \notin {"wait", "open"} /\ toRelay = <<>>
    BY <1>0, <1>2 DEF Drained, ClientGone
  <2>2. /\ Numbered(got["target"], 1, 0) /\ Numbered(toTarget', 1, Len(got["target"]))
        /\ Len(got["target"]) + Len(toTarget') <= sent["client"]
    <3>1. CASE toTarget' = toTarget
      BY <3>1 DEF Upward
    <3>2. CASE toTarget' = <<>>
      <4>1. /\ Numbered(toTarget', 1, Len(got["target"])) /\ Len(toTarget') = 0
        BY <3>2, NothingNumbered
      <4> QED
        BY <4>1, Lengths DEF Upward
    <3> QED
      BY <1>1, <3>1, <3>2
  <2>3. /\ target = "open" => Numbered(toRelay, 1, Len(got["target"]) + Len(toTarget'))
        /\ target = "open" => Len(toRelay) = 0
    BY <2>1, NothingNumbered
  <2>4. Len(toTarget') \in Nat
    BY <1>1, Lengths, NothingNumbered
  <2> QED
    BY <1>0, <2>1, <2>2, <2>3, <2>4, Lengths DEF Upward
<1>7. ReadDown'
  BY <1>0 DEF ReadDown
<1>8. ~ClientGone => target = "closed" /\ fromTarget = <<>> /\ Len(fromTarget) = 0
  BY <1>0, <1>2, NothingNumbered DEF Drained
<1>9. DownwardOpen'
  <2> SUFFICES ASSUME client = "open" PROVE DownwardOpen'
    BY <1>0 DEF DownwardOpen
  <2>1. target = "closed" /\ fromTarget = <<>> /\ Len(fromTarget) = 0
    BY <1>8 DEF ClientGone
  <2>2. /\ Numbered(toClient', 1, trimmed + Len(got["client"])) /\ Len(toClient') \in Nat
        /\ Len(toClient') <= Len(toClient)
    BY <1>1, Lengths, NothingNumbered DEF DownwardOpen
  <2>3. Numbered(fromTarget, 1, trimmed + Len(got["client"]) + Len(toClient'))
    BY <2>1, NothingNumbered
  <2>4. trimmed + Len(got["client"]) + Len(toClient') + Len(fromTarget) <= sent["target"]
    BY <2>1, <2>2, Lengths DEF DownwardOpen
  <2> QED
    BY <1>0, <2>1, <2>2, <2>3, <2>4 DEF DownwardOpen
<1>10. DownwardWait'
  <2> SUFFICES ASSUME client = "wait" PROVE DownwardWait'
    BY <1>0 DEF DownwardWait
  <2>1. target = "closed"
    BY <1>8 DEF ClientGone
  <2>2. CASE toClient' = toClient
    BY <1>0, <1>2, <2>1, <2>2 DEF DownwardWait
  <2>3. CASE toClient' = <<>>
    BY <1>0, <1>2, <2>3, NothingNumbered DEF DownwardWait
  <2> QED
    BY <1>1, <2>2, <2>3
<1> QED
  BY <1>3, <1>4, <1>5, <1>6, <1>7, <1>9, <1>10

\* An end that closes stops reading, and may destroy what it has written.
LEMMA CloseSteps == ASSUME RelayInv, ClientCloses \/ TargetCloses PROVE RelayInv'
<1> USE DEF RelayInv
<1>1. CASE ClientCloses
  <2>0. /\ client = "open" /\ client' = "closed"
        /\ UNCHANGED <<relay, target, copyUp, copyDown, toTarget, fromTarget, toClient, sent, got, trimmed>>
        /\ toRelay' \in {toRelay, <<>>}
    BY <1>1 DEF ClientCloses, AfterClose
  <2>1. TypeOK'
    <3>1. toRelay' \in Seq(1 .. MaxBytes)
      BY <2>0, EmptySeq DEF TypeOK, Bytes
    <3> QED
      BY <2>0, <3>1 DEF TypeOK, Bytes
  <2>2. Phases'
    BY <2>0 DEF Phases, Quiet
  <2>3. Drained'
    BY <2>0 DEF Drained, ClientGone
  <2>4. Upward'
    <3>1. CASE toRelay' = toRelay
      BY <2>0, <3>1 DEF Upward
    <3>2. CASE toRelay' = <<>>
      <4>1. /\ Numbered(toRelay', 1, Len(got["target"]) + Len(toTarget)) /\ Len(toRelay') = 0
        BY <3>2, NothingNumbered
      <4> QED
        BY <2>0, <4>1, Lengths DEF Upward
    <3> QED
      BY <2>0, <3>1, <3>2
  <2>5. ReadDown' /\ DownwardOpen' /\ DownwardWait'
    BY <2>0 DEF ReadDown, DownwardOpen, DownwardWait
  <2> QED
    BY <2>1, <2>2, <2>3, <2>4, <2>5
<1>2. CASE TargetCloses
  <2>0. /\ target = "open" /\ target' = "closed"
        /\ UNCHANGED <<client, relay, copyUp, copyDown, toRelay, toTarget, toClient, sent, got, trimmed>>
        /\ fromTarget' \in {fromTarget, <<>>}
    BY <1>2 DEF TargetCloses, AfterClose
  <2>1. TypeOK'
    <3>1. fromTarget' \in Seq(1 .. MaxBytes)
      BY <2>0, EmptySeq DEF TypeOK, Bytes
    <3> QED
      BY <2>0, <3>1 DEF TypeOK, Bytes
  <2>2. Phases'
    BY <2>0 DEF Phases, Quiet
  <2>3. Drained'
    BY <2>0 DEF Drained, ClientGone
  <2>4. Upward' /\ ReadDown'
    BY <2>0 DEF Upward, ReadDown
  <2>5. DownwardOpen' /\ DownwardWait'
    <3>1. CASE fromTarget' = fromTarget
      BY <2>0, <3>1 DEF DownwardOpen, DownwardWait
    <3>2. CASE fromTarget' = <<>>
      <4>1. Len(fromTarget') = 0
        BY <3>2, NothingNumbered
      <4>2. /\ Numbered(fromTarget', 1, trimmed + Len(got["client"]) + Len(toClient))
            /\ Numbered(fromTarget', 1, Len(toClient) - 1)
        BY <3>2, NothingNumbered
      <4>3. DownwardOpen'
        BY <2>0, <4>1, <4>2, Lengths DEF DownwardOpen
      <4>4. DownwardWait'
        BY <2>0, <4>1, <4>2, Lengths DEF DownwardWait
      <4> QED
        BY <4>3, <4>4
    <3> QED
      BY <2>0, <3>1, <3>2
  <2> QED
    BY <2>1, <2>2, <2>3, <2>4, <2>5
<1> QED
  BY <1>1, <1>2

\* A byte that the client writes gets the next number.
LEMMA ClientWritesStep == ASSUME RelayInv, ClientWrites PROVE RelayInv'
<1> USE DEF RelayInv
<1>0. /\ client = "open" /\ relay # "ended" /\ sent["client"] < MaxBytes
      /\ toRelay' = Append(toRelay, sent["client"] + 1)
      /\ UNCHANGED <<client, relay, target, copyUp, copyDown, toTarget, fromTarget, toClient, got, trimmed>>
  BY DEF ClientWrites
<1>1. sent' \in [End -> 0 .. MaxBytes] /\ sent'["client"] = sent["client"] + 1
      /\ sent'["target"] = sent["target"]
  <2>1. sent["client"] + 1 \in 0 .. MaxBytes
    BY <1>0, Lengths, BytesAssumption
  <2>2. sent' = [sent EXCEPT !["client"] = sent["client"] + 1]
    BY DEF ClientWrites
  <2> QED
    BY <2>1, <2>2 DEF TypeOK, End
<1>2. target # "listening" /\ relay = "pipe"
  BY <1>0 DEF Phases, Quiet, TypeOK
<1>3. toRelay' \in Seq(1 .. MaxBytes) /\ Len(toRelay') = Len(toRelay) + 1
  <2>1. sent["client"] + 1 \in 1 .. MaxBytes
    BY <1>0, Lengths, BytesAssumption
  <2>2. toRelay \in Seq(1 .. MaxBytes)
    BY DEF TypeOK, Bytes
  <2> QED
    BY <1>0, <2>1, <2>2, AppendProperties
<1>4. TypeOK'
  BY <1>0, <1>1, <1>3 DEF TypeOK, Bytes
<1>5. Phases'
  BY <1>0, <1>2 DEF Phases
<1>6. Drained'
  BY <1>0 DEF Drained, ClientGone
<1>7. Upward'
  <2>1. target = "open" =>
          /\ Numbered(toRelay', 1, Len(got["target"]) + Len(toTarget))
          /\ Len(got["target"]) + Len(toTarget) + Len(toRelay') = sent["client"] + 1
    <3> SUFFICES ASSUME target = "open"
                 PROVE  /\ Numbered(toRelay', 1, Len(got["target"]) + Len(toTarget))
                        /\ Len(got["target"]) + Len(toTarget) + Len(toRelay') = sent["client"] + 1
      OBVIOUS
    <3>1. PICK base \in Int : base = Len(got["target"]) + Len(toTarget)
      BY Lengths
    <3>2. Numbered(toRelay, 1, base) /\ base + Len(toRelay) = sent["client"]
      BY <1>0, <3>1 DEF Upward
    <3>3. PICK e \in 1 .. MaxBytes : e = sent["client"] + 1
      BY <1>0, Lengths, BytesAssumption
    <3>4. toRelay \in Seq(1 .. MaxBytes) /\ e = base + Len(toRelay) + 1
      BY <3>2, <3>3 DEF TypeOK, Bytes
    <3>5. Numbered(Append(toRelay, e), 1, base)
      BY <3>2, <3>4, Appended
    <3>6. base + Len(toRelay') = sent["client"] + 1
      BY <1>3, <3>2, Lengths
    <3> QED
      BY <1>0, <3>1, <3>3, <3>5, <3>6
  <2>2. /\ Len(got["target"]) + Len(toTarget) <= sent'["client"]
        /\ target = "open" =>
             /\ Len(got["target"]) + Len(toTarget) + Len(toRelay') <= sent'["client"]
             /\ Len(got["target"]) + Len(toTarget) + Len(toRelay') = sent'["client"]
    BY <1>1, <2>1, Lengths DEF Upward
  <2>3. Numbered(got["target"], 1, 0) /\ Numbered(toTarget, 1, Len(got["target"]))
    BY DEF Upward
  <2> QED
    BY <1>0, <2>1, <2>2, <2>3 DEF Upward
<1>8. ReadDown' /\ DownwardOpen' /\ DownwardWait'
  BY <1>0, <1>1 DEF ReadDown, DownwardOpen, DownwardWait
<1> QED
  BY <1>4, <1>5, <1>6, <1>7, <1>8

\* The same for the target, to which the client may not yet have answered.
LEMMA TargetWritesStep == ASSUME RelayInv, TargetWrites PROVE RelayInv'
<1> USE DEF RelayInv
<1>0. /\ target = "open" /\ relay # "ended" /\ sent["target"] < MaxBytes
      /\ fromTarget' = Append(fromTarget, sent["target"] + 1)
      /\ UNCHANGED <<client, relay, target, copyUp, copyDown, toRelay, toTarget, toClient, got, trimmed>>
  BY DEF TargetWrites
<1>1. sent' \in [End -> 0 .. MaxBytes] /\ sent'["target"] = sent["target"] + 1
      /\ sent'["client"] = sent["client"]
  <2>1. sent["target"] + 1 \in 0 .. MaxBytes
    BY <1>0, Lengths, BytesAssumption
  <2>2. sent' = [sent EXCEPT !["target"] = sent["target"] + 1]
    BY DEF TargetWrites
  <2> QED
    BY <2>1, <2>2 DEF TypeOK, End
<1>2. relay = "pipe"
  BY <1>0 DEF Phases, TypeOK
<1>3. fromTarget' \in Seq(1 .. MaxBytes) /\ Len(fromTarget') = Len(fromTarget) + 1
  <2>1. sent["target"] + 1 \in 1 .. MaxBytes
    BY <1>0, Lengths, BytesAssumption
  <2>2. fromTarget \in Seq(1 .. MaxBytes)
    BY DEF TypeOK, Bytes
  <2> QED
    BY <1>0, <2>1, <2>2, AppendProperties
<1>4. TypeOK'
  BY <1>0, <1>1, <1>3 DEF TypeOK, Bytes
<1>5. Phases'
  BY <1>0, <1>2 DEF Phases
<1>6. Drained'
  BY <1>0 DEF Drained, ClientGone
<1>7. Upward'
  BY <1>0, <1>1 DEF Upward
<1>8. ReadDown'
  BY <1>0, <1>1, Lengths DEF ReadDown
<1>9. ASSUME NEW base \in Int, Numbered(fromTarget, 1, base),
             base + Len(fromTarget) = sent["target"]
      PROVE  Numbered(fromTarget', 1, base) /\ base + Len(fromTarget') = sent["target"] + 1
  <2>1. PICK e \in 1 .. MaxBytes : e = sent["target"] + 1
    BY <1>0, Lengths, BytesAssumption
  <2>2. fromTarget \in Seq(1 .. MaxBytes) /\ e = base + Len(fromTarget) + 1
    BY <1>9, <2>1 DEF TypeOK, Bytes
  <2>3. Numbered(Append(fromTarget, e), 1, base)
    BY <1>9, <2>2, Appended
  <2>4. base + Len(fromTarget') = sent["target"] + 1
    BY <1>3, <1>9, Lengths
  <2> QED
    BY <1>0, <2>1, <2>3, <2>4
<1>10. DownwardOpen'
  <2> SUFFICES ASSUME client = "open" PROVE DownwardOpen'
    BY <1>0 DEF DownwardOpen
  <2>1. PICK base \in Int : base = trimmed + Len(got["client"]) + Len(toClient)
    BY Lengths
  <2>2. Numbered(fromTarget, 1, base) /\ base + Len(fromTarget) = sent["target"]
    BY <1>0, <2>1 DEF DownwardOpen
  <2>3. Numbered(fromTarget', 1, base) /\ base + Len(fromTarget') = sent["target"] + 1
    BY <1>9, <2>2
  <2>4. Numbered(toClient, 1, trimmed + Len(got["client"])) /\ sent["target"] + 1 \in Int
    BY Lengths DEF DownwardOpen
  <2>5. /\ Numbered(fromTarget', 1, trimmed + Len(got["client"]) + Len(toClient))
        /\ trimmed + Len(got["client"]) + Len(toClient) + Len(fromTarget') = sent'["target"]
        /\ trimmed + Len(got["client"]) + Len(toClient) + Len(fromTarget') <= sent'["target"]
    BY <1>1, <2>1, <2>3, <2>4
  <2> QED
    BY <1>0, <2>4, <2>5 DEF DownwardOpen
<1>11. DownwardWait'
  <2> SUFFICES ASSUME client = "wait" PROVE DownwardWait'
    BY <1>0 DEF DownwardWait
  <2>0. Len(toClient) - 1 \in Int
    BY Lengths
  <2>1. PICK base \in Int : base = Len(toClient) - 1
    BY <2>0
  <2>2. /\ toClient # <<>> /\ toClient[1] = OK /\ got["client"] = <<>>
        /\ Numbered(toClient, 2, -1)
        /\ Numbered(fromTarget, 1, base) /\ base + Len(fromTarget) = sent["target"]
    BY <1>0, <1>2, <2>1 DEF DownwardWait
  <2>3. Numbered(fromTarget', 1, base) /\ base + Len(fromTarget') = sent["target"] + 1
    BY <1>9, <2>2
  <2>4. sent["target"] + 1 \in Int
    BY Lengths
  <2> QED
    BY <1>0, <1>1, <2>1, <2>2, <2>3, <2>4 DEF DownwardWait
<1> QED
  BY <1>4, <1>5, <1>6, <1>7, <1>8, <1>10, <1>11

\* The byte read is the one that follows those read before.
LEMMA ClientReadsStep == ASSUME RelayInv, ClientReads PROVE RelayInv'
<1> USE DEF RelayInv
<1>0. /\ client = "open" /\ toClient # <<>> /\ toClient' = Tail(toClient)
      /\ UNCHANGED <<client, relay, target, copyUp, copyDown, toRelay, toTarget, fromTarget, sent, trimmed>>
  BY DEF ClientReads
<1>1. PICK read \in Nat : read = trimmed + Len(got["client"])
  BY Lengths
<1>2. /\ Numbered(toClient, 1, read) /\ Numbered(fromTarget, 1, read + Len(toClient))
      /\ read + Len(toClient) + Len(fromTarget) <= sent["target"]
      /\ target = "open" => read + Len(toClient) + Len(fromTarget) = sent["target"]
      /\ Numbered(got["client"], 1, trimmed)
  BY <1>0, <1>1 DEF DownwardOpen, ReadDown
<1> DEFINE Item == {OK, ERR} \cup 1 .. MaxBytes
<1>3. toClient \in Seq(Item)
  BY DEF TypeOK
<1>4. /\ Head(toClient) = read + 1 /\ toClient' \in Seq(Item)
      /\ Len(toClient') = Len(toClient) - 1 /\ Len(toClient) >= 1
      /\ Numbered(toClient', 1, read + 1)
  <2>1. read \in Int
    OBVIOUS
  <2> HIDE DEF Item
  <2> QED
    BY <1>0, <1>2, <1>3, <2>1, HeadRead
<1>5. Head(toClient) \in 1 .. MaxBytes /\ read + 1 <= sent["target"]
  <2>1. /\ sent["target"] \in 0 .. MaxBytes /\ Len(fromTarget) \in Nat /\ MaxBytes \in Nat
        /\ Len(toClient) \in Nat
    BY Lengths, BytesAssumption
  <2>2. PICK h, m, k, b : /\ h = Head(toClient) /\ m = Len(toClient) /\ k = Len(fromTarget)
                          /\ b = sent["target"]
    OBVIOUS
  <2>3. /\ h = read + 1 /\ m >= 1 /\ read + m + k <= b
        /\ b \in 0 .. MaxBytes /\ MaxBytes \in Nat /\ m \in Nat /\ k \in Nat /\ read \in Nat
    BY <1>2, <1>4, <2>1, <2>2, Zenon
  <2>4. h \in 1 .. MaxBytes /\ read + 1 <= b
    BY ONLY <2>3
  <2> QED
    BY ONLY <2>2, <2>4
<1>6. got' = [got EXCEPT !["client"] = Append(got["client"], Head(toClient))]
  BY DEF ClientReads
<1>7. PICK e \in 1 .. MaxBytes : e = Head(toClient) /\ e = trimmed + Len(got["client"]) + 1
  BY <1>1, <1>4, <1>5
<1>8. /\ Append(got["client"], e) \in Seq(1 .. MaxBytes)
      /\ Len(Append(got["client"], e)) = Len(got["client"]) + 1
      /\ Numbered(Append(got["client"], e), 1, trimmed)
  <2>1. PICK S : S = 1 .. MaxBytes
    OBVIOUS
  <2>2. got["client"] \in Seq(S) /\ trimmed \in Int /\ e \in S
    BY Lengths, <2>1 DEF Bytes
  <2>3. e = trimmed + Len(got["client"]) + 1 /\ Numbered(got["client"], 1, trimmed)
    BY <1>2, <1>7
  <2>4. PICK s : s = got["client"]
    OBVIOUS
  <2>5. /\ Append(s, e) \in Seq(S) /\ Len(Append(s, e)) = Len(s) + 1
        /\ Numbered(Append(s, e), 1, trimmed)
    BY ONLY <2>2, <2>3, <2>4, Appended
  <2> QED
    BY ONLY <2>1, <2>4, <2>5
<1>9. /\ got' \in [End -> Bytes] /\ got'["client"] = Append(got["client"], e)
      /\ got'["target"] = got["target"]
  BY <1>6, <1>7, <1>8 DEF TypeOK, End, Bytes
<1>10. trimmed + Len(got'["client"]) = read + 1 /\ Numbered(got'["client"], 1, trimmed)
  <2>1. PICK m \in Nat : m = Len(got["client"])
    BY Lengths
  <2>2. trimmed \in Nat /\ read = trimmed + m
    BY <1>1, <2>1, Lengths
  <2>3. trimmed + (m + 1) = read + 1
    BY ONLY <2>2, m \in Nat
  <2>4. Len(got'["client"]) = m + 1 /\ Numbered(got'["client"], 1, trimmed)
    BY ONLY <1>8, <1>9, <2>1
  <2> QED
    BY ONLY <2>3, <2>4
<1>11. TypeOK'
  BY <1>0, <1>4, <1>9 DEF TypeOK
<1>12. Phases'
  BY <1>0 DEF Phases, Quiet
<1>13. Drained'
  BY <1>0 DEF Drained, ClientGone
<1>14. Upward'
  BY <1>0, <1>9 DEF Upward
<1>15. ReadDown'
  BY <1>0, <1>5, <1>10 DEF ReadDown
<1>16. DownwardOpen'
  <2>1. (read + 1) + Len(toClient') = read + Len(toClient)
    BY <1>4, Lengths
  <2> QED
    BY <1>0, <1>2, <1>4, <1>10, <2>1 DEF DownwardOpen
<1>17. DownwardWait'
  BY <1>0 DEF DownwardWait
<1> QED
  BY <1>11, <1>12, <1>13, <1>14, <1>15, <1>16, <1>17

\* The same for the target.
LEMMA TargetReadsStep == ASSUME RelayInv, TargetReads PROVE RelayInv'
<1> USE DEF RelayInv
<1>0. /\ target = "open" /\ toTarget # <<>> /\ toTarget' = Tail(toTarget)
      /\ UNCHANGED <<client, relay, target, copyUp, copyDown, toRelay, fromTarget, toClient, sent, trimmed>>
  BY DEF TargetReads
<1>1. PICK read \in Nat : read = Len(got["target"])
  BY Lengths
<1>2. /\ Numbered(toTarget, 1, read) /\ Numbered(toRelay, 1, read + Len(toTarget))
      /\ read + Len(toTarget) <= sent["client"]
      /\ read + Len(toTarget) + Len(toRelay) <= sent["client"]
      /\ client \in {"wait", "open"} => read + Len(toTarget) + Len(toRelay) = sent["client"]
      /\ Numbered(got["target"], 1, 0)
  BY <1>0, <1>1 DEF Upward
<1>3. toTarget \in Seq(1 .. MaxBytes)
  BY DEF TypeOK, Bytes
<1>4. /\ Head(toTarget) = read + 1 /\ toTarget' \in Seq(1 .. MaxBytes)
      /\ Len(toTarget') = Len(toTarget) - 1 /\ Len(toTarget) >= 1
      /\ Numbered(toTarget', 1, read + 1) /\ Head(toTarget) \in 1 .. MaxBytes
  <2>1. read \in Int
    OBVIOUS
  <2> QED
    BY <1>0, <1>2, <1>3, <2>1, HeadRead
<1>5. got' = [got EXCEPT !["target"] = Append(got["target"], Head(toTarget))]
  BY DEF TargetReads
<1>6. PICK e \in 1 .. MaxBytes : e = Head(toTarget) /\ e = 0 + Len(got["target"]) + 1
  BY <1>1, <1>4
<1>7. /\ Append(got["target"], e) \in Seq(1 .. MaxBytes)
      /\ Len(Append(got["target"], e)) = Len(got["target"]) + 1
      /\ Numbered(Append(got["target"], e), 1, 0)
  <2>1. PICK S : S = 1 .. MaxBytes
    OBVIOUS
  <2>2. got["target"] \in Seq(S) /\ 0 \in Int /\ e \in S
    BY Lengths, <2>1 DEF Bytes
  <2>3. e = 0 + Len(got["target"]) + 1 /\ Numbered(got["target"], 1, 0)
    BY <1>2, <1>6
  <2>4. PICK s : s = got["target"]
    OBVIOUS
  <2>5. /\ Append(s, e) \in Seq(S) /\ Len(Append(s, e)) = Len(s) + 1
        /\ Numbered(Append(s, e), 1, 0)
    BY ONLY <2>2, <2>3, <2>4, Appended
  <2> QED
    BY ONLY <2>1, <2>4, <2>5
<1>8. /\ got' \in [End -> Bytes] /\ got'["target"] = Append(got["target"], e)
      /\ got'["client"] = got["client"]
  BY <1>5, <1>6, <1>7 DEF TypeOK, End, Bytes
<1>9. Len(got'["target"]) = read + 1 /\ Numbered(got'["target"], 1, 0)
  BY <1>1, <1>7, <1>8
<1>10. TypeOK'
  BY <1>0, <1>4, <1>8 DEF TypeOK, Bytes
<1>11. Phases'
  BY <1>0 DEF Phases, Quiet
<1>12. Drained'
  BY <1>0 DEF Drained, ClientGone
<1>13. ReadDown' /\ DownwardOpen' /\ DownwardWait'
  BY <1>0, <1>8 DEF ReadDown, DownwardOpen, DownwardWait
<1>14. Upward'
  <2>1. (read + 1) + Len(toTarget') = read + Len(toTarget)
    BY <1>4, Lengths
  <2> QED
    BY <1>0, <1>2, <1>4, <1>9, <2>1 DEF Upward
<1> QED
  BY <1>10, <1>11, <1>12, <1>13, <1>14

-----------------------------------------------------------------------------
(* The theorems *)

\* Every step of client, relay and target keeps the invariant.
LEMMA NextRelayInv == RelayInv /\ [Next]_vars => RelayInv'
<1> SUFFICES ASSUME RelayInv, [Next]_vars PROVE RelayInv'
  OBVIOUS
<1>1. CASE UNCHANGED vars
  BY <1>1 DEF vars, RelayInv, TypeOK, Phases, Quiet, Drained, ClientGone, Upward, ReadDown,
              DownwardOpen, DownwardWait
<1>2. CASE Next
  BY <1>2, SetupSteps, DialTargetStep, HandshakeStep, CopyToTargetStep, CopyToClientStep,
     EndOfCopySteps, EndSessionStep, CloseSteps, ClientWritesStep, TargetWritesStep,
     ClientReadsStep, TargetReadsStep DEF Next, RelayStep
<1> QED
  BY <1>1, <1>2

\* The invariant holds throughout every session.
LEMMA RelayInvHolds == Spec => []RelayInv
  BY InitRelayInv, NextRelayInv, PTL DEF Spec

\* The variables of a session keep their types: no answer of the relay is
\* ever read as a byte of the target, and no number exceeds what was written
\* (relay.go, CreateSession and pipe).
THEOREM RelayTypeOKTheorem == Spec => []TypeOK
<1>1. RelayInv => TypeOK
  BY DEF RelayInv
<1> QED
  BY <1>1, RelayInvHolds, PTL

\* Each end reads what the other wrote, in order and without a gap, from the
\* first byte on, but for a byte of white space that the client has read
\* together with the relay's OK: it takes that one for a part of the answer and
\* starts at the second.  This holds however the two copies of pipe and the
\* closing of either end interleave (relay.go, CreateSession, handleConn and
\* pipe).
THEOREM DeliveredInOrderTheorem == Spec => []DeliveredInOrder
<1>1. RelayInv => DeliveredInOrder
  <2> SUFFICES ASSUME RelayInv PROVE DeliveredInOrder
    OBVIOUS
  <2>1. ASSUME NEW s \in Seq(1 .. MaxBytes), NEW k \in Nat, Numbered(s, 1, k)
        PROVE  s = BytesAfter(k, Len(s))
    <3>1. Len(s) \in Nat /\ s \in [1 .. Len(s) -> 1 .. MaxBytes]
      BY LenProperties
    <3>2. \A i \in 1 .. Len(s) : s[i] = k + i
      BY <2>1, <3>1 DEF Numbered
    <3> QED
      BY <3>1, <3>2 DEF BytesAfter
  <2>2. /\ got["target"] = BytesAfter(0, Len(got["target"]))
        /\ Len(got["target"]) <= sent["client"]
    <3>1. /\ got["target"] \in Seq(1 .. MaxBytes) /\ Numbered(got["target"], 1, 0)
          /\ Len(got["target"]) + Len(toTarget) <= sent["client"]
      BY Lengths DEF RelayInv, Upward, Bytes
    <3> QED
      BY <2>1, <3>1, Lengths DEF RelayInv
  <2>3. /\ got["client"] = BytesAfter(trimmed, Len(got["client"]))
        /\ trimmed + Len(got["client"]) <= sent["target"]
    <3>1. got["client"] \in Seq(1 .. MaxBytes) /\ trimmed \in Nat
      BY Lengths DEF RelayInv, Bytes
    <3> QED
      BY <2>1, <3>1 DEF RelayInv, ReadDown
  <2> QED
    BY <2>2, <2>3 DEF DeliveredInOrder
<1> QED
  BY <1>1, RelayInvHolds, PTL

\* The relay ends a session only when nothing is left to carry to an end that
\* is still there: an early end of one copy of pipe does not cut off the other
\* (relay.go, pipe).
THEOREM EndsDrainedTheorem == Spec => []EndsDrained
<1>1. RelayInv => EndsDrained
  BY DEF RelayInv, Phases, Drained, EndsDrained
<1> QED
  BY <1>1, RelayInvHolds, PTL
=============================================================================
