------------------------------- MODULE Relay -------------------------------
(***************************************************************************)
(* A session through the relay (internal/relay): a client whose direct     *)
(* dial failed connects to the relay and names its target, the relay dials *)
(* the target and answers OK, and two goroutines then copy bytes both ways *)
(* until each has met an end or an error.  Sessions share nothing, so one  *)
(* is modelled.                                                            *)
(*                                                                         *)
(* A TCP connection is a pair of byte sequences.  A byte of payload is its *)
(* number; the relay's answer is one item, written and read as a whole     *)
(* (three or four bytes in one segment), but the bytes that follow it may  *)
(* arrive together with it.  The address line is likewise read whole.      *)
(* Whether a byte is white space is told apart only where the client looks *)
(* at it, in the handshake, and is chosen there.                           *)
(* Closing a socket with unread input resets the connection, which may     *)
(* destroy what is in flight the other way.                                *)
(***************************************************************************)
EXTENDS Naturals, Sequences

CONSTANTS OK, ERR,      \* the relay's answers
          MaxBytes      \* bound on the bytes each end writes

ASSUME BytesAssumption == /\ MaxBytes \in Nat
                          /\ OK \notin Nat /\ ERR \notin Nat /\ OK # ERR

VARIABLES
    client,             \* "idle", "dialing", "wait", "open", "direct", "failed", "closed"
    relay,              \* handleConn: "none", "accepted", "dial", "pipe", "ended"
    target,             \* "listening", "open", "closed"
    copyUp, copyDown,   \* the goroutines of pipe still running
    toRelay, toTarget,  \* bytes under way from the client ...
    fromTarget, toClient,  \* ... and to it
    sent, got,          \* history: bytes written by, and read by, client and target
    trimmed             \* history: bytes of the target taken for a part of the answer

vars == <<client, relay, target, copyUp, copyDown, toRelay, toTarget, fromTarget, toClient,
          sent, got, trimmed>>

End == {"client", "target"}
Bytes == Seq(1 .. MaxBytes)

TypeOK ==
    /\ client \in {"idle", "dialing", "wait", "open", "direct", "failed", "closed"}
    /\ relay \in {"none", "accepted", "dial", "pipe", "ended"}
    /\ target \in {"listening", "open", "closed"}
    /\ copyUp \in BOOLEAN /\ copyDown \in BOOLEAN
    /\ toRelay \in Bytes /\ toTarget \in Bytes /\ fromTarget \in Bytes
    /\ toClient \in Seq({OK, ERR} \cup 1 .. MaxBytes)
    /\ sent \in [End -> 0 .. MaxBytes] /\ got \in [End -> Bytes]
    /\ trimmed \in {0, 1}

Init == /\ client = "idle" /\ relay = "none" /\ target = "listening"
        /\ copyUp = FALSE /\ copyDown = FALSE
        /\ toRelay = <<>> /\ toTarget = <<>> /\ fromTarget = <<>> /\ toClient = <<>>
        /\ sent = [e \in End |-> 0] /\ got = [e \in End |-> <<>>]
        /\ trimmed = 0

\* The client has no use for the connection any more.
ClientGone == client \in {"failed", "closed"}

\* What is left of a stream when the socket that unread belongs to is closed.
AfterClose(stream, unread) == IF unread = <<>> THEN {stream} ELSE {stream, <<>>}

-----------------------------------------------------------------------------
(* The client: FallbackDialer.Dial and CreateSession *)

\* The direct dial succeeds, or fails with or without a usable relay spec.
Dial == /\ client = "idle"
        /\ client' \in {"direct", "failed", "dialing"}
        /\ UNCHANGED <<relay, target, copyUp, copyDown, toRelay, toTarget, fromTarget,
                       toClient, sent, got, trimmed>>

\* CreateSession reaches the relay and sends the address, or fails before or
\* after the relay has accepted the connection.
Connect == /\ client = "dialing"
           /\ \/ client' = "wait" /\ relay' = "accepted"
              \/ client' = "failed" /\ relay' \in {"none", "ended"}
           /\ UNCHANGED <<target, copyUp, copyDown, toRelay, toTarget, fromTarget,
                          toClient, sent, got, trimmed>>

\* Mutant: an answer that begins with OK is accepted.
AcceptedPrefix(answer, blank) == answer[1] = OK

\* strings.TrimSpace leaves OK: the answer was OK, and what was read behind it
\* is white space if it is anything.
Accepted(answer, blank) == answer[1] = OK /\ (Len(answer) > 1 => blank)

\* Mutant: the answer is looked at and left in the stream.
HandshakePeeks ==
    /\ client = "wait"
    /\ toClient # <<>>
    /\ client' = IF Head(toClient) = OK THEN "open" ELSE "failed"
    /\ UNCHANGED <<relay, target, copyUp, copyDown, toRelay, toTarget, fromTarget, toClient,
                   sent, got, trimmed>>

\* The read of up to 4 bytes: the answer alone or, after the 3 bytes of OK,
\* with one byte that followed it, which is white space or not.  White space is
\* trimmed with the line end of the answer, and the byte is gone.
Handshake ==
    /\ client = "wait"
    /\ toClient # <<>>
    /\ \E n \in 1 .. (IF Head(toClient) = OK THEN 2 ELSE 1), blank \in BOOLEAN :
          LET accepted == Accepted(SubSeq(toClient, 1, n), blank) IN
          /\ n <= Len(toClient)
          /\ client' = IF accepted THEN "open" ELSE "failed"
          /\ trimmed' = IF accepted /\ blank THEN n - 1 ELSE 0
          /\ toClient' = SubSeq(toClient, n + 1, Len(toClient))
    /\ UNCHANGED <<relay, target, copyUp, copyDown, toRelay, toTarget, fromTarget, sent, got>>

\* The deadline passes, or the relay has gone.
HandshakeFails == /\ client = "wait"
                  /\ client' = "failed"
                  /\ UNCHANGED <<relay, target, copyUp, copyDown, toRelay, toTarget,
                                 fromTarget, toClient, sent, got, trimmed>>

-----------------------------------------------------------------------------
(* The relay: handleConn *)

\* The address is read; without it in 5 seconds the connection is closed.
ReadAddress == /\ relay = "accepted"
               /\ relay' \in {"dial", "ended"}
               /\ UNCHANGED <<client, target, copyUp, copyDown, toRelay, toTarget, fromTarget,
                              toClient, sent, got, trimmed>>

DialTarget ==
    /\ relay = "dial"
    /\ \/ /\ relay' = "pipe" /\ target' = "open"
          /\ copyUp' = TRUE /\ copyDown' = TRUE
          /\ toClient' = <<OK>>
       \/ /\ relay' = "ended"
          /\ toClient' = <<ERR>>
          /\ UNCHANGED <<target, copyUp, copyDown>>
    /\ UNCHANGED <<client, toRelay, toTarget, fromTarget, sent, got, trimmed>>

\* One turn of io.Copy(dst, src): some bytes move on.  When the target has
\* closed they are lost, and the write may report it, which ends the copy.
CopyToTarget ==
    /\ copyUp
    /\ \E n \in 1 .. Len(toRelay) :
          /\ toRelay' = SubSeq(toRelay, n + 1, Len(toRelay))
          /\ IF target = "closed"
             THEN copyUp' \in BOOLEAN /\ UNCHANGED toTarget
             ELSE toTarget' = toTarget \o SubSeq(toRelay, 1, n) /\ UNCHANGED copyUp
    /\ UNCHANGED <<client, relay, target, copyDown, fromTarget, toClient, sent, got, trimmed>>

CopyToClient ==
    /\ copyDown
    /\ \E n \in 1 .. Len(fromTarget) :
          /\ fromTarget' = SubSeq(fromTarget, n + 1, Len(fromTarget))
          /\ IF ClientGone
             THEN copyDown' \in BOOLEAN /\ UNCHANGED toClient
             ELSE toClient' = toClient \o SubSeq(fromTarget, 1, n) /\ UNCHANGED copyDown
    /\ UNCHANGED <<client, relay, target, copyUp, toRelay, toTarget, sent, got, trimmed>>

\* Mutant: an end of input is taken for an empty read and tried again.
EndOfClientRetried == copyUp /\ ClientGone /\ toRelay = <<>> /\ UNCHANGED vars

\* A copy meets the end of its input; the other side is not told.
EndOfClient == /\ copyUp /\ ClientGone /\ toRelay = <<>>
               /\ copyUp' = FALSE
               /\ UNCHANGED <<client, relay, target, copyDown, toRelay, toTarget,
                              fromTarget, toClient, sent, got, trimmed>>

EndOfTarget == /\ copyDown /\ target = "closed" /\ fromTarget = <<>>
               /\ copyDown' = FALSE
               /\ UNCHANGED <<client, relay, target, copyUp, toRelay, toTarget,
                              fromTarget, toClient, sent, got, trimmed>>

\* Mutant: pipe waits for one of the copies only.
OneCopyEnded == ~copyUp \/ ~copyDown

\* wg.Wait
PipeDone == ~copyUp /\ ~copyDown

\* pipe returns and both connections are closed.
EndSession == /\ relay = "pipe"
              /\ PipeDone
              /\ relay' = "ended"
              /\ toClient' \in AfterClose(toClient, toRelay)
              /\ toTarget' \in AfterClose(toTarget, fromTarget)
              /\ UNCHANGED <<client, target, copyUp, copyDown, toRelay, fromTarget, sent, got, trimmed>>

-----------------------------------------------------------------------------
(* What the two ends do with the session *)

ClientWrites == /\ client = "open" /\ relay # "ended"
                /\ sent["client"] < MaxBytes
                /\ sent' = [sent EXCEPT !["client"] = @ + 1]
                /\ toRelay' = Append(toRelay, sent["client"] + 1)
                /\ UNCHANGED <<client, relay, target, copyUp, copyDown, toTarget, fromTarget,
                               toClient, got, trimmed>>

TargetWrites == /\ target = "open" /\ relay # "ended"
                /\ sent["target"] < MaxBytes
                /\ sent' = [sent EXCEPT !["target"] = @ + 1]
                /\ fromTarget' = Append(fromTarget, sent["target"] + 1)
                /\ UNCHANGED <<client, relay, target, copyUp, copyDown, toRelay, toTarget,
                               toClient, got, trimmed>>

ClientReads == /\ client = "open" /\ toClient # <<>>
               /\ got' = [got EXCEPT !["client"] = Append(@, Head(toClient))]
               /\ toClient' = Tail(toClient)
               /\ UNCHANGED <<client, relay, target, copyUp, copyDown, toRelay, toTarget,
                              fromTarget, sent, trimmed>>

TargetReads == /\ target = "open" /\ toTarget # <<>>
               /\ got' = [got EXCEPT !["target"] = Append(@, Head(toTarget))]
               /\ toTarget' = Tail(toTarget)
               /\ UNCHANGED <<client, relay, target, copyUp, copyDown, toRelay, fromTarget,
                              toClient, sent, trimmed>>

ClientCloses == /\ client = "open"
                /\ client' = "closed"
                /\ toRelay' \in AfterClose(toRelay, toClient)
                /\ UNCHANGED <<relay, target, copyUp, copyDown, toTarget, fromTarget,
                               toClient, sent, got, trimmed>>

TargetCloses == /\ target = "open"
                /\ target' = "closed"
                /\ fromTarget' \in AfterClose(fromTarget, toTarget)
                /\ UNCHANGED <<client, relay, copyUp, copyDown, toRelay, toTarget,
                               toClient, sent, got, trimmed>>

-----------------------------------------------------------------------------

RelayStep == \/ ReadAddress \/ DialTarget \/ EndSession
             \/ CopyToTarget \/ EndOfClient \/ CopyToClient \/ EndOfTarget

Next == \/ Dial \/ Connect \/ Handshake \/ HandshakeFails \/ RelayStep
        \/ ClientWrites \/ TargetWrites \/ ClientReads \/ TargetReads
        \/ ClientCloses \/ TargetCloses

\* The relay's goroutines run; a client that waits for the answer gets one or
\* meets its deadline.  Nothing makes either end write, read or close.
Fairness == /\ WF_vars(ReadAddress) /\ WF_vars(DialTarget) /\ WF_vars(EndSession)
            /\ WF_vars(CopyToTarget \/ EndOfClient)
            /\ WF_vars(CopyToClient \/ EndOfTarget)
            /\ WF_vars(Handshake \/ HandshakeFails)

Spec == Init /\ [][Next]_vars /\ Fairness

-----------------------------------------------------------------------------
(* Properties *)

\* The n bytes that follow byte k.
BytesAfter(k, n) == [i \in 1 .. n |-> k + i]

\* Each end reads what the other wrote, in order and without a gap, from the
\* first byte on, with one exception: the client's first byte is the target's
\* second when the first was white space and was read together with OK, so what
\* CreateSession returns is not quite "the end-to-end channel" of its comment
\* (relay.go:79).  No other byte is taken by the handshake, by the change from
\* handshake to copying or by an early end of the other direction (relay.go,
\* CreateSession and pipe).
DeliveredInOrder ==
    /\ Len(got["target"]) <= sent["client"]
    /\ got["target"] = BytesAfter(0, Len(got["target"]))
    /\ trimmed + Len(got["client"]) <= sent["target"]
    /\ got["client"] = BytesAfter(trimmed, Len(got["client"]))

\* A session ends only when nothing is left to carry to an end that is still
\* there: a direction that ends early does not cut off the other one.
EndsDrained ==
    relay = "ended" /\ target # "listening" =>
       /\ ~ClientGone => target = "closed" /\ fromTarget = <<>>
       /\ target = "open" => ClientGone /\ toRelay = <<>>

\* Once both ends have closed, the relay's handler returns and its connections
\* are closed.
SessionEnds == relay = "pipe" /\ ClientGone /\ target = "closed" ~> relay = "ended"
=============================================================================
