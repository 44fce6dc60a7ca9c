---------------------------- MODULE RelaySession ----------------------------
(***************************************************************************)
(* The acknowledged relay session between the desktop (Host) and a phone   *)
(* (Mobile): one adapter per end and bridge generation, above an external  *)
(* relay that loses what it carries for a peer that is gone and announces  *)
(* again and again ("matched") that the peer can be reached.               *)
(*                                                                         *)
(* An adapter cuts a message into fragments with consecutive physical      *)
(* numbers, keeps it until the cumulative acknowledgement of its number,   *)
(* sends all it keeps again at every announcement, and assembles what it   *)
(* is sent. A frame counts one byte. The clock is left out: a deadline may *)
(* pass at any time at which the code has something to wait for.           *)
(***************************************************************************)
EXTENDS Integers, Sequences

CONSTANTS Host, Mobile,      \* the two ends
          MaxGeneration,     \* bound: bridges opened
          Workload,          \* bound: per end and generation, the messages sent, in fragments
          MaxMatches,        \* bound: announcements an end gets
          MaxLosses,         \* bound: payloads the relay loses
          HighWaterMark, LowWaterMark, ReplayBufferMax

Ends == {Host, Mobile}
Peer(e) == IF e = Host THEN Mobile ELSE Host
Generations == 1..MaxGeneration

\* The sizes of messages that occur.
SizesOf(s) == {s[k] : k \in 1..Len(s)}
Sizes == UNION {UNION {SizesOf(Workload[e][g]) : g \in Generations} : e \in Ends}

ASSUME RelayAssumption ==
    /\ Host # Mobile
    /\ MaxGeneration \in Nat
    /\ Workload \in [Ends -> [Generations -> Seq(Nat \ {0})]]
    /\ MaxMatches \in Nat
    /\ MaxLosses \in Nat
    /\ HighWaterMark \in Nat
    /\ LowWaterMark \in 0..HighWaterMark
    /\ ReplayBufferMax \in Nat

VARIABLES
    gen,        \* the bridge generation of the adapter at each end, 0 before the first
    asked,      \* the last generation the phone asked for
    reserved,   \* per end and generation: the messages it accepted for sending
    delivered,  \* per end and generation: the messages it gave to its channel
    tx,         \* per end: what the sending half remembers
    saturated,  \* per end: its channel was told to hold back
    rx,         \* per end: what the assembler and the pending acknowledgement are
    flushing,   \* the flush loop of this end is running
    timer,      \* the deadline timer of this end is armed
    fault,      \* why the adapter is degraded, or "none"
    wire,       \* per end: what travels towards it, in order
    ready,      \* the transport of this end accepts a frame
    matches,    \* announcements each end has had
    losses,     \* payloads lost
    attaching,  \* the bridge the desktop attaches a workspace host for, 0 for none
    buffered,   \* announcements of the desktop that wait for its transport
    dropped,    \* history: a payload towards this end was lost in this generation
    unsure      \* history: something was lost since this end was last announced its peer

sessionVars == <<gen, asked, reserved, delivered>>
adapterVars == <<tx, saturated, rx, flushing, timer, fault>>
relayVars == <<ready, matches, losses, dropped, unsure, attaching, buffered>>
linkVars == <<wire, relayVars>>
vars == <<sessionVars, adapterVars, linkVars>>

-----------------------------------------------------------------------------
(* Values *)

Messages == [first : Nat \ {0}, count : Nat \ {0}]
Frames == [type : {"frame"}, gen : Generations, seq : Nat \ {0},
           message : Nat \ {0}, index : Nat, count : Nat \ {0}]
Acks == [type : {"ack"}, gen : Generations, upTo : Nat]
Controls == [type : {"open", "opened"}, gen : Generations]
Payloads == Frames \cup Acks \cup Controls

Faults == {"none", "replayBufferExceeded", "graceExceeded", "assemblyTimeout",
           "futureAck", "deliveryFailed", "physicalGap", "messageGap",
           "fragmentGap", "metadataMismatch", "disposed"}

TxStates == [acked : Nat, unsent : Nat \ {0}, frame : Nat,
             fullySent : Nat, bytes : Int]
RxStates == [expected : Nat \ {0}, staged : Nat, count : Nat, ackDue : Nat]

FreshTx == [acked |-> 0, unsent |-> 1, frame |-> 0,
            fullySent |-> 0, bytes |-> 0]
FreshRx == [expected |-> 1, staged |-> 0, count |-> 0, ackDue |-> 0]

\* The last physical number of the k-th message of s, 0 before the first.
LastSeq(s, k) == IF k = 0 THEN 0 ELSE s[k].first + s[k].count - 1

Live(e) == gen[e] # 0 /\ fault[e] = "none"
Out(e) == reserved[e][gen[e]]
In(e) == delivered[e][gen[e]]

\* Something whose age the deadline watches: kept messages or a pending acknowledgement.
Watched(t, r, s) == t.acked < Len(s) \/ r.ackDue # 0

FrameAt(e) ==
    LET m == Out(e)[tx[e].unsent]
    IN  [type |-> "frame", gen |-> gen[e], seq |-> m.first + tx[e].frame,
         message |-> tx[e].unsent, index |-> tx[e].frame, count |-> m.count]

Put(e, p) == wire' = [wire EXCEPT ![Peer(e)] = Append(@, p)]
Taken(e) == wire' = [wire EXCEPT ![e] = Tail(@)]

Init ==
    /\ gen = [e \in Ends |-> 0]
    /\ asked = 0
    /\ reserved = [e \in Ends |-> [g \in Generations |-> <<>>]]
    /\ delivered = [e \in Ends |-> [g \in Generations |-> <<>>]]
    /\ tx = [e \in Ends |-> FreshTx]
    /\ saturated = [e \in Ends |-> FALSE]
    /\ rx = [e \in Ends |-> FreshRx]
    /\ flushing = [e \in Ends |-> FALSE]
    /\ timer = [e \in Ends |-> FALSE]
    /\ fault = [e \in Ends |-> "none"]
    /\ wire = [e \in Ends |-> <<>>]
    /\ ready = [e \in Ends |-> TRUE]
    /\ matches = [e \in Ends |-> 0]
    /\ losses = 0
    /\ attaching = 0
    /\ buffered = <<>>
    /\ dropped = [e \in Ends |-> FALSE]
    /\ unsure = [e \in Ends |-> FALSE]

-----------------------------------------------------------------------------
(* Degradation and disposal are terminal: everything kept, staged or due is forgotten. *)
Degrade(e, reason) ==
    /\ fault' = [fault EXCEPT ![e] = reason]
    /\ tx' = [tx EXCEPT ![e].bytes = 0]
    /\ saturated' = [saturated EXCEPT ![e] = FALSE]
    /\ rx' = [rx EXCEPT ![e].ackDue = 0, ![e].staged = 0]
    /\ flushing' = [flushing EXCEPT ![e] = FALSE]
    /\ timer' = [timer EXCEPT ![e] = FALSE]

(* Sending *)

MoreToSend(e) == Len(Out(e)) < Len(Workload[e][gen[e]])
NextSize(e) == Workload[e][gen[e]][Len(Out(e)) + 1]

\* The channel sends a message: kept, numbered, and the loop is entered.
Reserve(e) ==
    /\ Live(e)
    /\ MoreToSend(e)
    /\ tx[e].bytes + NextSize(e) <= ReplayBufferMax
    /\ LET m == [first |-> LastSeq(Out(e), Len(Out(e))) + 1, count |-> NextSize(e)]
       IN  reserved' = [reserved EXCEPT ![e][gen[e]] = Append(@, m)]
    /\ tx' = [tx EXCEPT ![e].bytes = @ + NextSize(e)]
    /\ saturated' = [saturated EXCEPT ![e] = @ \/ tx[e].bytes + NextSize(e) > HighWaterMark]
    /\ timer' = [timer EXCEPT ![e] = TRUE]
    /\ flushing' = [flushing EXCEPT ![e] = TRUE]
    /\ UNCHANGED <<gen, asked, delivered, rx, fault, linkVars>>

\* A message beyond the replay buffer ends the session before its first fragment is sent.
ReserveOverflows(e) ==
    /\ Live(e)
    /\ MoreToSend(e)
    /\ tx[e].bytes + NextSize(e) > ReplayBufferMax
    /\ Degrade(e, "replayBufferExceeded")
    /\ UNCHANGED <<sessionVars, linkVars>>

\* Mutant: the deadline is not refreshed after the acknowledgement left.
SendAck_TimerStays(e) ==
    /\ Live(e) /\ flushing[e] /\ ready[e]
    /\ rx[e].ackDue # 0
    /\ Put(e, [type |-> "ack", gen |-> gen[e], upTo |-> rx[e].ackDue])
    /\ rx' = [rx EXCEPT ![e].ackDue = 0]
    /\ UNCHANGED <<sessionVars, tx, saturated, flushing, timer, fault, relayVars>>

\* An iteration of the flush loop: a pending acknowledgement goes first.
SendAck(e) ==
    /\ Live(e) /\ flushing[e] /\ ready[e]
    /\ rx[e].ackDue # 0
    /\ Put(e, [type |-> "ack", gen |-> gen[e], upTo |-> rx[e].ackDue])
    /\ rx' = [rx EXCEPT ![e].ackDue = 0]
    /\ timer' = [timer EXCEPT ![e] = tx[e].acked < Len(Out(e))]
    /\ UNCHANGED <<sessionVars, tx, saturated, flushing, fault, relayVars>>

SendFrame(e) ==
    /\ Live(e) /\ flushing[e] /\ ready[e]
    /\ rx[e].ackDue = 0
    /\ tx[e].unsent <= Len(Out(e))
    /\ Put(e, FrameAt(e))
    /\ tx' = IF tx[e].frame + 1 < Out(e)[tx[e].unsent].count
             THEN [tx EXCEPT ![e].frame = @ + 1]
             ELSE [tx EXCEPT ![e].frame = 0,
                             ![e].unsent = @ + 1,
                             ![e].fullySent = IF @ < tx[e].unsent THEN tx[e].unsent ELSE @]
    /\ UNCHANGED <<sessionVars, saturated, rx, flushing, timer, fault, relayVars>>

\* The loop ends when nothing is left, or the transport refuses.
FlushEnds(e) ==
    /\ flushing[e]
    /\ \/ ~ready[e]
       \/ rx[e].ackDue = 0 /\ tx[e].unsent > Len(Out(e))
    /\ flushing' = [flushing EXCEPT ![e] = FALSE]
    /\ UNCHANGED <<sessionVars, tx, saturated, rx, timer, fault, linkVars>>

\* The deadline of the oldest kept message or of the pending acknowledgement has passed;
\* the calls that look at it as well notice nothing the armed timer does not (TimerArmed).
GraceExpires(e) ==
    /\ Live(e) /\ timer[e]
    /\ Watched(tx[e], rx[e], Out(e))
    /\ Degrade(e, "graceExceeded")
    /\ UNCHANGED <<sessionVars, linkVars>>

AssemblyExpires(e) ==
    /\ Live(e) /\ rx[e].staged # 0
    /\ Degrade(e, "assemblyTimeout")
    /\ UNCHANGED <<sessionVars, linkVars>>

-----------------------------------------------------------------------------
(* Receiving: the payload at the head of the wire is handed to the adapter. *)

Arrives(e, type) == wire[e] # <<>> /\ Head(wire[e]).type = type

\* Another generation's payload, or one for an adapter that is degraded or not there yet.
Ignore(e) ==
    /\ wire[e] # <<>>
    /\ Head(wire[e]).type \in {"frame", "ack"}
    /\ ~Live(e) \/ Head(wire[e]).gen # gen[e]
    /\ Taken(e)
    /\ UNCHANGED <<sessionVars, adapterVars, relayVars>>

\* Mutant: the identity of a payload is not compared.
ForMe_AnyGeneration(e, type) == Arrives(e, type) /\ Live(e)

ForMe(e, type) == Arrives(e, type) /\ Live(e) /\ Head(wire[e]).gen = gen[e]

\* Mutant: a release leaves the index of the next fragment.
AckArrives_FrameStays(e) ==
    /\ ForMe(e, "ack")
    /\ LET a == Head(wire[e]).upTo
           t == tx[e]
           left == t.bytes - (LastSeq(Out(e), a) - LastSeq(Out(e), t.acked))
       IN  \/ /\ a <= t.acked
              /\ UNCHANGED adapterVars
           \/ /\ a > t.acked /\ a <= t.fullySent
              /\ tx' = [tx EXCEPT ![e] =
                    [t EXCEPT !.acked = a,
                              !.unsent = IF t.unsent <= a THEN a + 1 ELSE t.unsent,
                              !.bytes = left]]
              /\ saturated' = [saturated EXCEPT ![e] = @ /\ left > LowWaterMark]
              /\ timer' = [timer EXCEPT ![e] = a < Len(Out(e)) \/ rx[e].ackDue # 0]
              /\ UNCHANGED <<rx, flushing, fault>>
           \/ /\ a > t.acked /\ a > t.fullySent
              /\ Degrade(e, "futureAck")
    /\ Taken(e)
    /\ UNCHANGED <<sessionVars, relayVars>>

\* Mutant: a release never signals that the channel drained.
AckArrives_StaysSaturated(e) ==
    /\ ForMe(e, "ack")
    /\ LET a == Head(wire[e]).upTo
           t == tx[e]
           left == t.bytes - (LastSeq(Out(e), a) - LastSeq(Out(e), t.acked))
       IN  \/ /\ a <= t.acked
              /\ UNCHANGED adapterVars
           \/ /\ a > t.acked /\ a <= t.fullySent
              /\ tx' = [tx EXCEPT ![e] =
                    [t EXCEPT !.acked = a,
                              !.unsent = IF t.unsent <= a THEN a + 1 ELSE t.unsent,
                              !.frame = IF t.unsent <= a THEN 0 ELSE t.frame,
                              !.bytes = left]]
              /\ timer' = [timer EXCEPT ![e] = a < Len(Out(e)) \/ rx[e].ackDue # 0]
              /\ UNCHANGED <<saturated, rx, flushing, fault>>
           \/ /\ a > t.acked /\ a > t.fullySent
              /\ Degrade(e, "futureAck")
    /\ Taken(e)
    /\ UNCHANGED <<sessionVars, relayVars>>

\* An acknowledgement releases every message up to its number; one of old is a no-op.
AckArrives(e) ==
    /\ ForMe(e, "ack")
    /\ LET a == Head(wire[e]).upTo
           t == tx[e]
           left == t.bytes - (LastSeq(Out(e), a) - LastSeq(Out(e), t.acked))
       IN  \/ /\ a <= t.acked
              /\ UNCHANGED adapterVars
           \/ /\ a > t.acked /\ a <= t.fullySent
              /\ tx' = [tx EXCEPT ![e] =
                    [t EXCEPT !.acked = a,
                              !.unsent = IF t.unsent <= a THEN a + 1 ELSE t.unsent,
                              !.frame = IF t.unsent <= a THEN 0 ELSE t.frame,
                              !.bytes = left]]
              /\ saturated' = [saturated EXCEPT ![e] = @ /\ left > LowWaterMark]
              /\ timer' = [timer EXCEPT ![e] = a < Len(Out(e)) \/ rx[e].ackDue # 0]
              /\ UNCHANGED <<rx, flushing, fault>>
           \/ /\ a > t.acked /\ a > t.fullySent
              /\ Degrade(e, "futureAck")
    /\ Taken(e)
    /\ UNCHANGED <<sessionVars, relayVars>>

\* What the assembler makes of a frame that is no duplicate: the first thing that is wrong.
Misplaced(e, p) ==
    IF p.seq > rx[e].expected THEN "physicalGap"
    ELSE IF p.message # Len(In(e)) + 1 THEN "messageGap"
    ELSE IF p.index # rx[e].staged THEN "fragmentGap"
    ELSE IF rx[e].staged > 0 /\ p.count # rx[e].count THEN "metadataMismatch"
    ELSE "none"

\* Mutant: the acknowledgement is noted, the loop not entered.
AckQueued_NoLoop(e, r, k) ==
    /\ rx' = [rx EXCEPT ![e] = [r EXCEPT !.ackDue = IF @ < k THEN k ELSE @]]
    /\ timer' = [timer EXCEPT ![e] = TRUE]
    /\ UNCHANGED flushing

\* The acknowledgement due after message k: the largest wins, and the loop is entered.
AckQueued(e, r, k) ==
    /\ rx' = [rx EXCEPT ![e] = [r EXCEPT !.ackDue = IF @ < k THEN k ELSE @]]
    /\ timer' = [timer EXCEPT ![e] = TRUE]
    /\ flushing' = [flushing EXCEPT ![e] = TRUE]

\* Mutant: a duplicate is dropped and not acknowledged again.
DuplicateArrives_Silent(e) ==
    /\ ForMe(e, "frame")
    /\ Head(wire[e]).seq < rx[e].expected
    /\ Taken(e)
    /\ UNCHANGED <<sessionVars, adapterVars, relayVars>>

\* Mutant: the message of the duplicate is acknowledged, completed or not.
DuplicateArrives_AcksItsMessage(e) ==
    /\ ForMe(e, "frame")
    /\ Head(wire[e]).seq < rx[e].expected
    /\ AckQueued(e, rx[e], Head(wire[e]).message)
    /\ Taken(e)
    /\ UNCHANGED <<sessionVars, tx, saturated, fault, relayVars>>

\* A frame of old: what was completed is acknowledged again.
DuplicateArrives(e) ==
    /\ ForMe(e, "frame")
    /\ Head(wire[e]).seq < rx[e].expected
    /\ IF Len(In(e)) > 0
       THEN AckQueued(e, rx[e], Len(In(e)))
       ELSE UNCHANGED <<rx, timer, flushing>>
    /\ Taken(e)
    /\ UNCHANGED <<sessionVars, tx, saturated, fault, relayVars>>

FaultArrives(e) ==
    /\ ForMe(e, "frame")
    /\ Head(wire[e]).seq >= rx[e].expected
    /\ Misplaced(e, Head(wire[e])) # "none"
    /\ Degrade(e, Misplaced(e, Head(wire[e])))
    /\ Taken(e)
    /\ UNCHANGED <<sessionVars, relayVars>>

NextFrame(e) ==
    /\ ForMe(e, "frame")
    /\ Head(wire[e]).seq >= rx[e].expected
    /\ Misplaced(e, Head(wire[e])) = "none"

FragmentArrives(e) ==
    /\ NextFrame(e)
    /\ rx[e].staged + 1 < Head(wire[e]).count
    /\ rx' = [rx EXCEPT ![e].expected = @ + 1, ![e].staged = @ + 1,
                        ![e].count = Head(wire[e]).count]
    /\ Taken(e)
    /\ UNCHANGED <<sessionVars, tx, saturated, flushing, timer, fault, relayVars>>

\* Mutant: off by one in where the message begins.
MessageArrives_FromCount(e) ==
    /\ NextFrame(e)
    /\ rx[e].staged + 1 = Head(wire[e]).count
    /\ LET p == Head(wire[e])
           m == [first |-> p.seq - p.count, count |-> p.count]
       IN  delivered' = [delivered EXCEPT ![e][gen[e]] = Append(@, m)]
    /\ AckQueued(e, [rx[e] EXCEPT !.expected = @ + 1, !.staged = 0], Len(In(e)) + 1)
    /\ Taken(e)
    /\ UNCHANGED <<gen, asked, reserved, tx, saturated, fault, relayVars>>

\* The last fragment: the message is delivered and its number acknowledged.
MessageArrives(e) ==
    /\ NextFrame(e)
    /\ rx[e].staged + 1 = Head(wire[e]).count
    /\ LET p == Head(wire[e])
           m == [first |-> p.seq - p.index, count |-> p.count]
       IN  delivered' = [delivered EXCEPT ![e][gen[e]] = Append(@, m)]
    /\ AckQueued(e, [rx[e] EXCEPT !.expected = @ + 1, !.staged = 0], Len(In(e)) + 1)
    /\ Taken(e)
    /\ UNCHANGED <<gen, asked, reserved, tx, saturated, fault, relayVars>>

\* The channel throws while it is given the message: no acknowledgement.
DeliveryFails(e) ==
    /\ NextFrame(e)
    /\ rx[e].staged + 1 = Head(wire[e]).count
    /\ Degrade(e, "deliveryFailed")
    /\ Taken(e)
    /\ UNCHANGED <<sessionVars, relayVars>>

-----------------------------------------------------------------------------
(* The relay, and the bridges opened over it *)

\* The announcements that waited leave in order, before anything of their bridges.
FlushBuffered(e) ==
    IF e = Host
    THEN wire' = [wire EXCEPT ![Mobile] = @ \o buffered] /\ buffered' = <<>>
    ELSE UNCHANGED <<wire, buffered>>

\* "matched": the transport accepts frames, and everything kept is sent again.
SendReady(e) ==
    /\ ~flushing[e]
    /\ matches[e] < MaxMatches
    /\ matches' = [matches EXCEPT ![e] = @ + 1]
    /\ ready' = [ready EXCEPT ![e] = TRUE]
    /\ unsure' = [unsure EXCEPT ![e] = FALSE]
    /\ FlushBuffered(e)
    /\ IF Live(e)
       THEN /\ tx' = [tx EXCEPT ![e].unsent = tx[e].acked + 1, ![e].frame = 0]
            /\ flushing' = [flushing EXCEPT ![e] = TRUE]
       ELSE UNCHANGED <<tx, flushing>>
    /\ UNCHANGED <<sessionVars, saturated, rx, timer, fault, losses, dropped, attaching>>

\* An end is cut off; the bound: no more often than it will be announced again.
Disconnect(e) ==
    /\ ready[e]
    /\ matches[e] < MaxMatches
    /\ ready' = [ready EXCEPT ![e] = FALSE]
    /\ UNCHANGED <<sessionVars, adapterVars, wire, matches, losses, dropped, unsure,
                   attaching, buffered>>

\* The relay loses a payload.
Lose(e) ==
    /\ wire[e] # <<>>
    /\ losses < MaxLosses
    /\ losses' = losses + 1
    /\ Taken(e)
    /\ dropped' = [dropped EXCEPT ![e] = TRUE]
    /\ unsure' = [x \in Ends |-> TRUE]
    /\ UNCHANGED <<sessionVars, adapterVars, ready, matches, attaching, buffered>>

\* The phone asks for a new bridge: another workspace, or recovery.
AskBridge ==
    /\ ready[Mobile]
    /\ asked < MaxGeneration
    /\ asked' = asked + 1
    /\ Put(Mobile, [type |-> "open", gen |-> asked + 1])
    /\ UNCHANGED <<gen, reserved, delivered, adapterVars, relayVars>>

\* A new adapter with the identity of generation g takes the place of the old one.
Renewed(e, g) ==
    /\ gen' = [gen EXCEPT ![e] = g]
    /\ tx' = [tx EXCEPT ![e] = FreshTx]
    /\ saturated' = [saturated EXCEPT ![e] = FALSE]
    /\ rx' = [rx EXCEPT ![e] = FreshRx]
    /\ flushing' = [flushing EXCEPT ![e] = FALSE]
    /\ timer' = [timer EXCEPT ![e] = FALSE]
    /\ fault' = [fault EXCEPT ![e] = "none"]
    /\ dropped' = [dropped EXCEPT ![e] = FALSE]

\* The desktop disposes of the bridge it has and attaches a host to the one asked for; the
\* one it was attaching a host to, if any, is superseded.
OpenBridge ==
    /\ Arrives(Host, "open")
    /\ ~flushing[Host]
    /\ attaching' = Head(wire[Host]).gen
    /\ Degrade(Host, "disposed")
    /\ Taken(Host)
    /\ UNCHANGED <<sessionVars, ready, matches, losses, dropped, unsure, buffered>>

\* The workspace asked for is not there: the bridge the desktop has stays.
OpenRefused ==
    /\ Arrives(Host, "open")
    /\ Taken(Host)
    /\ UNCHANGED <<sessionVars, adapterVars, relayVars>>

\* The host is attached: the bridge is announced, as soon as the transport takes it, and
\* only then may its frames leave.
BridgeAttached ==
    /\ attaching # 0
    /\ Renewed(Host, attaching)
    /\ attaching' = 0
    /\ unsure' = [unsure EXCEPT ![Host] = FALSE]
    /\ LET p == [type |-> "opened", gen |-> attaching]
       IN  IF ready[Host]
           THEN Put(Host, p) /\ UNCHANGED buffered
           ELSE buffered' = Append(buffered, p) /\ UNCHANGED wire
    /\ UNCHANGED <<asked, reserved, delivered, ready, matches, losses>>

\* No host could be attached: the phone gets an error, and the desktop has no bridge.
AttachFails ==
    /\ attaching # 0
    /\ attaching' = 0
    /\ UNCHANGED <<sessionVars, adapterVars, wire, ready, matches, losses, dropped, unsure,
                   buffered>>

\* What waited too long for the transport is dropped.
BufferExpires ==
    /\ buffered # <<>>
    /\ buffered' = <<>>
    /\ UNCHANGED <<sessionVars, adapterVars, wire, ready, matches, losses, dropped, unsure,
                   attaching>>

\* The phone's request is answered: its new adapter takes the place of the one it has.
BridgeOpened ==
    /\ Arrives(Mobile, "opened")
    /\ ~flushing[Mobile]
    /\ Renewed(Mobile, Head(wire[Mobile]).gen)
    /\ unsure' = [unsure EXCEPT ![Mobile] = FALSE]
    /\ Taken(Mobile)
    /\ UNCHANGED <<asked, reserved, delivered, ready, matches, losses, attaching, buffered>>

\* The request has timed out before its answer came.
OpenedLate ==
    /\ Arrives(Mobile, "opened")
    /\ Taken(Mobile)
    /\ UNCHANGED <<sessionVars, adapterVars, relayVars>>

Step(e) ==
    \/ Reserve(e) \/ ReserveOverflows(e)
    \/ SendAck(e) \/ SendFrame(e) \/ FlushEnds(e)
    \/ GraceExpires(e) \/ AssemblyExpires(e)
    \/ Ignore(e) \/ AckArrives(e) \/ DuplicateArrives(e) \/ FaultArrives(e)
    \/ FragmentArrives(e) \/ MessageArrives(e) \/ DeliveryFails(e)
    \/ SendReady(e) \/ Disconnect(e) \/ Lose(e)

Next ==
    \/ \E e \in Ends : Step(e)
    \/ AskBridge
    \/ OpenBridge \/ OpenRefused \/ BridgeAttached \/ AttachFails \/ BufferExpires
    \/ BridgeOpened \/ OpenedLate

Spec == Init /\ [][Next]_vars

-----------------------------------------------------------------------------
(* Properties *)

\* Every variable stays in its type.
TypeOK ==
    /\ gen \in [Ends -> 0..MaxGeneration]
    /\ asked \in 0..MaxGeneration
    /\ reserved \in [Ends -> [Generations -> Seq(Messages)]]
    /\ delivered \in [Ends -> [Generations -> Seq(Messages)]]
    /\ tx \in [Ends -> TxStates]
    /\ saturated \in [Ends -> BOOLEAN]
    /\ rx \in [Ends -> RxStates]
    /\ flushing \in [Ends -> BOOLEAN]
    /\ timer \in [Ends -> BOOLEAN]
    /\ fault \in [Ends -> Faults]
    /\ wire \in [Ends -> Seq(Payloads)]
    /\ ready \in [Ends -> BOOLEAN]
    /\ matches \in [Ends -> 0..MaxMatches]
    /\ losses \in 0..MaxLosses
    /\ attaching \in 0..MaxGeneration
    /\ buffered \in Seq(Controls)
    /\ dropped \in [Ends -> BOOLEAN]
    /\ unsure \in [Ends -> BOOLEAN]

\* In every generation a channel is given exactly what the other one sent, in order, each
\* message once and whole, whatever is lost and however often everything is sent again.
DeliveredIsSentPrefix ==
    \A e \in Ends, g \in Generations :
        LET got == delivered[e][g]
            sent == reserved[Peer(e)][g]
        IN  Len(got) <= Len(sent) /\ \A k \in 1..Len(got) : got[k] = sent[k]

\* What a sender has forgotten as acknowledged, the other end's channel was given, even
\* when that end has degraded since.
AckedIsDelivered ==
    \A e \in Ends :
        gen[e] # 0 => tx[e].acked <= Len(delivered[Peer(e)][gen[e]])

\* Between two ends that run this code no acknowledgement is of the future, no message
\* and no metadata out of place, and the only gap is one the relay made by losing a
\* payload: a replay at any moment, also in the middle of a message, makes none.
OnlyLossMakesGaps ==
    \A e \in Ends :
        /\ fault[e] \notin {"futureAck", "messageGap", "metadataMismatch"}
        /\ fault[e] \in {"physicalGap", "fragmentGap"} => dropped[e]

\* The byte count is what the kept messages weigh, across releases and replays, and the
\* saturation signalled to the channel follows it between its two marks.
BytesAreKept ==
    \A e \in Ends : Live(e) =>
        /\ tx[e].bytes = LastSeq(Out(e), Len(Out(e))) - LastSeq(Out(e), tx[e].acked)
        /\ tx[e].bytes <= ReplayBufferMax
        /\ tx[e].bytes > HighWaterMark => saturated[e]
        /\ saturated[e] => tx[e].bytes > LowWaterMark

\* A deadline is armed exactly as long as a message is kept or an acknowledgement is due.
TimerArmed ==
    \A e \in Ends : Live(e) => (timer[e] <=> Watched(tx[e], rx[e], Out(e)))

\* An end whose transport accepts frames and whose loop has ended has nothing left to send.
NothingStuck ==
    \A e \in Ends :
        Live(e) /\ ready[e] /\ ~flushing[e]
            => rx[e].ackDue = 0 /\ tx[e].unsent > Len(Out(e))

\* When nothing travels any more and nothing was lost since the last announcement,
\* everything an end sent was delivered and acknowledged.
QuiescentIsComplete ==
    \A e \in Ends :
        /\ gen[Host] = gen[Mobile] /\ Live(Host) /\ Live(Mobile)
        /\ \A x \in Ends : wire[x] = <<>> /\ ~flushing[x] /\ ready[x]
        /\ ~unsure[e]
        => tx[e].acked = Len(Out(e))

Link == INSTANCE ExactlyOnceLink WITH sent <- reserved, got <- delivered, current <- gen
\* What the session is for: two reliable channels per generation.
ImplementsExactlyOnce == Link!Spec

=============================================================================
