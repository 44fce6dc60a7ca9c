------------------------- MODULE RelaySessionProofs -------------------------
(***************************************************************************)
(* The acknowledged relay session for every workload, any number of        *)
(* generations, announcements and losses, and all limits: exactly once and *)
(* in order, nothing forgotten that was not delivered, exact bytes, and    *)
(* the refinement of ExactlyOnceLink.                                      *)
(***************************************************************************)
EXTENDS RelaySession, TLAPS, SequenceTheorems

-----------------------------------------------------------------------------
(* The invariant: what travels describes what its sender reserved and what *)
(* its receiver may rely on, and a generation that has not begun at an end *)
(* is empty there.                                                         *)

IsControl(p) == p.type \in {"open", "opened"}

\* A frame shows a message its sender reserved; the last frame of one of the sender's
\* present generation was counted as fully sent.
GoodFrame(x, p) ==
    LET s == Peer(x)
        r == reserved[s][p.gen]
    IN  /\ p.gen <= gen[s]
        /\ p.message <= Len(r)
        /\ p.seq = r[p.message].first + p.index
        /\ p.count = r[p.message].count
        /\ p.index < p.count
        /\ p.gen = gen[s] /\ p.index + 1 = p.count => p.message <= tx[s].fullySent

\* Bridges still to be opened at x: later than its own, not later than those asked for.
GoodControl(x, p) ==
    /\ p.type = (IF x = Host THEN "open" ELSE "opened")
    /\ gen[x] < p.gen
    /\ p.gen <= (IF x = Host THEN asked ELSE gen[Host])

Good(x) == {p \in Payloads :
    /\ p.type = "frame" => GoodFrame(x, p)
    /\ p.type = "ack" => p.upTo <= Len(delivered[Peer(x)][p.gen])
    /\ IsControl(p) => GoodControl(x, p)}

WireGood == wire \in [Ends -> Seq(Payloads)] /\ \A x \in Ends : wire[x] \in Seq(Good(x))

\* The bridge the desktop attaches a host for is later than its own and earlier than those
\* still to be opened; the announcements that wait are of bridges later than those under
\* way, in order, and wait only for the transport.
Announcing ==
    /\ attaching # 0 =>
        /\ gen[Host] < attaching /\ attaching <= asked
        /\ \A i \in 1..Len(wire[Host]) :
               IsControl(wire[Host][i]) => attaching < wire[Host][i].gen
    /\ buffered # <<>> => ~ready[Host]
    /\ \A j \in 1..Len(buffered) :
        /\ buffered[j].type = "opened"
        /\ gen[Mobile] < buffered[j].gen /\ buffered[j].gen <= gen[Host]
        /\ \A i \in 1..Len(wire[Mobile]) :
               IsControl(wire[Mobile][i]) => wire[Mobile][i].gen < buffered[j].gen
        /\ \A i \in 1..Len(buffered) : i < j => buffered[i].gen < buffered[j].gen

ControlsInOrder ==
    \A x \in Ends : \A i, j \in 1..Len(wire[x]) :
        i < j /\ IsControl(wire[x][i]) /\ IsControl(wire[x][j])
            => wire[x][i].gen < wire[x][j].gen

Generational ==
    /\ gen[Mobile] <= gen[Host] /\ gen[Host] <= asked
    /\ \A e \in Ends, g \in Generations :
        g > gen[e] => reserved[e][g] = <<>> /\ delivered[e][g] = <<>>

Numbered ==
    \A e \in Ends, g \in Generations :
        \A i, j \in 0..Len(reserved[e][g]) :
            i <= j => LastSeq(reserved[e][g], i) <= LastSeq(reserved[e][g], j)

\* The sending half of a live adapter.
Sending ==
    /\ \A e \in Ends : Live(e) =>
        /\ tx[e].acked < tx[e].unsent
        /\ tx[e].unsent <= Len(Out(e)) + 1
        /\ tx[e].frame = 0 \/ (tx[e].unsent <= Len(Out(e))
                               /\ tx[e].frame < Out(e)[tx[e].unsent].count)
    /\ \A e \in Ends : gen[e] # 0 =>
        Len(delivered[Peer(e)][gen[e]]) <= tx[e].fullySent

\* No acknowledgement is due for what was not delivered, and none of the future comes.
Acknowledging ==
    \A e \in Ends :
        /\ Live(e) => rx[e].ackDue <= Len(In(e))
        /\ fault[e] # "futureAck"

Typed ==
    /\ gen \in [Ends -> 0..MaxGeneration]
    /\ asked \in 0..MaxGeneration
    /\ reserved \in [Ends -> [Generations -> Seq(Messages)]]
    /\ delivered \in [Ends -> [Generations -> Seq(Messages)]]
    /\ tx \in [Ends -> TxStates]
    /\ saturated \in [Ends -> BOOLEAN]
    /\ rx \in [Ends -> RxStates]
    /\ flushing \in [Ends -> BOOLEAN]
    /\ timer \in [Ends -> BOOLEAN]
    /\ fault \in [Ends -> Faults]
    /\ ready \in [Ends -> BOOLEAN]
    /\ matches \in [Ends -> 0..MaxMatches]
    /\ losses \in 0..MaxLosses
    /\ dropped \in [Ends -> BOOLEAN]
    /\ unsure \in [Ends -> BOOLEAN]
    /\ attaching \in 0..MaxGeneration
    /\ buffered \in Seq(Controls)

CoreInv ==
    /\ Typed
    /\ WireGood
    /\ Announcing
    /\ ControlsInOrder
    /\ Generational
    /\ Numbered
    /\ Sending
    /\ Acknowledging
    /\ DeliveredIsSentPrefix
    /\ AckedIsDelivered

IInv == CoreInv /\ BytesAreKept /\ TimerArmed /\ NothingStuck

-----------------------------------------------------------------------------
(* Facts about the ends, about sequences and about message numbers. *)

LEMMA TwoEnds ==
    /\ \A e \in Ends : Peer(e) \in Ends /\ Peer(e) # e /\ Peer(Peer(e)) = e
    /\ \A e, x \in Ends : x = e \/ x = Peer(e)
    /\ Host \in Ends /\ Mobile \in Ends /\ Peer(Host) = Mobile /\ Peer(Mobile) = Host
BY RelayAssumption DEF Ends, Peer

LEMMA HeadAndTail ==
    ASSUME NEW S, NEW s \in Seq(S), s # <<>>
    PROVE  /\ Head(s) \in S /\ Head(s) = s[1] /\ Len(s) >= 1 /\ Len(s) \in Nat
           /\ Tail(s) \in Seq(S) /\ Len(Tail(s)) = Len(s) - 1
           /\ \A i \in 1..Len(Tail(s)) : Tail(s)[i] = s[i + 1]
           /\ \A i \in 1..Len(s) : s[i] \in S
<1>1. Len(s) \in Nat /\ Len(s) >= 1
  BY LenProperties, EmptySeq
<1> QED BY <1>1, HeadTailProperties, ElementOfSeq

LEMMA Appended ==
    ASSUME NEW S, NEW s \in Seq(S), NEW x \in S
    PROVE  /\ Append(s, x) \in Seq(S) /\ Len(Append(s, x)) = Len(s) + 1 /\ Len(s) \in Nat
           /\ \A i \in 1..Len(s) : Append(s, x)[i] = s[i]
           /\ Append(s, x)[Len(s) + 1] = x
BY AppendProperties, LenProperties

LEMMA LargerSet ==
    ASSUME NEW S, NEW T, NEW s \in Seq(S), \A i \in 1..Len(s) : s[i] \in T
    PROVE  s \in Seq(T)
<1>1. Len(s) \in Nat /\ s = [i \in 1..Len(s) |-> s[i]]
  BY LenProperties
<1>2. [i \in 1..Len(s) |-> s[i]] \in Seq(T)
  BY <1>1, IsASeq
<1> QED BY <1>1, <1>2

\* The numbers of a sequence of messages are numbers, and appending changes none of them.
LEMMA LastSeqs ==
    ASSUME NEW s \in Seq(Messages)
    PROVE  /\ \A k \in 0..Len(s) : LastSeq(s, k) \in Nat
           /\ \A m \in Messages :
                /\ \A k \in 0..Len(s) : LastSeq(Append(s, m), k) = LastSeq(s, k)
                /\ LastSeq(Append(s, m), Len(s) + 1) = m.first + m.count - 1
<1>1. Len(s) \in Nat /\ \A k \in 1..Len(s) : s[k] \in Messages
  BY LenProperties, ElementOfSeq
<1>2. \A k \in 0..Len(s) : LastSeq(s, k) \in Nat
  <2> SUFFICES ASSUME NEW k \in 0..Len(s) PROVE LastSeq(s, k) \in Nat
    OBVIOUS
  <2>1. CASE k = 0
    BY <2>1 DEF LastSeq
  <2>2. CASE k # 0
    <3>1. k \in 1..Len(s)
      BY <1>1, <2>2
    <3>2. s[k].first \in Nat \ {0} /\ s[k].count \in Nat \ {0}
      BY <1>1, <3>1 DEF Messages
    <3> QED BY <2>2, <3>2 DEF LastSeq
  <2> QED BY <2>1, <2>2
<1>3. ASSUME NEW m \in Messages
      PROVE /\ \A k \in 0..Len(s) : LastSeq(Append(s, m), k) = LastSeq(s, k)
            /\ LastSeq(Append(s, m), Len(s) + 1) = m.first + m.count - 1
  <2>1. /\ \A k \in 1..Len(s) : Append(s, m)[k] = s[k]
        /\ Append(s, m)[Len(s) + 1] = m
    BY Appended
  <2>2. ASSUME NEW k \in 0..Len(s) PROVE LastSeq(Append(s, m), k) = LastSeq(s, k)
    <3>1. CASE k = 0
      BY <3>1 DEF LastSeq
    <3>2. CASE k # 0
      <4>1. k \in 1..Len(s)
        BY <1>1, <3>2
      <4>2. Append(s, m)[k] = s[k]
        BY <2>1, <4>1
      <4> QED BY <3>2, <4>2 DEF LastSeq
    <3> QED BY <3>1, <3>2
  <2>3. LastSeq(Append(s, m), Len(s) + 1) = m.first + m.count - 1
    <3>1. Len(s) + 1 # 0
      BY <1>1
    <3> QED BY <2>1, <3>1 DEF LastSeq
  <2> QED BY <2>2, <2>3
<1> QED BY <1>2, <1>3

-----------------------------------------------------------------------------
(* What travels stays good. *)

\* What an end may rely on only grows while neither end changes its generation.
LEMMA GoodStays ==
    ASSUME Typed, Typed', NEW x \in Ends,
           gen'[x] = gen[x], gen[Peer(x)] <= gen'[Peer(x)], gen[Host] <= gen'[Host],
           asked <= asked',
           gen'[Peer(x)] = gen[Peer(x)] => tx[Peer(x)].fullySent <= tx'[Peer(x)].fullySent,
           \A g \in Generations :
              /\ Len(reserved[Peer(x)][g]) <= Len(reserved'[Peer(x)][g])
              /\ \A k \in 1..Len(reserved[Peer(x)][g]) :
                    reserved'[Peer(x)][g][k] = reserved[Peer(x)][g][k]
              /\ Len(delivered[Peer(x)][g]) <= Len(delivered'[Peer(x)][g]),
           NEW p \in Good(x)
    PROVE  p \in Good(x)'
<1> DEFINE y == Peer(x)
<1>1. y \in Ends /\ Host \in Ends
  BY TwoEnds
<1>2. /\ gen \in [Ends -> 0..MaxGeneration] /\ gen' \in [Ends -> 0..MaxGeneration]
      /\ asked \in 0..MaxGeneration /\ asked' \in 0..MaxGeneration
      /\ tx[y] \in TxStates /\ tx'[y] \in TxStates /\ MaxGeneration \in Nat
  BY <1>1, RelayAssumption DEF Typed
<1>3. \A g \in Generations :
        /\ Len(reserved[y][g]) \in Nat /\ Len(reserved'[y][g]) \in Nat
        /\ Len(delivered[y][g]) \in Nat /\ Len(delivered'[y][g]) \in Nat
  <2> SUFFICES ASSUME NEW g \in Generations
               PROVE  /\ Len(reserved[y][g]) \in Nat /\ Len(reserved'[y][g]) \in Nat
                      /\ Len(delivered[y][g]) \in Nat /\ Len(delivered'[y][g]) \in Nat
    OBVIOUS
  <2>1. /\ reserved[y][g] \in Seq(Messages) /\ reserved'[y][g] \in Seq(Messages)
        /\ delivered[y][g] \in Seq(Messages) /\ delivered'[y][g] \in Seq(Messages)
    BY <1>1 DEF Typed
  <2> QED BY <2>1, LenProperties
<1>4. p \in Payloads
  BY DEF Good
<1>5. ASSUME p.type = "frame" PROVE GoodFrame(x, p)'
  <2>1. p \in Frames
    BY <1>4, <1>5 DEF Payloads, Frames, Acks, Controls
  <2>2. p.gen \in Generations /\ p.message \in Nat \ {0} /\ p.gen \in Nat
    BY <2>1, <1>2 DEF Frames, Generations
  <2>3. GoodFrame(x, p)
    BY <1>5 DEF Good
  <2>4. p.message \in 1..Len(reserved[y][p.gen])
    BY <2>2, <2>3, <1>3 DEF GoodFrame
  <2>5. reserved'[y][p.gen][p.message] = reserved[y][p.gen][p.message]
    BY <2>2, <2>4
  <2>6. p.gen <= gen'[y] /\ p.message <= Len(reserved'[y][p.gen])
    <3>1. p.gen <= gen[y] /\ gen[y] <= gen'[y] /\ gen[y] \in Nat /\ gen'[y] \in Nat
      BY <1>1, <1>2, <2>3 DEF GoodFrame
    <3>2. /\ p.message <= Len(reserved[y][p.gen])
          /\ Len(reserved[y][p.gen]) <= Len(reserved'[y][p.gen])
      BY <2>2, <2>3 DEF GoodFrame
    <3>3. Len(reserved[y][p.gen]) \in Nat /\ Len(reserved'[y][p.gen]) \in Nat
      BY <1>3, <2>2
    <3> QED BY <2>2, <3>1, <3>2, <3>3, SMTT(30)
  <2>7. p.gen = gen'[y] /\ p.index + 1 = p.count => p.message <= tx'[y].fullySent
    <3> HAVE p.gen = gen'[y] /\ p.index + 1 = p.count
    <3>1. gen'[y] = gen[y] /\ p.gen = gen[y]
      BY <1>1, <1>2, <2>2, <2>3 DEF GoodFrame
    <3>2. p.message <= tx[y].fullySent /\ tx[y].fullySent <= tx'[y].fullySent
      BY <2>3, <3>1 DEF GoodFrame
    <3>3. tx[y].fullySent \in Nat /\ tx'[y].fullySent \in Nat
      BY <1>2 DEF TxStates
    <3> QED BY <2>2, <3>2, <3>3
  <2> QED BY <2>3, <2>5, <2>6, <2>7 DEF GoodFrame
<1>6. ASSUME p.type = "ack" PROVE p.upTo <= Len(delivered'[y][p.gen])
  <2>1. p.gen \in Generations /\ p.upTo \in Nat
    BY <1>4, <1>6 DEF Payloads, Frames, Acks, Controls
  <2>2. p.upTo <= Len(delivered[y][p.gen])
    BY <1>6 DEF Good
  <2> QED BY <1>3, <2>1, <2>2
<1>7. ASSUME IsControl(p) PROVE GoodControl(x, p)'
  <2>1. p.gen \in Nat
    BY <1>2, <1>4, <1>7 DEF Payloads, Frames, Acks, Controls, IsControl, Generations
  <2>2. GoodControl(x, p)
    BY <1>7 DEF Good
  <2> QED BY <1>1, <1>2, <2>1, <2>2 DEF GoodControl
<1> QED BY <1>4, <1>5, <1>6, <1>7 DEF Good, IsControl

\* A payload is taken from a wire: what is left is good and in order.
LEMMA WireAfterTaking ==
    ASSUME WireGood, ControlsInOrder, NEW e \in Ends, wire[e] # <<>>, Taken(e),
           \A x \in Ends : Good(x) \subseteq Good(x)'
    PROVE  WireGood' /\ ControlsInOrder'
<1>1. /\ wire' \in [Ends -> Seq(Payloads)]
      /\ \A x \in Ends : wire'[x] = IF x = e THEN Tail(wire[e]) ELSE wire[x]
  BY HeadAndTail DEF WireGood, Taken
<1>2. ASSUME NEW x \in Ends PROVE wire'[x] \in Seq(Good(x)')
  <2>1. wire'[x] \in Seq(Good(x))
    <3>1. wire[x] \in Seq(Good(x))
      BY DEF WireGood
    <3>2. CASE x = e
      <4>1. Tail(wire[e]) \in Seq(Good(e))
        BY <3>1, <3>2, HeadAndTail
      <4> QED BY <1>1, <3>2, <4>1
    <3>3. CASE x # e
      BY <1>1, <3>1, <3>3
    <3> QED BY <3>2, <3>3
  <2>2. \A i \in 1..Len(wire'[x]) : wire'[x][i] \in Good(x)'
    BY <2>1, ElementOfSeq
  <2> QED BY <2>1, <2>2, LargerSet
<1>3. ControlsInOrder'
  <2> SUFFICES ASSUME NEW x \in Ends, NEW i \in 1..Len(wire'[x]), NEW j \in 1..Len(wire'[x]),
                      i < j, IsControl(wire'[x][i]), IsControl(wire'[x][j])
               PROVE  wire'[x][i].gen < wire'[x][j].gen
    BY DEF ControlsInOrder, IsControl
  <2>1. CASE x # e
    BY <1>1, <2>1 DEF ControlsInOrder
  <2>2. CASE x = e
    <3>1. /\ Len(wire[e]) \in Nat /\ wire'[e] = Tail(wire[e]) /\ Len(Tail(wire[e])) = Len(wire[e]) - 1
          /\ \A k \in 1..Len(Tail(wire[e])) : Tail(wire[e])[k] = wire[e][k + 1]
      BY <1>1, HeadAndTail DEF WireGood
    <3>2. /\ i + 1 \in 1..Len(wire[e]) /\ j + 1 \in 1..Len(wire[e]) /\ i + 1 < j + 1
          /\ wire'[e][i] = wire[e][i + 1] /\ wire'[e][j] = wire[e][j + 1]
      BY <2>2, <3>1
    <3> QED BY <2>2, <3>2 DEF ControlsInOrder
  <2> QED BY <2>1, <2>2
<1> QED BY <1>1, <1>2, <1>3 DEF WireGood

\* A payload is put on a wire that is good for it; a control comes after those under way.
LEMMA WireAfterPutting ==
    ASSUME WireGood, ControlsInOrder, NEW e \in Ends, NEW p, Put(e, p), p \in Good(Peer(e))',
           \A x \in Ends : Good(x) \subseteq Good(x)',
           IsControl(p) => \A i \in 1..Len(wire[Peer(e)]) :
                IsControl(wire[Peer(e)][i]) => wire[Peer(e)][i].gen < p.gen
    PROVE  WireGood' /\ ControlsInOrder'
<1> DEFINE y == Peer(e)
<1>0. y \in Ends /\ p \in Payloads
  BY TwoEnds DEF Good
<1>1. /\ wire' \in [Ends -> Seq(Payloads)]
      /\ \A x \in Ends : wire'[x] = IF x = y THEN Append(wire[y], p) ELSE wire[x]
  BY <1>0, Appended DEF WireGood, Put
<1>2. ASSUME NEW x \in Ends PROVE wire'[x] \in Seq(Good(x)')
  <2>1. \A i \in 1..Len(wire[x]) : wire[x][i] \in Good(x)'
    BY ElementOfSeq DEF WireGood
  <2>2. wire[x] \in Seq(Good(x)')
    BY <2>1, LargerSet DEF WireGood
  <2>3. CASE x = y
    <3>1. Append(wire[y], p) \in Seq(Good(y)')
      BY <2>2, <2>3, Appended
    <3> QED BY <1>1, <2>3, <3>1
  <2>4. CASE x # y
    BY <1>1, <2>2, <2>4
  <2> QED BY <2>3, <2>4
<1>3. ControlsInOrder'
  <2> SUFFICES ASSUME NEW x \in Ends, NEW i \in 1..Len(wire'[x]), NEW j \in 1..Len(wire'[x]),
                      i < j, IsControl(wire'[x][i]), IsControl(wire'[x][j])
               PROVE  wire'[x][i].gen < wire'[x][j].gen
    BY DEF ControlsInOrder, IsControl
  <2>1. CASE x # y
    BY <1>1, <2>1 DEF ControlsInOrder
  <2>2. CASE x = y
    <3>1. /\ Len(wire[y]) \in Nat /\ wire'[y] = Append(wire[y], p)
          /\ Len(Append(wire[y], p)) = Len(wire[y]) + 1
          /\ \A k \in 1..Len(wire[y]) : Append(wire[y], p)[k] = wire[y][k]
          /\ Append(wire[y], p)[Len(wire[y]) + 1] = p
      BY <1>0, <1>1, Appended DEF WireGood
    <3>2. i \in 1..Len(wire[y]) /\ wire'[y][i] = wire[y][i]
      BY <2>2, <3>1
    <3>3. CASE j = Len(wire[y]) + 1
      BY <2>2, <3>1, <3>2, <3>3
    <3>4. CASE j # Len(wire[y]) + 1
      <4>1. j \in 1..Len(wire[y]) /\ wire'[y][j] = wire[y][j]
        BY <2>2, <3>1, <3>4
      <4> QED BY <1>0, <2>2, <3>2, <4>1 DEF ControlsInOrder
    <3> QED BY <3>3, <3>4
  <2> QED BY <2>1, <2>2
<1> QED BY <1>1, <1>2, <1>3 DEF WireGood

\* The payload an end takes.
LEMMA HeadIsGood ==
    ASSUME WireGood, NEW e \in Ends, wire[e] # <<>>
    PROVE  Head(wire[e]) \in Good(e) /\ Head(wire[e]) \in Payloads
BY HeadAndTail DEF WireGood, Good

\* No control was put on the wire towards x.
Inherited(x) ==
    \A i \in 1..Len(wire'[x]) : IsControl(wire'[x][i]) =>
        \E k \in 1..Len(wire[x]) : wire[x][k] = wire'[x][i]

LEMMA InheritedByTaking ==
    ASSUME WireGood, NEW e \in Ends, wire[e] # <<>>, Taken(e), NEW x \in Ends
    PROVE  Inherited(x)
<1>1. /\ Len(wire[e]) \in Nat /\ Len(Tail(wire[e])) = Len(wire[e]) - 1
      /\ \A i \in 1..Len(Tail(wire[e])) : Tail(wire[e])[i] = wire[e][i + 1]
  BY HeadAndTail DEF WireGood
<1>2. CASE x = e
  <2>1. wire'[x] = Tail(wire[e])
    BY <1>2 DEF WireGood, Taken
  <2>2. ASSUME NEW i \in 1..Len(Tail(wire[e]))
        PROVE  \E k \in 1..Len(wire[e]) : wire[e][k] = Tail(wire[e])[i]
    <3>1. i + 1 \in 1..Len(wire[e])
      BY <1>1
    <3> QED BY <1>1, <3>1
  <2> QED BY <1>2, <2>1, <2>2 DEF Inherited
<1>3. CASE x # e
  <2>1. wire'[x] = wire[x]
    BY <1>3 DEF WireGood, Taken
  <2> QED BY <2>1 DEF Inherited
<1> QED BY <1>2, <1>3

LEMMA InheritedByPutting ==
    ASSUME WireGood, NEW e \in Ends, NEW p \in Payloads, Put(e, p), ~IsControl(p), NEW x \in Ends
    PROVE  Inherited(x)
<1> DEFINE y == Peer(e)
<1>1. /\ y \in Ends /\ Len(wire[y]) \in Nat /\ Len(Append(wire[y], p)) = Len(wire[y]) + 1
      /\ \A i \in 1..Len(wire[y]) : Append(wire[y], p)[i] = wire[y][i]
      /\ Append(wire[y], p)[Len(wire[y]) + 1] = p
  BY TwoEnds, Appended DEF WireGood
<1>2. CASE x = y
  <2>1. wire'[x] = Append(wire[y], p)
    BY <1>2 DEF WireGood, Put
  <2>2. ASSUME NEW i \in 1..Len(Append(wire[y], p)), IsControl(Append(wire[y], p)[i])
        PROVE  \E k \in 1..Len(wire[y]) : wire[y][k] = Append(wire[y], p)[i]
    <3>1. i # Len(wire[y]) + 1
      BY <1>1, <2>2
    <3>2. i \in 1..Len(wire[y])
      BY <1>1, <3>1
    <3> QED BY <1>1, <3>2
  <2> QED BY <1>2, <2>1, <2>2 DEF Inherited
<1>3. CASE x # y
  <2>1. wire'[x] = wire[x]
    BY <1>3 DEF WireGood, Put
  <2> QED BY <2>1 DEF Inherited
<1> QED BY <1>2, <1>3

\* Nothing is announced and no host attached; the phone may take an announcement.
LEMMA AnnouncingKept ==
    ASSUME Announcing, attaching' = attaching, buffered' = buffered, ready'[Host] => ready[Host],
           gen'[Host] = gen[Host], asked' = asked, Inherited(Host), Inherited(Mobile),
           \/ gen'[Mobile] = gen[Mobile]
           \/ \E k \in 1..Len(wire[Mobile]) :
                 IsControl(wire[Mobile][k]) /\ wire[Mobile][k].gen = gen'[Mobile]
    PROVE  Announcing'
<1>1. ASSUME attaching # 0, NEW i \in 1..Len(wire'[Host]), IsControl(wire'[Host][i])
      PROVE  attaching < wire'[Host][i].gen
  BY <1>1 DEF Announcing, Inherited
<1>2. ASSUME NEW j \in 1..Len(buffered), NEW i \in 1..Len(wire'[Mobile]),
             IsControl(wire'[Mobile][i])
      PROVE  wire'[Mobile][i].gen < buffered[j].gen
  BY <1>2 DEF Announcing, Inherited
<1>3. ASSUME NEW j \in 1..Len(buffered) PROVE gen'[Mobile] < buffered[j].gen
  BY DEF Announcing
<1> QED BY <1>1, <1>2, <1>3 DEF Announcing, IsControl

LEMMA NothingAnnounced ==
    ASSUME WireGood, Announcing, attaching' = attaching, buffered' = buffered,
           ready'[Host] => ready[Host], gen' = gen, asked' = asked,
           wire' = wire \/ \E e \in Ends : wire[e] # <<>> /\ Taken(e)
    PROVE  Announcing'
<1>1. ASSUME NEW x \in Ends PROVE Inherited(x)
  <2>1. CASE wire' = wire
    BY <2>1 DEF Inherited
  <2>2. CASE \E e \in Ends : wire[e] # <<>> /\ Taken(e)
    BY <2>2, InheritedByTaking
  <2> QED BY <2>1, <2>2
<1> QED BY <1>1, TwoEnds, AnnouncingKept

-----------------------------------------------------------------------------
(* A step that neither reserves, delivers, asks for nor opens anything. *)

Steady == gen' = gen /\ asked' = asked /\ reserved' = reserved /\ delivered' = delivered

\* ... and leaves what the desktop is about to announce.
Quiet ==
    /\ Steady
    /\ attaching' = attaching /\ buffered' = buffered
    /\ ready'[Host] => ready[Host]

LEMMA QuietKeeps ==
    ASSUME CoreInv, Typed', Steady, \A x \in Ends : tx[x].fullySent <= tx'[x].fullySent
    PROVE  /\ \A x \in Ends : Good(x) \subseteq Good(x)'
           /\ Generational' /\ Numbered' /\ DeliveredIsSentPrefix'
<1>1. ASSUME NEW x \in Ends PROVE Good(x) \subseteq Good(x)'
  <2> SUFFICES ASSUME NEW p \in Good(x) PROVE p \in Good(x)'
    OBVIOUS
  <2>0. Typed /\ Peer(x) \in Ends /\ Host \in Ends
    BY TwoEnds DEF CoreInv
  <2>1. /\ gen'[x] = gen[x] /\ gen[Peer(x)] <= gen'[Peer(x)] /\ gen[Host] <= gen'[Host]
        /\ asked <= asked' /\ tx[Peer(x)].fullySent <= tx'[Peer(x)].fullySent
    BY <2>0, RelayAssumption DEF Typed, Steady
  <2>2. \A g \in Generations :
          /\ Len(reserved[Peer(x)][g]) <= Len(reserved'[Peer(x)][g])
          /\ \A k \in 1..Len(reserved[Peer(x)][g]) :
                reserved'[Peer(x)][g][k] = reserved[Peer(x)][g][k]
          /\ Len(delivered[Peer(x)][g]) <= Len(delivered'[Peer(x)][g])
    <3> SUFFICES ASSUME NEW g \in Generations
                 PROVE  /\ Len(reserved[Peer(x)][g]) <= Len(reserved[Peer(x)][g])
                        /\ Len(delivered[Peer(x)][g]) <= Len(delivered[Peer(x)][g])
      BY DEF Steady
    <3>1. reserved[Peer(x)][g] \in Seq(Messages) /\ delivered[Peer(x)][g] \in Seq(Messages)
      BY <2>0 DEF Typed
    <3> QED BY <3>1, LenProperties
  <2> QED BY <2>0, <2>1, <2>2, GoodStays
<1>2. Generational'
  BY DEF Steady, CoreInv, Generational
<1>3. Numbered'
  BY DEF Steady, CoreInv, Numbered, LastSeq
<1>4. DeliveredIsSentPrefix'
  BY DEF Steady, CoreInv, DeliveredIsSentPrefix
<1> QED BY <1>1, <1>2, <1>3, <1>4

\* The conjuncts about the adapter of each end hold again when only the adapter of e moved
\* and they hold for e.
LocalInv(e) ==
    /\ Live(e) =>
        /\ tx[e].acked < tx[e].unsent
        /\ tx[e].unsent <= Len(Out(e)) + 1
        /\ tx[e].frame = 0 \/ (tx[e].unsent <= Len(Out(e))
                               /\ tx[e].frame < Out(e)[tx[e].unsent].count)
        /\ rx[e].ackDue <= Len(In(e))
        /\ tx[e].bytes = LastSeq(Out(e), Len(Out(e))) - LastSeq(Out(e), tx[e].acked)
        /\ tx[e].bytes <= ReplayBufferMax
        /\ tx[e].bytes > HighWaterMark => saturated[e]
        /\ saturated[e] => tx[e].bytes > LowWaterMark
        /\ timer[e] <=> Watched(tx[e], rx[e], Out(e))
        /\ ready[e] /\ ~flushing[e] => rx[e].ackDue = 0 /\ tx[e].unsent > Len(Out(e))
    /\ fault[e] # "futureAck"
    /\ gen[e] # 0 =>
        /\ tx[e].acked <= Len(delivered[Peer(e)][gen[e]])
        /\ Len(delivered[Peer(e)][gen[e]]) <= tx[e].fullySent

LEMMA InvIsLocal ==
    (Sending /\ Acknowledging /\ AckedIsDelivered /\ BytesAreKept /\ TimerArmed /\ NothingStuck)
        <=> \A e \in Ends : LocalInv(e)
BY DEF Sending, Acknowledging, AckedIsDelivered, BytesAreKept, TimerArmed, NothingStuck, LocalInv

\* What is the same at end x.
SameAt(x) ==
    /\ gen'[x] = gen[x] /\ tx'[x] = tx[x] /\ saturated'[x] = saturated[x] /\ rx'[x] = rx[x]
    /\ flushing'[x] = flushing[x] /\ timer'[x] = timer[x] /\ fault'[x] = fault[x] /\ ready'[x] = ready[x]
    /\ reserved'[x] = reserved[x] /\ delivered'[x] = delivered[x]

LEMMA OtherEnd ==
    ASSUME NEW x \in Ends, LocalInv(x), SameAt(x),
           gen[x] # 0 => delivered'[Peer(x)][gen[x]] = delivered[Peer(x)][gen[x]]
    PROVE  LocalInv(x)'
BY DEF LocalInv, SameAt, Live, Out, In, Watched, LastSeq

LEMMA Conclude ==
    ASSUME Typed', WireGood', ControlsInOrder', Announcing', Generational', Numbered',
           DeliveredIsSentPrefix', \A x \in Ends : LocalInv(x)'
    PROVE  IInv'
BY DEF IInv, CoreInv, Sending, Acknowledging, AckedIsDelivered, BytesAreKept, TimerArmed,
       NothingStuck, LocalInv

LEMMA Locally ==
    ASSUME IInv, NEW e \in Ends
    PROVE  LocalInv(e) /\ LocalInv(Peer(e)) /\ Typed /\ CoreInv
BY InvIsLocal, TwoEnds DEF IInv, CoreInv

\* A steady step of end e: its payload may be taken or one put on the wire, the other end
\* does not move.
LEMMA SteadyStep ==
    ASSUME IInv, NEW e \in Ends, Typed', Steady, LocalInv(e)', SameAt(Peer(e)), Announcing',
           tx[e].fullySent <= tx'[e].fullySent,
           \/ wire' = wire
           \/ wire[e] # <<>> /\ Taken(e)
           \/ \E p : Put(e, p) /\ ~IsControl(p) /\ p \in Good(Peer(e))'
           \/ WireGood' /\ ControlsInOrder'
    PROVE  IInv'
<1>1. CoreInv /\ Typed /\ Peer(e) \in Ends /\ \A x \in Ends : x = e \/ x = Peer(e)
  BY Locally, TwoEnds
<1>2. ASSUME NEW x \in Ends PROVE tx[x].fullySent <= tx'[x].fullySent
  <2>1. CASE x = e
    BY <2>1
  <2>2. CASE x = Peer(e)
    <3>1. tx'[x] = tx[x] /\ tx[x] \in TxStates
      BY <1>1, <2>2 DEF SameAt, Typed
    <3> QED BY <3>1 DEF TxStates
  <2> QED BY <1>1, <2>1, <2>2
<1>3. /\ \A x \in Ends : Good(x) \subseteq Good(x)'
      /\ Generational' /\ Numbered' /\ DeliveredIsSentPrefix'
  BY <1>1, <1>2, QuietKeeps
<1>4. WireGood' /\ ControlsInOrder'
  <2>0. WireGood /\ ControlsInOrder
    BY <1>1 DEF CoreInv
  <2>1. CASE wire' = wire
    <3>1. ASSUME NEW x \in Ends PROVE wire[x] \in Seq(Good(x)')
      <4>1. wire[x] \in Seq(Good(x))
        BY <2>0 DEF WireGood
      <4>2. \A i \in 1..Len(wire[x]) : wire[x][i] \in Good(x)'
        BY <1>3, <4>1, ElementOfSeq
      <4> QED BY <4>1, <4>2, LargerSet
    <3>2. WireGood'
      BY <2>0, <2>1, <3>1 DEF WireGood
    <3>3. ControlsInOrder'
      BY <2>0, <2>1 DEF ControlsInOrder, IsControl
    <3> QED BY <3>2, <3>3
  <2>2. CASE wire[e] # <<>> /\ Taken(e)
    BY <1>3, <2>0, <2>2, WireAfterTaking
  <2>3. CASE \E p : Put(e, p) /\ ~IsControl(p) /\ p \in Good(Peer(e))'
    <3>1. PICK p : Put(e, p) /\ ~IsControl(p) /\ p \in Good(Peer(e))'
      BY <2>3
    <3> QED BY <1>3, <2>0, <3>1, WireAfterPutting
  <2>4. CASE WireGood' /\ ControlsInOrder'
    BY <2>4
  <2> QED BY <2>1, <2>2, <2>3, <2>4
<1>5. LocalInv(Peer(e))'
  BY <1>1, Locally, OtherEnd DEF Steady
<1>6. \A x \in Ends : LocalInv(x)'
  BY <1>1, <1>5
<1> QED BY <1>3, <1>4, <1>6, Conclude

\* A quiet step announces nothing.
LEMMA QuietStep ==
    ASSUME IInv, NEW e \in Ends, Typed', Quiet, LocalInv(e)', SameAt(Peer(e)),
           tx[e].fullySent <= tx'[e].fullySent,
           \/ wire' = wire
           \/ wire[e] # <<>> /\ Taken(e)
           \/ \E p : Put(e, p) /\ ~IsControl(p) /\ p \in Good(Peer(e))'
    PROVE  IInv'
<1>1. /\ CoreInv /\ WireGood /\ Announcing /\ Host \in Ends /\ Mobile \in Ends
  BY Locally, TwoEnds DEF CoreInv
<1>2. ASSUME NEW x \in Ends PROVE Inherited(x)
  <2>1. CASE wire' = wire
    BY <2>1 DEF Inherited
  <2>2. CASE wire[e] # <<>> /\ Taken(e)
    BY <1>1, <2>2, InheritedByTaking
  <2>3. CASE \E p : Put(e, p) /\ ~IsControl(p) /\ p \in Good(Peer(e))'
    <3>1. PICK p : Put(e, p) /\ ~IsControl(p) /\ p \in Good(Peer(e))'
      BY <2>3
    <3>2. p \in Payloads
      BY <3>1 DEF Good
    <3> QED BY <1>1, <3>1, <3>2, InheritedByPutting
  <2> QED BY <2>1, <2>2, <2>3
<1>3. Announcing'
  BY <1>1, <1>2, AnnouncingKept DEF Quiet, Steady
<1>4. Steady
  BY DEF Quiet
<1> QED BY <1>3, <1>4, SteadyStep

-----------------------------------------------------------------------------
(* The actions of an adapter. *)

\* The updates of the two records of an adapter.
Advanced(t, k) == [t EXCEPT !.frame = 0, !.unsent = t.unsent + 1, !.fullySent = k]
Released(t, a, n, k, b) == [t EXCEPT !.acked = a, !.unsent = n, !.frame = k, !.bytes = b]
Rewound(t) == [t EXCEPT !.unsent = t.acked + 1, !.frame = 0]
Due(r, k) == [r EXCEPT !.ackDue = k]
Staged(r, n, c) == [r EXCEPT !.expected = r.expected + 1, !.staged = n, !.count = c]
Complete(r) == [r EXCEPT !.expected = r.expected + 1, !.staged = 0]

LEMMA TxAdvanced ==
    ASSUME NEW t \in TxStates, NEW k \in Nat, NEW u, u = Advanced(t, k)
    PROVE  /\ u \in TxStates /\ u.acked = t.acked /\ u.unsent = t.unsent + 1 /\ u.frame = 0
           /\ u.fullySent = k /\ u.bytes = t.bytes
<1> DEFINE v == [t EXCEPT !.frame = 0]
           w == [v EXCEPT !.unsent = t.unsent + 1]
<1>1. v \in TxStates
  BY DEF TxStates
<1>2. u = [w EXCEPT !.fullySent = k]
  BY DEF TxStates, Advanced
<1>3. /\ u.acked = t.acked /\ u.unsent = t.unsent + 1 /\ u.frame = 0
      /\ u.fullySent = k /\ u.bytes = t.bytes
  BY DEF TxStates, Advanced
<1>4. t.unsent + 1 \in Nat \ {0}
  BY DEF TxStates
<1> HIDE DEF v
<1>5. w \in TxStates
  BY <1>1, <1>4 DEF TxStates
<1> HIDE DEF w
<1>6. u \in TxStates
  BY <1>2, <1>5 DEF TxStates
<1> QED BY <1>3, <1>6

LEMMA TxReleased ==
    ASSUME NEW t \in TxStates, NEW a \in Nat, NEW n \in Nat \ {0}, NEW k \in Nat, NEW b \in Int,
           NEW u, u = Released(t, a, n, k, b)
    PROVE  /\ u \in TxStates /\ u.acked = a /\ u.unsent = n /\ u.frame = k
           /\ u.fullySent = t.fullySent /\ u.bytes = b
<1> DEFINE v == [t EXCEPT !.acked = a]
           w == [v EXCEPT !.unsent = n]
           x == [w EXCEPT !.frame = k]
<1>1. v \in TxStates
  BY DEF TxStates
<1>2. u = [x EXCEPT !.bytes = b]
  BY DEF TxStates, Released
<1>3. /\ u.acked = a /\ u.unsent = n /\ u.frame = k
      /\ u.fullySent = t.fullySent /\ u.bytes = b
  BY DEF TxStates, Released
<1> HIDE DEF v
<1>4. w \in TxStates
  BY <1>1 DEF TxStates
<1> HIDE DEF w
<1>5. x \in TxStates
  BY <1>4 DEF TxStates
<1> HIDE DEF x
<1>6. u \in TxStates
  BY <1>2, <1>5 DEF TxStates
<1> QED BY <1>3, <1>6

LEMMA TxRewound ==
    ASSUME NEW t \in TxStates, NEW u, u = Rewound(t)
    PROVE  /\ u \in TxStates /\ u.acked = t.acked /\ u.unsent = t.acked + 1 /\ u.frame = 0
           /\ u.fullySent = t.fullySent /\ u.bytes = t.bytes
<1> DEFINE v == [t EXCEPT !.unsent = t.acked + 1]
<1>1. t.acked + 1 \in Nat \ {0}
  BY DEF TxStates
<1>2. v \in TxStates
  BY <1>1 DEF TxStates
<1>3. u = [v EXCEPT !.frame = 0]
  BY DEF TxStates, Rewound
<1>4. /\ u.acked = t.acked /\ u.unsent = t.acked + 1 /\ u.frame = 0
      /\ u.fullySent = t.fullySent /\ u.bytes = t.bytes
  BY DEF TxStates, Rewound
<1> HIDE DEF v
<1>5. u \in TxStates
  BY <1>2, <1>3 DEF TxStates
<1> QED BY <1>4, <1>5

LEMMA RxAckDue ==
    ASSUME NEW r \in RxStates, NEW k \in Nat, NEW q, q = Due(r, k)
    PROVE  q \in RxStates /\ q.ackDue = k
BY DEF RxStates, Due

LEMMA RxAdvanced ==
    ASSUME NEW r \in RxStates, NEW n \in Nat, NEW c \in Nat, NEW q,
           q = Staged(r, n, c) \/ q = Complete(r)
    PROVE  q \in RxStates /\ q.ackDue = r.ackDue
<1> DEFINE v == [r EXCEPT !.expected = r.expected + 1]
           w == [v EXCEPT !.staged = n]
           z == [v EXCEPT !.staged = 0]
<1>0. r.expected + 1 \in Nat \ {0}
  BY DEF RxStates
<1>1. v \in RxStates /\ v.ackDue = r.ackDue
  BY <1>0 DEF RxStates
<1>2. Complete(r) = z /\ Complete(r).ackDue = r.ackDue
  BY DEF RxStates, Complete
<1>3. Staged(r, n, c) = [w EXCEPT !.count = c] /\ Staged(r, n, c).ackDue = r.ackDue
  BY DEF RxStates, Staged
<1> HIDE DEF v
<1>4. w \in RxStates /\ z \in RxStates
  BY <1>1 DEF RxStates
<1> HIDE DEF w, z
<1>5. [w EXCEPT !.count = c] \in RxStates
  BY <1>4 DEF RxStates
<1> QED BY <1>2, <1>3, <1>4, <1>5

\* What the leaves below need of the state and of the payload at the head of a wire.
LEMMA Values ==
    ASSUME Typed, NEW e \in Ends
    PROVE  /\ gen[e] \in Nat /\ tx[e] \in TxStates /\ rx[e] \in RxStates
           /\ HighWaterMark \in Nat /\ LowWaterMark \in Nat /\ LowWaterMark <= HighWaterMark
           /\ ReplayBufferMax \in Nat
           /\ gen[e] # 0 => /\ gen[e] \in Generations
                            /\ Out(e) \in Seq(Messages) /\ Len(Out(e)) \in Nat
                            /\ In(e) \in Seq(Messages) /\ Len(In(e)) \in Nat
                            /\ delivered[Peer(e)][gen[e]] \in Seq(Messages)
                            /\ Len(delivered[Peer(e)][gen[e]]) \in Nat
                            /\ reserved[Peer(e)][gen[e]] \in Seq(Messages)
                            /\ Len(reserved[Peer(e)][gen[e]]) \in Nat
<1>1. gen[e] \in 0..MaxGeneration /\ tx[e] \in TxStates /\ rx[e] \in RxStates /\ Peer(e) \in Ends
  BY TwoEnds DEF Typed
<1>2. ASSUME gen[e] # 0
      PROVE  /\ gen[e] \in Generations /\ Out(e) \in Seq(Messages) /\ In(e) \in Seq(Messages)
             /\ delivered[Peer(e)][gen[e]] \in Seq(Messages)
             /\ reserved[Peer(e)][gen[e]] \in Seq(Messages)
  <2>1. gen[e] \in Generations
    BY <1>1, <1>2, RelayAssumption DEF Generations
  <2> QED BY <1>1, <2>1 DEF Typed, Out, In
<1>3. ASSUME gen[e] # 0
      PROVE  /\ Len(Out(e)) \in Nat /\ Len(In(e)) \in Nat
             /\ Len(delivered[Peer(e)][gen[e]]) \in Nat
             /\ Len(reserved[Peer(e)][gen[e]]) \in Nat
  BY <1>2, <1>3, LenProperties
<1>4. /\ HighWaterMark \in Nat /\ LowWaterMark \in Nat /\ LowWaterMark <= HighWaterMark
      /\ ReplayBufferMax \in Nat /\ gen[e] \in Nat
  BY <1>1, RelayAssumption
<1> QED BY <1>1, <1>2, <1>3, <1>4

\* What is delivered in a generation was reserved in it.
LEMMA DeliveredWasReserved ==
    ASSUME IInv, NEW e \in Ends, gen[e] # 0
    PROVE  /\ Len(delivered[Peer(e)][gen[e]]) <= Len(Out(e))
           /\ tx[e].acked <= Len(Out(e)) /\ tx[e].acked \in Nat
<1>1. Typed /\ Peer(e) \in Ends /\ Peer(Peer(e)) = e /\ LocalInv(e) /\ DeliveredIsSentPrefix
  BY Locally, TwoEnds DEF CoreInv
<1>2. gen[e] \in Generations /\ tx[e] \in TxStates /\ Len(Out(e)) \in Nat
      /\ Len(delivered[Peer(e)][gen[e]]) \in Nat
  BY <1>1, Values
<1>3. Len(delivered[Peer(e)][gen[e]]) <= Len(Out(e))
  BY <1>1, <1>2 DEF DeliveredIsSentPrefix, Out
<1>4. tx[e].acked <= Len(delivered[Peer(e)][gen[e]]) /\ tx[e].acked \in Nat
  BY <1>1, <1>2 DEF LocalInv, TxStates
<1> QED BY <1>2, <1>3, <1>4

LEMMA DegradedAdapter ==
    ASSUME IInv, NEW e \in Ends, NEW r \in Faults \ {"none", "futureAck"}, Degrade(e, r),
           UNCHANGED <<sessionVars, ready, matches, losses, dropped, unsure, buffered>>,
           attaching' \in 0..MaxGeneration
    PROVE  /\ Typed' /\ Steady /\ SameAt(Peer(e)) /\ LocalInv(e)'
           /\ tx[e].fullySent <= tx'[e].fullySent
<1>1. Typed /\ LocalInv(e) /\ Peer(e) \in Ends /\ Peer(e) # e
  BY Locally, TwoEnds
<1>2. Typed'
  <2>1. tx' \in [Ends -> TxStates]
    <3>0. tx[e] \in TxStates
      BY <1>1 DEF Typed
    <3>1. [tx[e] EXCEPT !.bytes = 0] \in TxStates
      BY <3>0 DEF TxStates
    <3>2. tx' = [tx EXCEPT ![e] = [tx[e] EXCEPT !.bytes = 0]]
      BY <1>1 DEF Typed, Degrade
    <3> QED BY <1>1, <3>1, <3>2 DEF Typed
  <2>2. rx' \in [Ends -> RxStates]
    <3>1. [rx[e] EXCEPT !.ackDue = 0, !.staged = 0] \in RxStates
      BY <1>1, ZenonT(60) DEF Typed, RxStates
    <3>2. rx' = [rx EXCEPT ![e] = [rx[e] EXCEPT !.ackDue = 0, !.staged = 0]]
      BY <1>1 DEF Typed, Degrade
    <3> QED BY <1>1, <3>1, <3>2 DEF Typed
  <2>3. /\ saturated' \in [Ends -> BOOLEAN] /\ flushing' \in [Ends -> BOOLEAN] /\ timer' \in [Ends -> BOOLEAN]
        /\ fault' \in [Ends -> Faults]
    BY <1>1 DEF Typed, Degrade
  <2> QED BY <1>1, <2>1, <2>2, <2>3 DEF Typed, sessionVars
<1>3. Steady /\ SameAt(Peer(e))
  BY <1>1 DEF Steady, SameAt, Typed, Degrade, sessionVars
<1>4. tx'[e].fullySent = tx[e].fullySent /\ tx'[e].acked = tx[e].acked /\ fault'[e] = r
      /\ tx[e].fullySent \in Nat
  BY <1>1 DEF Typed, Degrade, TxStates
<1>5. LocalInv(e)'
  BY <1>1, <1>3, <1>4 DEF LocalInv, Live, Steady
<1> QED BY <1>2, <1>3, <1>4, <1>5

LEMMA DegradeStep ==
    ASSUME IInv, NEW e \in Ends, NEW r \in Faults \ {"none", "futureAck"}, Degrade(e, r),
           UNCHANGED <<sessionVars, relayVars>>,
           wire' = wire \/ (wire[e] # <<>> /\ Taken(e))
    PROVE  IInv'
<1>1. /\ UNCHANGED <<sessionVars, ready, matches, losses, dropped, unsure, buffered>>
      /\ attaching' = attaching /\ attaching' \in 0..MaxGeneration
  BY Locally DEF relayVars, Typed
<1>2. /\ Typed' /\ Steady /\ SameAt(Peer(e)) /\ LocalInv(e)'
      /\ tx[e].fullySent <= tx'[e].fullySent
  BY <1>1, DegradedAdapter
<1>3. Quiet
  BY <1>1, <1>2 DEF Quiet
<1> QED BY <1>2, <1>3, QuietStep

LEMMA Degradations ==
    ASSUME IInv, NEW e \in Ends,
           \/ ReserveOverflows(e) \/ GraceExpires(e) \/ AssemblyExpires(e)
           \/ FaultArrives(e) \/ DeliveryFails(e)
    PROVE  IInv'
<1>1. CASE ReserveOverflows(e)
  BY <1>1, DegradeStep DEF ReserveOverflows, linkVars, Faults
<1>2. CASE GraceExpires(e)
  BY <1>2, DegradeStep DEF GraceExpires, linkVars, Faults
<1>3. CASE AssemblyExpires(e)
  BY <1>3, DegradeStep DEF AssemblyExpires, linkVars, Faults
<1>4. CASE FaultArrives(e)
  <2>1. Misplaced(e, Head(wire[e])) \in Faults \ {"none", "futureAck"}
    BY <1>4 DEF FaultArrives, Misplaced, Faults
  <2> QED BY <1>4, <2>1, DegradeStep DEF FaultArrives, ForMe, Arrives
<1>5. CASE DeliveryFails(e)
  BY <1>5, DegradeStep DEF DeliveryFails, NextFrame, ForMe, Arrives, Faults
<1> QED BY <1>1, <1>2, <1>3, <1>4, <1>5

\* Steps of the relay and payloads that are ignored leave both adapters as they are.
LEMMA AdaptersUntouched ==
    ASSUME IInv, NEW e \in Ends,
           Ignore(e) \/ Disconnect(e) \/ Lose(e)
    PROVE  IInv'
<1>1. Typed /\ LocalInv(e) /\ Peer(e) \in Ends /\ Peer(e) # e
  BY Locally, TwoEnds
<1>2. /\ UNCHANGED <<sessionVars, adapterVars>>
      /\ wire' = wire \/ (wire[e] # <<>> /\ Taken(e))
  BY DEF Ignore, Disconnect, Lose
<1>3. /\ ready' \in [Ends -> BOOLEAN] /\ ready'[Peer(e)] = ready[Peer(e)]
      /\ ready'[e] = ready[e] \/ ready'[e] = FALSE
  BY <1>1 DEF Ignore, Disconnect, Lose, relayVars, Typed
<1>4. /\ matches' \in [Ends -> 0..MaxMatches] /\ losses' \in 0..MaxLosses
      /\ dropped' \in [Ends -> BOOLEAN] /\ unsure' \in [Ends -> BOOLEAN]
  <2>1. CASE Ignore(e) \/ Disconnect(e)
    BY <1>1, <2>1 DEF Ignore, Disconnect, relayVars, Typed
  <2>2. CASE Lose(e)
    <3>1. losses' \in 0..MaxLosses /\ matches' = matches
      BY <1>1, <2>2, RelayAssumption DEF Lose, Typed
    <3>2. dropped' \in [Ends -> BOOLEAN] /\ unsure' \in [Ends -> BOOLEAN]
      BY <1>1, <2>2 DEF Lose, Typed
    <3> QED BY <1>1, <3>1, <3>2 DEF Typed
  <2> QED BY <2>1, <2>2
<1>5. Typed'
  <2>1. attaching' = attaching /\ buffered' = buffered
    BY DEF Ignore, Disconnect, Lose, relayVars
  <2> QED BY <1>1, <1>2, <1>3, <1>4, <2>1 DEF Typed, sessionVars, adapterVars
<1>6. Quiet /\ SameAt(Peer(e)) /\ tx[e].fullySent <= tx'[e].fullySent
  <2>1. tx[e].fullySent \in Nat
    BY <1>1 DEF Typed, TxStates
  <2>2. Steady /\ SameAt(Peer(e)) /\ tx[e].fullySent <= tx'[e].fullySent
    BY <1>2, <1>3, <2>1 DEF Steady, SameAt, sessionVars, adapterVars
  <2>3. ready'[Host] => ready[Host]
    BY <1>1, <1>3, TwoEnds
  <2>4. attaching' = attaching /\ buffered' = buffered
    BY DEF Ignore, Disconnect, Lose, relayVars
  <2> QED BY <2>2, <2>3, <2>4 DEF Quiet
<1>7. LocalInv(e)'
  BY <1>1, <1>2, <1>3 DEF LocalInv, Live, Out, In, Watched, LastSeq, sessionVars, adapterVars
<1> QED BY <1>2, <1>5, <1>6, <1>7, QuietStep

LEMMA SendAckStep ==
    ASSUME IInv, NEW e \in Ends, SendAck(e)
    PROVE  IInv'
<1>1. /\ Typed /\ LocalInv(e) /\ Peer(e) \in Ends /\ Peer(e) # e /\ Peer(Peer(e)) = e
      /\ Live(e) /\ gen[e] # 0
  BY Locally, TwoEnds DEF SendAck, Live
<1>2. /\ gen[e] \in Generations /\ tx[e] \in TxStates /\ rx[e] \in RxStates
      /\ Len(Out(e)) \in Nat /\ Len(In(e)) \in Nat
  BY <1>1, Values
<1>3. /\ rx'[e] = [rx[e] EXCEPT !.ackDue = 0] /\ rx'[Peer(e)] = rx[Peer(e)]
      /\ timer'[e] = (tx[e].acked < Len(Out(e))) /\ timer'[Peer(e)] = timer[Peer(e)]
      /\ rx' = [rx EXCEPT ![e] = rx'[e]]
      /\ timer' \in [Ends -> BOOLEAN]
  BY <1>1 DEF SendAck, Typed
<1>4. rx'[e] \in RxStates /\ rx'[e].ackDue = 0
  <2>1. rx'[e] = Due(rx[e], 0)
    BY <1>3 DEF Due
  <2> QED BY <1>2, <2>1, RxAckDue
<1>5. Typed'
  <2>1. rx' \in [Ends -> RxStates]
    BY <1>1, <1>3, <1>4 DEF Typed
  <2> QED BY <1>1, <1>3, <2>1 DEF Typed, SendAck, sessionVars, relayVars
<1>6. Quiet /\ SameAt(Peer(e)) /\ tx'[e] = tx[e] /\ tx[e].fullySent \in Nat
  BY <1>2, <1>3 DEF Quiet, Steady, SameAt, SendAck, sessionVars, relayVars, TxStates
<1>7. LocalInv(e)'
  <2>1. /\ Out(e)' = Out(e) /\ In(e)' = In(e) /\ Live(e)' = Live(e) /\ gen' = gen
        /\ saturated' = saturated /\ fault' = fault /\ flushing'[e] /\ delivered' = delivered
    BY DEF SendAck, Out, In, Live, sessionVars, relayVars
  <2>2. timer'[e] <=> Watched(tx'[e], rx'[e], Out(e))
    BY <1>3, <1>4, <1>6 DEF Watched
  <2> QED BY <1>1, <1>2, <1>4, <1>6, <2>1, <2>2 DEF LocalInv, Watched, Live
<1> DEFINE p == [type |-> "ack", gen |-> gen[e], upTo |-> rx[e].ackDue]
<1>8. Put(e, p) /\ ~IsControl(p)
  BY DEF SendAck, IsControl
<1>9. p \in Good(Peer(e))'
  <2>1. rx[e].ackDue \in Nat /\ rx[e].ackDue <= Len(delivered[e][gen[e]])
    BY <1>1, <1>2 DEF LocalInv, RxStates, In
  <2>2. p \in Payloads
    BY <1>2, <2>1 DEF Payloads, Acks
  <2> QED BY <1>1, <1>6, <2>1, <2>2 DEF Good, IsControl, Quiet, Steady
<1> QED BY <1>5, <1>6, <1>7, <1>8, <1>9, QuietStep

LEMMA FlushEndsStep ==
    ASSUME IInv, NEW e \in Ends, FlushEnds(e)
    PROVE  IInv'
<1>1. Typed /\ LocalInv(e) /\ Peer(e) \in Ends /\ Peer(e) # e /\ tx[e] \in TxStates
  BY Locally, TwoEnds, Values
<1>2. /\ Typed' /\ Quiet /\ SameAt(Peer(e)) /\ wire' = wire /\ tx' = tx
  BY <1>1 DEF Typed, Quiet, Steady, SameAt, FlushEnds, sessionVars, linkVars, relayVars
<1>3. LocalInv(e)'
  BY <1>1
  DEF LocalInv, Live, Out, In, Watched, LastSeq, FlushEnds, sessionVars, linkVars, relayVars, Typed
<1>4. tx[e].fullySent <= tx'[e].fullySent
  BY <1>1, <1>2 DEF TxStates
<1> QED BY <1>2, <1>3, <1>4, QuietStep

\* What is sent of a frame, and how its sender goes on.
LEMMA FrameSent ==
    ASSUME IInv, NEW e \in Ends, SendFrame(e)
    PROVE  LET t == tx[e]
               m == Out(e)[t.unsent]
               p == FrameAt(e)
           IN  /\ t.unsent \in 1..Len(Out(e)) /\ t.frame \in Nat /\ t.fullySent \in Nat
               /\ t.unsent \in Nat
               /\ m \in Messages /\ m.first \in Nat \ {0} /\ m.count \in Nat \ {0}
               /\ t.frame < m.count
               /\ p.type = "frame" /\ p.gen = gen[e] /\ p.seq = m.first + t.frame
               /\ p.message = t.unsent /\ p.index = t.frame /\ p.count = m.count /\ p \in Frames
               /\ tx'[e] \in TxStates /\ tx'[Peer(e)] = tx[Peer(e)] /\ tx' \in [Ends -> TxStates]
               /\ tx'[e].acked = t.acked /\ tx'[e].bytes = t.bytes
               /\ t.fullySent <= tx'[e].fullySent
               /\ t.frame + 1 < m.count =>
                     tx'[e].unsent = t.unsent /\ tx'[e].frame = t.frame + 1
                     /\ tx'[e].fullySent = t.fullySent
               /\ ~(t.frame + 1 < m.count) =>
                     tx'[e].unsent = t.unsent + 1 /\ tx'[e].frame = 0
                     /\ t.unsent <= tx'[e].fullySent
<1> DEFINE t == tx[e]
           m == Out(e)[t.unsent]
<1>1. /\ Typed /\ LocalInv(e) /\ Peer(e) \in Ends /\ Peer(e) # e /\ Peer(Peer(e)) = e
      /\ Live(e) /\ gen[e] # 0
  BY Locally, TwoEnds DEF SendFrame, Live
<1>2. /\ gen[e] \in Generations /\ t \in TxStates /\ rx[e] \in RxStates
      /\ Out(e) \in Seq(Messages) /\ Len(Out(e)) \in Nat /\ Len(In(e)) \in Nat
  BY <1>1, Values
<1>3. t.unsent \in 1..Len(Out(e)) /\ t.frame \in Nat /\ t.fullySent \in Nat /\ t.unsent \in Nat
  BY <1>2 DEF SendFrame, TxStates
<1>4. m \in Messages /\ m.first \in Nat \ {0} /\ m.count \in Nat \ {0}
  <2>1. m \in Messages
    BY <1>2, <1>3, ElementOfSeq
  <2> QED BY <2>1 DEF Messages
<1>5. t.frame < m.count
  BY <1>1, <1>3, <1>4 DEF LocalInv
<1>0. PICK p : p = FrameAt(e)
  OBVIOUS
<1>6. /\ p.type = "frame" /\ p.gen = gen[e] /\ p.seq = m.first + t.frame
      /\ p.message = t.unsent /\ p.index = t.frame /\ p.count = m.count /\ p \in Frames
  BY <1>0, <1>2, <1>3, <1>4 DEF FrameAt, Frames
<1>7. /\ tx'[e] \in TxStates /\ tx'[Peer(e)] = tx[Peer(e)] /\ tx' \in [Ends -> TxStates]
      /\ tx'[e].acked = t.acked /\ tx'[e].bytes = t.bytes
      /\ t.fullySent <= tx'[e].fullySent
      /\ t.frame + 1 < m.count =>
            tx'[e].unsent = t.unsent /\ tx'[e].frame = t.frame + 1 /\ tx'[e].fullySent = t.fullySent
      /\ ~(t.frame + 1 < m.count) =>
            tx'[e].unsent = t.unsent + 1 /\ tx'[e].frame = 0 /\ t.unsent <= tx'[e].fullySent
  <2>1. CASE t.frame + 1 < m.count
    <3>1. tx' = [tx EXCEPT ![e] = [t EXCEPT !.frame = t.frame + 1]]
      BY <2>1 DEF SendFrame
    <3>2. [t EXCEPT !.frame = t.frame + 1] \in TxStates
      BY <1>2, <1>3, SMTT(30) DEF TxStates
    <3>3. /\ tx'[e] = [t EXCEPT !.frame = t.frame + 1] /\ tx'[Peer(e)] = tx[Peer(e)]
          /\ tx' \in [Ends -> TxStates]
      BY <1>1, <3>1, <3>2 DEF Typed
    <3>4. /\ tx'[e].acked = t.acked /\ tx'[e].bytes = t.bytes /\ tx'[e].fullySent = t.fullySent
          /\ tx'[e].unsent = t.unsent /\ tx'[e].frame = t.frame + 1
      BY <1>2, <3>3 DEF TxStates
    <3> QED BY <1>3, <2>1, <3>2, <3>3, <3>4
  <2>2. CASE ~(t.frame + 1 < m.count)
    <3>1. PICK k : k = IF t.fullySent < t.unsent THEN t.unsent ELSE t.fullySent
      OBVIOUS
    <3>2. k \in Nat /\ t.fullySent <= k /\ t.unsent <= k
      BY <1>3, <3>1
    <3>3. PICK u : u = Advanced(t, k)
      OBVIOUS
    <3>5. /\ u \in TxStates /\ u.acked = t.acked /\ u.unsent = t.unsent + 1 /\ u.frame = 0
          /\ u.fullySent = k /\ u.bytes = t.bytes
      <4>1. tx[e] \in TxStates
        BY <1>2
      <4>2. u = Advanced(tx[e], k) /\ t = tx[e]
        BY <3>3
      <4> HIDE DEF t
      <4>3. /\ u \in TxStates /\ u.acked = tx[e].acked /\ u.unsent = tx[e].unsent + 1
            /\ u.frame = 0 /\ u.fullySent = k /\ u.bytes = tx[e].bytes
        BY <3>2, <4>1, <4>2, TxAdvanced, SMTT(60)
      <4> QED BY <4>2, <4>3
    <3>6. tx' = [tx EXCEPT ![e] = u]
      BY <2>2, <3>1, <3>3 DEF SendFrame, Advanced
    <3>4. tx'[e] = u /\ tx'[Peer(e)] = tx[Peer(e)] /\ tx' \in [Ends -> TxStates]
      BY <1>1, <3>5, <3>6 DEF Typed
    <3> QED BY <2>2, <3>2, <3>4, <3>5
  <2> QED BY <2>1, <2>2
<1> QED BY <1>0, <1>3, <1>4, <1>5, <1>6, <1>7

LEMMA SendFrameStep ==
    ASSUME IInv, NEW e \in Ends, SendFrame(e)
    PROVE  IInv'
<1> DEFINE t == tx[e]
           m == Out(e)[t.unsent]
<1>1. /\ Typed /\ LocalInv(e) /\ Peer(e) \in Ends /\ Peer(e) # e /\ Peer(Peer(e)) = e
      /\ Live(e) /\ gen[e] # 0
  BY Locally, TwoEnds DEF SendFrame, Live
<1>2. /\ gen[e] \in Generations /\ t \in TxStates /\ rx[e] \in RxStates
      /\ Out(e) \in Seq(Messages) /\ Len(Out(e)) \in Nat /\ Len(In(e)) \in Nat
  BY <1>1, Values
<1>0. PICK p : p = FrameAt(e)
  OBVIOUS
<1>3. t.unsent \in 1..Len(Out(e)) /\ t.frame \in Nat /\ t.fullySent \in Nat /\ t.unsent \in Nat
  BY FrameSent
<1>4. m \in Messages /\ m.first \in Nat \ {0} /\ m.count \in Nat \ {0}
  BY FrameSent
<1>5. t.frame < m.count
  BY FrameSent
<1>6. /\ p.type = "frame" /\ p.gen = gen[e] /\ p.seq = m.first + t.frame
      /\ p.message = t.unsent /\ p.index = t.frame /\ p.count = m.count /\ p \in Frames
  BY <1>0, FrameSent
<1>7. /\ tx'[e] \in TxStates /\ tx'[Peer(e)] = tx[Peer(e)] /\ tx' \in [Ends -> TxStates]
      /\ tx'[e].acked = t.acked /\ tx'[e].bytes = t.bytes
      /\ t.fullySent <= tx'[e].fullySent
      /\ t.frame + 1 < m.count =>
            tx'[e].unsent = t.unsent /\ tx'[e].frame = t.frame + 1 /\ tx'[e].fullySent = t.fullySent
      /\ ~(t.frame + 1 < m.count) =>
            tx'[e].unsent = t.unsent + 1 /\ tx'[e].frame = 0 /\ t.unsent <= tx'[e].fullySent
  BY FrameSent
<1>8. /\ Quiet /\ SameAt(Peer(e)) /\ rx' = rx /\ timer' = timer /\ flushing' = flushing
      /\ saturated' = saturated /\ fault' = fault /\ ready' = ready
  BY <1>7 DEF Quiet, Steady, SameAt, SendFrame, sessionVars, relayVars
<1>9. Typed'
  BY <1>1, <1>7 DEF Typed, SendFrame, sessionVars, relayVars
<1>10. LocalInv(e)'
  <2>1. Out(e)' = Out(e) /\ In(e)' = In(e) /\ Live(e)' = Live(e)
    BY <1>8 DEF Quiet, Steady, Out, In, Live
  <2>2. /\ tx'[e].acked < tx'[e].unsent /\ tx'[e].unsent <= Len(Out(e)) + 1
        /\ tx'[e].frame = 0 \/ (tx'[e].unsent <= Len(Out(e))
                                /\ tx'[e].frame < Out(e)[tx'[e].unsent].count)
    <3>1. t.acked \in Nat /\ t.acked < t.unsent
      BY <1>1, <1>2 DEF LocalInv, TxStates
    <3> QED BY <1>2, <1>3, <1>7, <3>1
  <2>3. /\ rx'[e].ackDue <= Len(In(e))
        /\ tx'[e].bytes = LastSeq(Out(e), Len(Out(e))) - LastSeq(Out(e), tx'[e].acked)
        /\ tx'[e].bytes <= ReplayBufferMax
        /\ tx'[e].bytes > HighWaterMark => saturated'[e]
        /\ saturated'[e] => tx'[e].bytes > LowWaterMark
        /\ timer'[e] <=> Watched(tx'[e], rx'[e], Out(e))
        /\ flushing'[e]
    BY <1>1, <1>7, <1>8 DEF LocalInv, Watched, SendFrame
  <2>4. /\ fault'[e] # "futureAck"
        /\ tx'[e].acked <= Len(delivered'[Peer(e)][gen'[e]])
        /\ Len(delivered'[Peer(e)][gen'[e]]) <= tx'[e].fullySent
    <3>1. /\ t.acked <= Len(delivered[Peer(e)][gen[e]])
          /\ Len(delivered[Peer(e)][gen[e]]) <= t.fullySent
          /\ Len(delivered[Peer(e)][gen[e]]) \in Nat
      BY <1>1, Values DEF LocalInv
    <3>2. tx'[e].fullySent \in Nat
      BY <1>7 DEF TxStates
    <3> QED BY <1>1, <1>3, <1>7, <1>8, <3>1, <3>2 DEF LocalInv, Quiet, Steady
  <2> QED BY <2>1, <2>2, <2>3, <2>4 DEF LocalInv, Watched, Live
<1>11. p \in Good(Peer(e))'
  <2>1. /\ p.gen <= gen'[e] /\ p.message <= Len(reserved'[e][p.gen])
        /\ p.seq = reserved'[e][p.gen][p.message].first + p.index
        /\ p.count = reserved'[e][p.gen][p.message].count /\ p.index < p.count
    <3>1. reserved'[e][p.gen] = Out(e) /\ gen'[e] = gen[e] /\ gen[e] \in Nat
      BY <1>1, <1>6, <1>8, Values DEF Quiet, Steady, Out
    <3> QED BY <1>3, <1>5, <1>6, <3>1
  <2>2. p.index + 1 = p.count => p.message <= tx'[e].fullySent
    BY <1>3, <1>4, <1>6, <1>7
  <2>3. GoodFrame(Peer(e), p)'
    BY <1>1, <2>1, <2>2 DEF GoodFrame
  <2> QED BY <1>6, <2>3 DEF Good, Payloads, IsControl
<1>12. Put(e, p) /\ ~IsControl(p)
  BY <1>0, <1>6 DEF SendFrame, IsControl
<1> QED BY <1>7, <1>8, <1>9, <1>10, <1>11, <1>12, QuietStep

LEMMA Joined ==
    ASSUME NEW S, NEW s \in Seq(S), NEW t \in Seq(S)
    PROVE  /\ s \o t \in Seq(S) /\ Len(s \o t) = Len(s) + Len(t)
           /\ Len(s) \in Nat /\ Len(t) \in Nat
           /\ \A i \in 1..Len(s) : (s \o t)[i] = s[i]
           /\ \A i \in 1..Len(t) : (s \o t)[Len(s) + i] = t[i]
           /\ \A i \in 1..Len(s \o t) : i \in 1..Len(s) \/ \E k \in 1..Len(t) : i = Len(s) + k
<1>1. /\ s \o t \in Seq(S) /\ Len(s \o t) = Len(s) + Len(t)
      /\ Len(s) \in Nat /\ Len(t) \in Nat
      /\ \A i \in 1..Len(s) + Len(t) : (s \o t)[i] = IF i <= Len(s) THEN s[i] ELSE t[i - Len(s)]
  BY ConcatProperties, LenProperties
<1>2. PICK w : w = s \o t
  OBVIOUS
<1>3. PICK m \in Nat, n \in Nat : m = Len(s) /\ n = Len(t)
  BY <1>1
<1>4. \A i \in 1..m + n : w[i] = IF i <= m THEN s[i] ELSE t[i - m]
  BY <1>1, <1>2, <1>3
<1>5. /\ \A i \in 1..m : w[i] = s[i]
      /\ \A i \in 1..n : w[m + i] = t[i]
  <2>1. ASSUME NEW i \in 1..m PROVE w[i] = s[i]
    <3>1. i \in 1..m + n /\ i <= m
      OBVIOUS
    <3> QED BY ONLY <1>4, <3>1
  <2>2. ASSUME NEW i \in 1..n PROVE w[m + i] = t[i]
    <3>1. m + i \in 1..m + n /\ ~(m + i <= m) /\ (m + i) - m = i
      OBVIOUS
    <3> QED BY ONLY <1>4, <3>1
  <2> QED BY <2>1, <2>2
<1>6. ASSUME NEW i \in 1..m + n PROVE i \in 1..m \/ \E k \in 1..n : i = m + k
  <2>1. CASE i <= m
    BY <2>1
  <2>2. CASE ~(i <= m)
    <3>1. i - m \in 1..n /\ i = m + (i - m)
      BY <2>2
    <3> QED BY ONLY <3>1
  <2> QED BY <2>1, <2>2
<1> QED BY <1>1, <1>2, <1>3, <1>5, <1>6

\* The announcements that waited follow what is under way, and none waits any more.
LEMMA FlushBufferedKeeps ==
    ASSUME IInv, FlushBuffered(Host), attaching' = attaching, gen' = gen, asked' = asked,
           \A x \in Ends : Good(x) \subseteq Good(x)'
    PROVE  WireGood' /\ ControlsInOrder' /\ Announcing'
<1>1. /\ Typed /\ WireGood /\ ControlsInOrder /\ Announcing
      /\ Host \in Ends /\ Mobile \in Ends /\ Host # Mobile
      /\ \A x \in Ends : x = Mobile \/ x = Host
  BY Locally, TwoEnds DEF CoreInv
<1>2. PICK w : w = wire[Mobile] \o buffered
  OBVIOUS
<1>3. PICK b : b = buffered
  OBVIOUS
<1>4. PICK u : u = wire[Mobile]
  OBVIOUS
<1>5. u \in Seq(Good(Mobile)) /\ wire \in [Ends -> Seq(Payloads)]
  BY <1>1, <1>4 DEF WireGood
<1>6. b \in Seq(Good(Mobile))
  <2>1. ASSUME NEW j \in 1..Len(b) PROVE b[j] \in Good(Mobile)
    <3>1. b[j] \in Controls
      BY <1>1, <1>3, <2>1, ElementOfSeq DEF Typed
    <3>2. b[j].type = "opened" /\ gen[Mobile] < b[j].gen /\ b[j].gen <= gen[Host]
      BY <1>1, <1>3, <2>1 DEF Announcing
    <3> QED BY <1>1, <3>1, <3>2 DEF Good, GoodControl, IsControl, Payloads
  <2> QED BY <1>1, <1>3, <2>1, LargerSet DEF Typed
<1>7. /\ w \in Seq(Good(Mobile)) /\ Len(w) = Len(u) + Len(b) /\ Len(u) \in Nat /\ Len(b) \in Nat
      /\ \A i \in 1..Len(u) : w[i] = u[i]
      /\ \A i \in 1..Len(b) : w[Len(u) + i] = b[i]
      /\ \A i \in 1..Len(w) : i \in 1..Len(u) \/ \E k \in 1..Len(b) : i = Len(u) + k
  BY <1>2, <1>3, <1>4, <1>5, <1>6, Joined
<1>8. w \in Seq(Payloads)
  <2>1. \A i \in 1..Len(w) : w[i] \in Payloads
    BY <1>7, ElementOfSeq DEF Good
  <2> QED BY <1>7, <2>1, LargerSet
<1>9. /\ wire' \in [Ends -> Seq(Payloads)] /\ wire'[Mobile] = w /\ wire'[Host] = wire[Host]
      /\ buffered' = <<>>
  BY <1>1, <1>2, <1>5, <1>8 DEF FlushBuffered
<1>10. WireGood'
  <2>1. w \in Seq(Good(Mobile)')
    <3>1. \A i \in 1..Len(w) : w[i] \in Good(Mobile)'
      BY <1>1, <1>7, ElementOfSeq
    <3> QED BY <1>7, <3>1, LargerSet
  <2>2. wire[Host] \in Seq(Good(Host)')
    <3>1. wire[Host] \in Seq(Good(Host))
      BY <1>1 DEF WireGood
    <3>2. \A i \in 1..Len(wire[Host]) : wire[Host][i] \in Good(Host)'
      BY <1>1, <3>1, ElementOfSeq
    <3> QED BY <3>1, <3>2, LargerSet
  <2> QED BY <1>1, <1>9, <2>1, <2>2 DEF WireGood
<1>11. ASSUME NEW i \in 1..Len(w), NEW j \in 1..Len(w), i < j, IsControl(w[i]), IsControl(w[j])
       PROVE  w[i].gen < w[j].gen
  <2>1. CASE j \in 1..Len(u)
    <3>1. i \in 1..Len(u)
      BY <1>7, <1>11, <2>1
    <3> QED BY <1>1, <1>4, <1>7, <1>11, <2>1, <3>1 DEF ControlsInOrder
  <2>2. ASSUME NEW k \in 1..Len(b), j = Len(u) + k PROVE w[i].gen < w[j].gen
    <3>1. w[j] = b[k]
      BY <1>7, <2>2
    <3>2. CASE i \in 1..Len(u)
      BY <1>1, <1>3, <1>4, <1>7, <1>11, <2>2, <3>1, <3>2 DEF Announcing
    <3>3. ASSUME NEW h \in 1..Len(b), i = Len(u) + h PROVE w[i].gen < w[j].gen
      <4>0. w[i] = b[h]
        BY ONLY <1>7, <3>3
      <4>01. h < k
        <5>1. Len(u) \in Nat /\ h \in Nat /\ k \in Nat /\ i = Len(u) + h /\ j = Len(u) + k /\ i < j
          BY <1>7, <1>11, <2>2, <3>3
        <5> QED BY ONLY <5>1
      <4>1. w[i] = b[h] /\ h < k
        BY <4>0, <4>01
      <4>2. b[h].gen < b[k].gen
        BY ONLY <1>1, <1>3, <2>2, <3>3, <4>1 DEF Announcing
      <4> QED BY ONLY <3>1, <4>1, <4>2
    <3> QED BY <1>7, <1>11, <3>2, <3>3
  <2> QED BY <1>7, <1>11, <2>1, <2>2
<1>12. ControlsInOrder'
  BY <1>1, <1>9, <1>11 DEF ControlsInOrder, IsControl
<1>13. Announcing'
  <2>1. Len(<<>>) = 0
    BY EmptySeq
  <2> QED BY <1>1, <1>9, <2>1 DEF Announcing, IsControl
<1> QED BY <1>10, <1>12, <1>13

\* The wire is as it was, but for the announcements that waited.
LEMMA ReadyStep ==
    ASSUME IInv, NEW e \in Ends, SendReady(e), Typed', Steady, LocalInv(e)', SameAt(Peer(e)),
           tx[e].fullySent <= tx'[e].fullySent
    PROVE  IInv'
<1>1. /\ Typed /\ CoreInv /\ Host \in Ends /\ Mobile \in Ends /\ Host # Mobile
      /\ Peer(Host) = Mobile /\ Peer(Mobile) = Host /\ \A x \in Ends : x = e \/ x = Peer(e)
  BY Locally, TwoEnds
<1>2. FlushBuffered(e) /\ attaching' = attaching
  BY DEF SendReady
<1>3. CASE e = Host
  <2>1. ASSUME NEW x \in Ends PROVE tx[x].fullySent <= tx'[x].fullySent
    <3>1. CASE x = e
      BY <3>1
    <3>2. CASE x = Peer(e)
      <4>1. tx'[x] = tx[x] /\ tx[x] \in TxStates
        BY <1>1, <3>2 DEF SameAt, Typed
      <4> QED BY <4>1 DEF TxStates
    <3> QED BY <1>1, <3>1, <3>2
  <2>2. \A x \in Ends : Good(x) \subseteq Good(x)'
    BY <1>1, <2>1, QuietKeeps
  <2>3. gen' = gen /\ asked' = asked
    BY DEF Steady
  <2>4. WireGood' /\ ControlsInOrder' /\ Announcing'
    BY <1>2, <1>3, <2>2, <2>3, FlushBufferedKeeps
  <2> QED BY <2>4, SteadyStep
<1>4. CASE e = Mobile
  <2>1. wire' = wire /\ buffered' = buffered
    BY <1>1, <1>2, <1>4 DEF FlushBuffered
  <2>2. ready'[Host] = ready[Host]
    BY <1>1, <1>4 DEF SameAt
  <2>3. Quiet
    BY <1>2, <2>1, <2>2 DEF Quiet
  <2> QED BY <2>1, <2>3, QuietStep
<1> QED BY <1>3, <1>4 DEF Ends

LEMMA SendReadyStep ==
    ASSUME IInv, NEW e \in Ends, SendReady(e)
    PROVE  IInv'
<1>1. Typed /\ LocalInv(e) /\ Peer(e) \in Ends /\ Peer(e) # e /\ tx[e] \in TxStates
  BY Locally, TwoEnds, Values
<1>2. tx[e].fullySent \in Nat
  BY <1>1 DEF TxStates
<1>3. /\ matches' \in [Ends -> 0..MaxMatches] /\ ready' \in [Ends -> BOOLEAN]
      /\ unsure' \in [Ends -> BOOLEAN] /\ ready'[Peer(e)] = ready[Peer(e)]
  BY <1>1, RelayAssumption, SMTT(30) DEF SendReady, Typed
<1>4. /\ UNCHANGED <<sessionVars, saturated, rx, timer, fault, losses, dropped, attaching>>
      /\ Steady /\ Out(e)' = Out(e) /\ In(e)' = In(e) /\ Live(e)' = Live(e)
  BY DEF SendReady, Steady, sessionVars, Out, In, Live
<1>0. buffered' \in Seq(Controls)
  BY <1>1, EmptySeq DEF SendReady, FlushBuffered, Typed
<1>5. CASE ~Live(e)
  <2>1. tx' = tx /\ flushing' = flushing
    BY <1>5 DEF SendReady
  <2>2. Typed' /\ SameAt(Peer(e)) /\ tx[e].fullySent <= tx'[e].fullySent
    BY <1>0, <1>1, <1>2, <1>3, <1>4, <2>1 DEF Typed, SameAt, sessionVars
  <2>3. LocalInv(e)'
    BY <1>1, <1>4, <1>5, <2>1 DEF LocalInv, Steady
  <2> QED BY <1>4, <2>2, <2>3, ReadyStep
<1>6. CASE Live(e)
  <2>0. gen[e] # 0 /\ tx[e].acked \in Nat /\ Len(Out(e)) \in Nat
    BY <1>1, <1>6, Values DEF Live, TxStates
  <2>1. PICK u : u = Rewound(tx[e])
    OBVIOUS
  <2>2. /\ u \in TxStates /\ u.acked = tx[e].acked /\ u.unsent = tx[e].acked + 1
        /\ u.frame = 0 /\ u.fullySent = tx[e].fullySent /\ u.bytes = tx[e].bytes
    BY <1>1, <2>1, TxRewound
  <2>3. tx' = [tx EXCEPT ![e] = u] /\ flushing' = [flushing EXCEPT ![e] = TRUE]
    BY <1>6, <2>1 DEF SendReady, Rewound
  <2>4. /\ tx' \in [Ends -> TxStates] /\ tx'[e] = u /\ tx'[Peer(e)] = tx[Peer(e)]
        /\ flushing' \in [Ends -> BOOLEAN] /\ flushing'[e] /\ flushing'[Peer(e)] = flushing[Peer(e)]
    BY <1>1, <2>2, <2>3 DEF Typed
  <2>5. Typed' /\ SameAt(Peer(e)) /\ tx[e].fullySent <= tx'[e].fullySent
    BY <1>0, <1>1, <1>2, <1>3, <1>4, <2>2, <2>4 DEF Typed, SameAt, sessionVars
  <2>6. tx[e].acked <= Len(Out(e))
    BY <2>0, DeliveredWasReserved
  <2>7. LocalInv(e)'
    BY <1>1, <1>4, <1>6, <2>0, <2>2, <2>4, <2>6 DEF LocalInv, Steady, Watched
  <2> QED BY <1>4, <2>5, <2>7, ReadyStep
<1> QED BY <1>5, <1>6

\* A frame, and what it shows of the other end's messages.
LEMMA FrameTaken ==
    ASSUME IInv, NEW e \in Ends, ForMe(e, "frame")
    PROVE  LET p == Head(wire[e])
               r == reserved[Peer(e)][gen[e]]
           IN  /\ wire[e] # <<>> /\ Live(e) /\ gen[e] # 0 /\ p.gen = gen[e]
               /\ p \in Frames /\ p.message \in 1..Len(r)
               /\ p.seq - p.index = r[p.message].first /\ p.count = r[p.message].count
               /\ p.index < p.count
               /\ gen[Peer(e)] = gen[e] /\ p.index + 1 = p.count => p.message <= tx[Peer(e)].fullySent
<1> DEFINE hd == Head(wire[e])
           rs == reserved[Peer(e)][gen[e]]
<1>1. wire[e] # <<>> /\ hd.type = "frame" /\ Live(e) /\ gen[e] # 0 /\ hd.gen = gen[e]
  BY DEF ForMe, Arrives, Live
<1>2. Typed /\ WireGood
  BY Locally DEF CoreInv
<1>3. hd \in Good(e) /\ hd \in Payloads
  BY <1>1, <1>2, HeadIsGood
<1>4. hd \in Frames
  BY <1>1, <1>3 DEF Payloads, Frames, Acks, Controls
<1>5. hd.message \in Nat \ {0} /\ hd.index \in Nat
  BY <1>4 DEF Frames
<1>6. GoodFrame(e, hd)
  BY <1>1, <1>3 DEF Good
<1>7. /\ hd.message <= Len(rs) /\ hd.seq = rs[hd.message].first + hd.index
      /\ hd.count = rs[hd.message].count /\ hd.index < hd.count
      /\ gen[Peer(e)] = gen[e] /\ hd.index + 1 = hd.count => hd.message <= tx[Peer(e)].fullySent
  BY <1>1, <1>6 DEF GoodFrame
<1>8. rs \in Seq(Messages) /\ Len(rs) \in Nat
  BY <1>1, <1>2, Values
<1>9. hd.message \in 1..Len(rs)
  BY <1>5, <1>7, <1>8
<1>10. rs[hd.message].first \in Nat
  <2>1. rs[hd.message] \in Messages
    BY <1>8, <1>9, ElementOfSeq
  <2> QED BY <2>1 DEF Messages
<1>11. hd.seq - hd.index = rs[hd.message].first
  BY <1>5, <1>7, <1>10, SMTT(30)
<1> HIDE DEF hd, rs
<1>12. /\ wire[e] # <<>> /\ Live(e) /\ gen[e] # 0 /\ hd.gen = gen[e]
       /\ hd \in Frames /\ hd.message \in 1..Len(rs)
       /\ hd.seq - hd.index = rs[hd.message].first /\ hd.count = rs[hd.message].count
       /\ hd.index < hd.count
       /\ gen[Peer(e)] = gen[e] /\ hd.index + 1 = hd.count => hd.message <= tx[Peer(e)].fullySent
  BY <1>1, <1>4, <1>7, <1>9, <1>11
<1> QED BY <1>12 DEF hd, rs

LEMMA FragmentArrivesStep ==
    ASSUME IInv, NEW e \in Ends, FragmentArrives(e)
    PROVE  IInv'
<1>1. /\ Typed /\ LocalInv(e) /\ Peer(e) \in Ends /\ Peer(e) # e
      /\ tx[e] \in TxStates /\ rx[e] \in RxStates
  BY Locally, TwoEnds, Values
<1>2. ForMe(e, "frame") /\ wire[e] # <<>> /\ Taken(e)
  BY DEF FragmentArrives, NextFrame, ForMe, Arrives
<1>3. Head(wire[e]).count \in Nat
  BY <1>2, FrameTaken DEF Frames
<1>4. PICK q : q = Staged(rx[e], rx[e].staged + 1, Head(wire[e]).count)
  OBVIOUS
<1>5. q \in RxStates /\ q.ackDue = rx[e].ackDue
  <2>1. rx[e].staged + 1 \in Nat
    BY <1>1 DEF RxStates
  <2> QED BY <1>1, <1>3, <1>4, <2>1, RxAdvanced
<1>6. rx' = [rx EXCEPT ![e] = q]
  BY <1>4 DEF FragmentArrives, Staged
<1>7. rx' \in [Ends -> RxStates] /\ rx'[e].ackDue = rx[e].ackDue /\ rx'[Peer(e)] = rx[Peer(e)]
  BY <1>1, <1>5, <1>6 DEF Typed
<1>8. UNCHANGED <<sessionVars, tx, saturated, flushing, timer, fault, relayVars>>
  BY DEF FragmentArrives
<1>90. Quiet
  BY <1>8 DEF Quiet, Steady, sessionVars, relayVars
<1>91. tx[e].fullySent <= tx'[e].fullySent
  BY <1>1, <1>8 DEF TxStates
<1>9. Typed' /\ SameAt(Peer(e))
  BY <1>1, <1>7, <1>8, SMTT(30) DEF Typed, SameAt, sessionVars, relayVars
<1>10. LocalInv(e)'
  BY <1>1, <1>7, <1>8 DEF LocalInv, Live, Out, In, Watched, LastSeq, sessionVars, relayVars
<1> QED BY <1>2, <1>9, <1>90, <1>91, <1>10, QuietStep

LEMMA DuplicateArrivesStep ==
    ASSUME IInv, NEW e \in Ends, DuplicateArrives(e)
    PROVE  IInv'
<1>1. /\ Typed /\ LocalInv(e) /\ Peer(e) \in Ends /\ Peer(e) # e
      /\ tx[e] \in TxStates /\ rx[e] \in RxStates
  BY Locally, TwoEnds, Values
<1>2. wire[e] # <<>> /\ Taken(e) /\ Live(e) /\ gen[e] # 0
  BY DEF DuplicateArrives, ForMe, Arrives, Live
<1>3. UNCHANGED <<sessionVars, tx, saturated, fault, relayVars>>
  BY DEF DuplicateArrives
<1>4. Len(In(e)) \in Nat
  BY <1>1, <1>2, Values
<1>5. Quiet /\ tx[e].fullySent <= tx'[e].fullySent
  BY <1>1, <1>3 DEF Quiet, Steady, sessionVars, relayVars, TxStates
<1>6. CASE ~(Len(In(e)) > 0)
  <2>1. rx' = rx /\ timer' = timer /\ flushing' = flushing
    BY <1>6 DEF DuplicateArrives
  <2>2. Typed' /\ SameAt(Peer(e))
    BY <1>1, <1>3, <2>1 DEF Typed, SameAt, sessionVars, relayVars
  <2>3. LocalInv(e)'
    BY <1>1, <1>3, <2>1 DEF LocalInv, Live, Out, In, Watched, LastSeq, sessionVars, relayVars
  <2> QED BY <1>2, <1>5, <2>2, <2>3, QuietStep
<1>7. CASE Len(In(e)) > 0
  <2>1. PICK k : k = IF rx[e].ackDue < Len(In(e)) THEN Len(In(e)) ELSE rx[e].ackDue
    OBVIOUS
  <2>2. k \in Nat /\ k # 0 /\ k <= Len(In(e))
    <3>1. rx[e].ackDue \in Nat /\ rx[e].ackDue <= Len(In(e))
      BY <1>1, <1>2 DEF RxStates, LocalInv
    <3> QED BY <1>4, <1>7, <2>1, <3>1
  <2>3. PICK q : q = Due(rx[e], k)
    OBVIOUS
  <2>4. q \in RxStates /\ q.ackDue = k
    BY <1>1, <2>2, <2>3, RxAckDue
  <2>5. /\ rx' = [rx EXCEPT ![e] = q] /\ timer' = [timer EXCEPT ![e] = TRUE]
        /\ flushing' = [flushing EXCEPT ![e] = TRUE]
    BY <1>7, <2>1, <2>3 DEF DuplicateArrives, AckQueued, Due
  <2>6. /\ rx' \in [Ends -> RxStates] /\ rx'[e] = q /\ rx'[Peer(e)] = rx[Peer(e)]
        /\ timer' \in [Ends -> BOOLEAN] /\ timer'[e] /\ timer'[Peer(e)] = timer[Peer(e)]
        /\ flushing' \in [Ends -> BOOLEAN] /\ flushing'[e] /\ flushing'[Peer(e)] = flushing[Peer(e)]
    BY <1>1, <2>4, <2>5 DEF Typed
  <2>7. Typed' /\ SameAt(Peer(e))
    BY <1>1, <1>3, <2>6 DEF Typed, SameAt, sessionVars, relayVars
  <2>8. Out(e)' = Out(e) /\ In(e)' = In(e) /\ Live(e)' = Live(e)
    BY <1>3 DEF Out, In, Live, sessionVars
  <2>9. LocalInv(e)'
    BY <1>1, <1>2, <1>3, <2>2, <2>4, <2>6, <2>8 DEF LocalInv, Watched, sessionVars
  <2> QED BY <1>2, <1>5, <2>7, <2>9, QuietStep
<1> QED BY <1>6, <1>7

\* The number acknowledged was delivered, and so was sent in full.
LEMMA AckArrivesStep ==
    ASSUME IInv, NEW e \in Ends, AckArrives(e)
    PROVE  IInv'
<1>1. /\ Typed /\ LocalInv(e) /\ Peer(e) \in Ends /\ Peer(e) # e /\ Peer(Peer(e)) = e
      /\ WireGood /\ Numbered /\ tx[e] \in TxStates /\ rx[e] \in RxStates
      /\ LowWaterMark \in Nat /\ HighWaterMark \in Nat /\ ReplayBufferMax \in Nat
  BY Locally, TwoEnds, Values DEF CoreInv
<1>2. wire[e] # <<>> /\ Taken(e) /\ Live(e) /\ gen[e] # 0
  BY DEF AckArrives, ForMe, Arrives, Live
<1>3. /\ gen[e] \in Generations /\ Out(e) \in Seq(Messages) /\ Len(Out(e)) \in Nat
      /\ Len(delivered[Peer(e)][gen[e]]) \in Nat
  BY <1>1, <1>2, Values
<1>4. PICK a : a = Head(wire[e]).upTo
  OBVIOUS
<1>5. a \in Nat /\ a <= Len(delivered[Peer(e)][gen[e]])
  <2>1. Head(wire[e]).type = "ack" /\ Head(wire[e]).gen = gen[e]
    BY DEF AckArrives, ForMe, Arrives
  <2>2. Head(wire[e]) \in Good(e) /\ Head(wire[e]) \in Payloads
    BY <1>1, <1>2, HeadIsGood
  <2> QED BY <1>4, <2>1, <2>2 DEF Good, Payloads, Frames, Acks, Controls
<1>6. /\ Len(delivered[Peer(e)][gen[e]]) <= Len(Out(e))
      /\ tx[e].acked <= Len(Out(e)) /\ tx[e].acked \in Nat
  BY <1>2, DeliveredWasReserved
<1>7. a <= tx[e].fullySent /\ a <= Len(Out(e)) /\ tx[e].fullySent \in Nat
  <2>1. tx[e].fullySent \in Nat
    BY <1>1 DEF TxStates
  <2>2. Len(delivered[Peer(e)][gen[e]]) <= tx[e].fullySent
    BY <1>1, <1>2 DEF LocalInv
  <2> QED BY <1>3, <1>5, <1>6, <2>1, <2>2
<1>8. Quiet /\ UNCHANGED <<sessionVars, relayVars>>
  <2>1. UNCHANGED <<sessionVars, relayVars>>
    BY DEF AckArrives
  <2> QED BY <2>1 DEF Quiet, Steady, sessionVars, relayVars
<1>9. Out(e)' = Out(e) /\ In(e)' = In(e)
  BY <1>8 DEF Out, In, Quiet, Steady
<1>10. CASE a <= tx[e].acked
  <2>1. UNCHANGED adapterVars
    BY <1>4, <1>5, <1>6, <1>10 DEF AckArrives
  <2>2. Typed' /\ SameAt(Peer(e)) /\ tx[e].fullySent <= tx'[e].fullySent
    BY <1>1, <1>7, <1>8, <2>1 DEF Typed, SameAt, sessionVars, relayVars, adapterVars
  <2>3. LocalInv(e)'
    BY <1>1, <1>8, <1>9, <2>1 DEF LocalInv, Live, Watched, sessionVars, relayVars, adapterVars
  <2> QED BY <1>2, <1>8, <2>2, <2>3, QuietStep
<1>11. CASE a > tx[e].acked
  <2>1. PICK left : left = tx[e].bytes - (LastSeq(Out(e), a) - LastSeq(Out(e), tx[e].acked))
    OBVIOUS
  <2>2. PICK n : n = IF tx[e].unsent <= a THEN a + 1 ELSE tx[e].unsent
    OBVIOUS
  <2>3. PICK k : k = IF tx[e].unsent <= a THEN 0 ELSE tx[e].frame
    OBVIOUS
  <2>4. PICK u : u = Released(tx[e], a, n, k, left)
    OBVIOUS
  <2>5. /\ tx' = [tx EXCEPT ![e] = u]
        /\ saturated' = [saturated EXCEPT ![e] = saturated[e] /\ left > LowWaterMark]
        /\ timer' = [timer EXCEPT ![e] = a < Len(Out(e)) \/ rx[e].ackDue # 0]
        /\ UNCHANGED <<rx, flushing, fault>>
    <3>1. ~(a <= tx[e].acked) /\ ~(a > tx[e].fullySent)
      BY <1>5, <1>6, <1>7, <1>11
    <3>2. u = [tx[e] EXCEPT !.acked = a,
                            !.unsent = IF tx[e].unsent <= a THEN a + 1 ELSE tx[e].unsent,
                            !.frame = IF tx[e].unsent <= a THEN 0 ELSE tx[e].frame,
                            !.bytes = left]
      BY <2>2, <2>3, <2>4 DEF Released
    <3> QED BY <1>4, <2>1, <3>1, <3>2 DEF AckArrives
  <2>6. /\ LastSeq(Out(e), a) \in Nat /\ LastSeq(Out(e), tx[e].acked) \in Nat
        /\ LastSeq(Out(e), Len(Out(e))) \in Nat
        /\ LastSeq(Out(e), tx[e].acked) <= LastSeq(Out(e), a)
    <3>1. a \in 0..Len(Out(e)) /\ tx[e].acked \in 0..Len(Out(e)) /\ Len(Out(e)) \in 0..Len(Out(e))
      BY <1>3, <1>5, <1>6, <1>7
    <3>2. LastSeq(Out(e), tx[e].acked) <= LastSeq(Out(e), a)
      BY <1>1, <1>3, <1>11, <3>1, <1>5, <1>6 DEF Numbered, Out
    <3> QED BY <1>3, <3>1, <3>2, LastSeqs
  <2>7. /\ left \in Int /\ left <= tx[e].bytes
        /\ left = LastSeq(Out(e), Len(Out(e))) - LastSeq(Out(e), a)
    <3>1. tx[e].bytes = LastSeq(Out(e), Len(Out(e))) - LastSeq(Out(e), tx[e].acked)
      BY <1>1, <1>2 DEF LocalInv
    <3> QED BY <2>1, <2>6, <3>1
  <2>8. /\ n \in Nat \ {0} /\ k \in Nat /\ a < n /\ n <= Len(Out(e)) + 1 /\ tx[e].unsent <= n
        /\ k = 0 \/ (n <= Len(Out(e)) /\ k < Out(e)[n].count)
    <3>1. /\ tx[e].unsent \in Nat \ {0} /\ tx[e].frame \in Nat /\ tx[e].unsent <= Len(Out(e)) + 1
          /\ tx[e].frame = 0 \/ (tx[e].unsent <= Len(Out(e))
                                 /\ tx[e].frame < Out(e)[tx[e].unsent].count)
      BY <1>1, <1>2 DEF LocalInv, TxStates
    <3>2. CASE tx[e].unsent <= a
      BY <1>3, <1>5, <1>7, <2>2, <2>3, <3>1, <3>2
    <3>3. CASE ~(tx[e].unsent <= a)
      BY <1>3, <1>5, <1>7, <2>2, <2>3, <3>1, <3>3
    <3> QED BY <3>2, <3>3
  <2>9. /\ u \in TxStates /\ u.acked = a /\ u.unsent = n /\ u.frame = k
        /\ u.fullySent = tx[e].fullySent /\ u.bytes = left
    <3>1. tx[e] \in TxStates /\ a \in Nat /\ n \in Nat \ {0} /\ k \in Nat /\ left \in Int
      BY <1>1, <1>5, <2>7, <2>8
    <3>2. \A t \in TxStates, x \in Nat, y \in Nat \ {0}, z \in Nat, b \in Int :
            LET v == Released(t, x, y, z, b)
            IN  v \in TxStates /\ v.acked = x /\ v.unsent = y /\ v.frame = z
                /\ v.fullySent = t.fullySent /\ v.bytes = b
      BY TxReleased
    <3>3. PICK t : t = tx[e]
      OBVIOUS
    <3>4. t \in TxStates /\ a \in Nat /\ n \in Nat \ {0} /\ k \in Nat /\ left \in Int
      BY <3>1, <3>3
    <3>5. LET v == Released(t, a, n, k, left)
          IN  v \in TxStates /\ v.acked = a /\ v.unsent = n /\ v.frame = k
              /\ v.fullySent = t.fullySent /\ v.bytes = left
      BY <3>2, <3>4
    <3> QED BY <2>4, <3>3, <3>5
  <2>10. /\ tx' \in [Ends -> TxStates] /\ tx'[e] = u /\ tx'[Peer(e)] = tx[Peer(e)]
         /\ saturated' \in [Ends -> BOOLEAN] /\ saturated'[Peer(e)] = saturated[Peer(e)]
         /\ saturated'[e] <=> (saturated[e] /\ left > LowWaterMark)
         /\ timer' \in [Ends -> BOOLEAN] /\ timer'[Peer(e)] = timer[Peer(e)]
         /\ timer'[e] <=> (a < Len(Out(e)) \/ rx[e].ackDue # 0)
    BY <1>1, <2>5, <2>9 DEF Typed
  <2>11. Typed' /\ SameAt(Peer(e)) /\ tx[e].fullySent <= tx'[e].fullySent
    BY <1>1, <1>7, <1>8, <2>5, <2>9, <2>10 DEF Typed, SameAt, sessionVars, relayVars
  <2>12. LocalInv(e)'
    <3>1. Live(e)' = Live(e) /\ rx'[e] = rx[e] /\ ready' = ready /\ flushing' = flushing
      BY <1>8, <2>5 DEF Live, Quiet, Steady, relayVars
    <3>2. /\ rx[e].ackDue <= Len(In(e))
          /\ left <= ReplayBufferMax
          /\ left > HighWaterMark => saturated'[e]
          /\ saturated'[e] => left > LowWaterMark
      <4>1. tx[e].bytes \in Int /\ LowWaterMark <= HighWaterMark
        BY <1>1, RelayAssumption DEF TxStates
      <4> QED BY <1>1, <1>2, <2>7, <2>10, <4>1 DEF LocalInv
    <3>3. timer'[e] <=> Watched(u, rx[e], Out(e))
      BY <2>9, <2>10 DEF Watched
    <3>4. ready[e] /\ ~flushing[e] => rx[e].ackDue = 0 /\ n > Len(Out(e))
      <4>1. tx[e].unsent \in Nat
        BY <1>1 DEF TxStates
      <4>2. ready[e] /\ ~flushing[e] => rx[e].ackDue = 0 /\ tx[e].unsent > Len(Out(e))
        BY <1>1, <1>2 DEF LocalInv
      <4> QED BY <1>3, <2>8, <4>1, <4>2
    <3>5. fault'[e] # "futureAck" /\ delivered' = delivered /\ gen' = gen
      BY <1>1, <1>8, <2>5 DEF LocalInv, Quiet, Steady
    <3>6. Len(delivered[Peer(e)][gen[e]]) <= u.fullySent
      BY <1>1, <1>2, <2>9 DEF LocalInv
    <3>7. /\ tx'[e].acked < tx'[e].unsent /\ tx'[e].unsent <= Len(Out(e)) + 1
          /\ tx'[e].frame = 0 \/ (tx'[e].unsent <= Len(Out(e))
                                  /\ tx'[e].frame < Out(e)[tx'[e].unsent].count)
          /\ tx'[e].bytes = LastSeq(Out(e), Len(Out(e))) - LastSeq(Out(e), tx'[e].acked)
      BY <2>7, <2>8, <2>9, <2>10
    <3>8. /\ tx'[e].bytes <= ReplayBufferMax
          /\ tx'[e].bytes > HighWaterMark => saturated'[e]
          /\ saturated'[e] => tx'[e].bytes > LowWaterMark
      BY <2>9, <2>10, <3>2
    <3>9. /\ timer'[e] <=> Watched(tx'[e], rx'[e], Out(e))
          /\ ready'[e] /\ ~flushing'[e] => rx'[e].ackDue = 0 /\ tx'[e].unsent > Len(Out(e))
          /\ rx'[e].ackDue <= Len(In(e)) \/ ~Live(e)
      BY <2>9, <2>10, <3>1, <3>2, <3>3, <3>4
    <3>10. /\ tx'[e].acked <= Len(delivered'[Peer(e)][gen'[e]])
           /\ Len(delivered'[Peer(e)][gen'[e]]) <= tx'[e].fullySent
      BY <1>5, <2>9, <2>10, <3>5, <3>6
    <3> QED BY <1>9, <3>1, <3>5, <3>7, <3>8, <3>9, <3>10 DEF LocalInv, Watched
  <2> QED BY <1>2, <1>8, <2>11, <2>12, QuietStep
<1> QED BY <1>5, <1>6, <1>10, <1>11

-----------------------------------------------------------------------------
(* Steps that make a message more reserved, delivered, or a bridge more asked for. *)

LEMMA WireKept ==
    ASSUME WireGood, ControlsInOrder, wire' = wire, \A x \in Ends : Good(x) \subseteq Good(x)'
    PROVE  WireGood' /\ ControlsInOrder'
<1>1. ASSUME NEW x \in Ends PROVE wire[x] \in Seq(Good(x)')
  <2>1. wire[x] \in Seq(Good(x))
    BY DEF WireGood
  <2>2. \A i \in 1..Len(wire[x]) : wire[x][i] \in Good(x)'
    BY <2>1, ElementOfSeq
  <2> QED BY <2>1, <2>2, LargerSet
<1> QED BY <1>1 DEF WireGood, ControlsInOrder, IsControl

\* What travels stays good while both ends stay in their generation and sequences grow.
LEMMA Growth ==
    ASSUME Typed, Typed', gen' = gen, asked <= asked',
           \A x \in Ends : tx[x].fullySent <= tx'[x].fullySent,
           \A x \in Ends, g \in Generations :
              /\ Len(reserved[x][g]) <= Len(reserved'[x][g])
              /\ \A k \in 1..Len(reserved[x][g]) : reserved'[x][g][k] = reserved[x][g][k]
              /\ Len(delivered[x][g]) <= Len(delivered'[x][g])
    PROVE  \A x \in Ends : Good(x) \subseteq Good(x)'
<1> SUFFICES ASSUME NEW x \in Ends, NEW p \in Good(x) PROVE p \in Good(x)'
  OBVIOUS
<1>1. Peer(x) \in Ends /\ Host \in Ends
  BY TwoEnds
<1>2. gen'[x] = gen[x] /\ gen[Peer(x)] <= gen'[Peer(x)] /\ gen[Host] <= gen'[Host]
  BY <1>1, RelayAssumption, SMTT(30) DEF Typed
<1> QED BY <1>1, <1>2, GoodStays

LEMMA FullySentKept ==
    ASSUME Typed, tx' = tx
    PROVE  \A x \in Ends : tx[x].fullySent <= tx'[x].fullySent
<1> SUFFICES ASSUME NEW x \in Ends PROVE tx[x].fullySent <= tx[x].fullySent
  OBVIOUS
<1>1. tx[x] \in TxStates
  BY DEF Typed
<1> QED BY <1>1 DEF TxStates

\* A message m of n frames is reserved at e after the number l, and r and b is what is
\* reserved and kept then.
Reservation(e, l, n, m, r, b) ==
    /\ n \in Nat \ {0} /\ l = LastSeq(Out(e), Len(Out(e))) /\ l \in Nat
    /\ m \in Messages /\ m.first = l + 1 /\ m.count = n
    /\ r \in Seq(Messages) /\ Len(r) = Len(Out(e)) + 1
    /\ \A i \in 1..Len(Out(e)) : r[i] = Out(e)[i]
    /\ r[Len(Out(e)) + 1] = m
    /\ \A i \in 0..Len(Out(e)) : LastSeq(r, i) = LastSeq(Out(e), i) /\ LastSeq(r, i) \in Nat
    /\ LastSeq(r, Len(r)) = l + n
    /\ reserved' \in [Ends -> [Generations -> Seq(Messages)]]
    /\ reserved'[e][gen[e]] = r
    /\ \A x \in Ends, g \in Generations :
            x # e \/ g # gen[e] => reserved'[x][g] = reserved[x][g]
    /\ reserved'[Peer(e)] = reserved[Peer(e)]
    /\ b = tx[e].bytes + n /\ b \in Int /\ b <= ReplayBufferMax
    /\ tx' \in [Ends -> TxStates] /\ tx'[Peer(e)] = tx[Peer(e)]
    /\ tx'[e].acked = tx[e].acked /\ tx'[e].unsent = tx[e].unsent /\ tx'[e].frame = tx[e].frame
    /\ tx'[e].fullySent = tx[e].fullySent /\ tx'[e].bytes = b
    /\ saturated' \in [Ends -> BOOLEAN] /\ saturated'[Peer(e)] = saturated[Peer(e)]
    /\ saturated'[e] <=> (saturated[e] \/ b > HighWaterMark)
    /\ timer' \in [Ends -> BOOLEAN] /\ timer'[Peer(e)] = timer[Peer(e)] /\ timer'[e]
    /\ flushing' \in [Ends -> BOOLEAN] /\ flushing'[Peer(e)] = flushing[Peer(e)] /\ flushing'[e]
    /\ UNCHANGED <<gen, asked, delivered, rx, fault, wire, ready, matches, losses, dropped, unsure,
        attaching, buffered>>

\* The message reserved follows the last one, and no other sequence changes.
LEMMA Reserves ==
    ASSUME IInv, NEW e \in Ends, Reserve(e)
    PROVE  \E l, n, m, r, b : Reservation(e, l, n, m, r, b)
<1>1. /\ Typed /\ LocalInv(e) /\ Peer(e) \in Ends /\ Peer(e) # e /\ Peer(Peer(e)) = e
      /\ \A x \in Ends : x = e \/ x = Peer(e)
      /\ CoreInv /\ Live(e) /\ gen[e] # 0
  BY Locally, TwoEnds DEF Reserve, Live
<1>2. /\ gen[e] \in Generations /\ tx[e] \in TxStates /\ rx[e] \in RxStates
      /\ Out(e) \in Seq(Messages) /\ Len(Out(e)) \in Nat /\ Len(In(e)) \in Nat
      /\ gen[e] \in Nat /\ LowWaterMark \in Nat /\ HighWaterMark \in Nat
      /\ LowWaterMark <= HighWaterMark
  BY <1>1, Values
<1>3. PICK n : n = NextSize(e)
  OBVIOUS
<1>4. n \in Nat \ {0}
  <2>1. Workload[e][gen[e]] \in Seq(Nat \ {0})
    BY <1>2, RelayAssumption
  <2>2. Len(Workload[e][gen[e]]) \in Nat /\ Len(Out(e)) < Len(Workload[e][gen[e]])
    BY <2>1, LenProperties DEF Reserve, MoreToSend
  <2>3. Len(Out(e)) + 1 \in 1..Len(Workload[e][gen[e]])
    BY <1>2, <2>2
  <2> QED BY <1>3, <2>1, <2>3, ElementOfSeq DEF NextSize
<1>5. PICK l : l = LastSeq(Out(e), Len(Out(e)))
  OBVIOUS
<1>6. l \in Nat
  <2>1. Len(Out(e)) \in 0..Len(Out(e))
    BY <1>2
  <2> QED BY <1>2, <1>5, <2>1, LastSeqs
<1>7. PICK m : m = [first |-> l + 1, count |-> n]
  OBVIOUS
<1>8. m \in Messages /\ m.first = l + 1 /\ m.count = n
  BY <1>4, <1>6, <1>7 DEF Messages
<1>9. PICK r : r = Append(Out(e), m)
  OBVIOUS
<1>10. /\ r \in Seq(Messages) /\ Len(r) = Len(Out(e)) + 1
       /\ \A i \in 1..Len(Out(e)) : r[i] = Out(e)[i]
       /\ r[Len(Out(e)) + 1] = m
  BY <1>2, <1>8, <1>9, Appended
<1>11. /\ \A i \in 0..Len(Out(e)) : LastSeq(r, i) = LastSeq(Out(e), i) /\ LastSeq(r, i) \in Nat
       /\ LastSeq(r, Len(r)) = l + n
  <2>1. /\ \A i \in 0..Len(Out(e)) : LastSeq(r, i) = LastSeq(Out(e), i)
        /\ \A i \in 0..Len(Out(e)) : LastSeq(Out(e), i) \in Nat
        /\ LastSeq(r, Len(Out(e)) + 1) = m.first + m.count - 1
    BY <1>2, <1>8, <1>9, LastSeqs
  <2>2. m.first + m.count - 1 = l + n
    BY <1>4, <1>6, <1>8
  <2> QED BY <1>10, <2>1, <2>2
<1>12. /\ reserved' \in [Ends -> [Generations -> Seq(Messages)]]
       /\ reserved'[e][gen[e]] = r
       /\ \A x \in Ends, g \in Generations :
            x # e \/ g # gen[e] => reserved'[x][g] = reserved[x][g]
       /\ reserved'[Peer(e)] = reserved[Peer(e)]
  <2>1. reserved' = [reserved EXCEPT ![e][gen[e]] = r]
    BY <1>3, <1>5, <1>7, <1>9 DEF Reserve, Out
  <2> QED BY <1>1, <1>2, <1>10, <2>1 DEF Typed
<1>13. PICK b : b = tx[e].bytes + n
  OBVIOUS
<1>14. b \in Int /\ b <= ReplayBufferMax
  BY <1>2, <1>3, <1>4, <1>13 DEF TxStates, Reserve
<1>15. /\ tx' \in [Ends -> TxStates] /\ tx'[Peer(e)] = tx[Peer(e)]
       /\ tx'[e].acked = tx[e].acked /\ tx'[e].unsent = tx[e].unsent /\ tx'[e].frame = tx[e].frame
       /\ tx'[e].fullySent = tx[e].fullySent /\ tx'[e].bytes = b
  <2>1. [tx[e] EXCEPT !.bytes = b] \in TxStates
    BY <1>2, <1>14 DEF TxStates
  <2>2. tx' = [tx EXCEPT ![e] = [tx[e] EXCEPT !.bytes = b]]
    BY <1>3, <1>13 DEF Reserve
  <2>3. /\ tx' \in [Ends -> TxStates] /\ tx'[Peer(e)] = tx[Peer(e)]
        /\ tx'[e] = [tx[e] EXCEPT !.bytes = b]
    BY <1>1, <2>1, <2>2 DEF Typed
  <2> QED BY <1>2, <2>3 DEF TxStates
<1>16. /\ saturated' \in [Ends -> BOOLEAN] /\ saturated'[Peer(e)] = saturated[Peer(e)]
       /\ saturated'[e] <=> (saturated[e] \/ b > HighWaterMark)
       /\ timer' \in [Ends -> BOOLEAN] /\ timer'[Peer(e)] = timer[Peer(e)] /\ timer'[e]
       /\ flushing' \in [Ends -> BOOLEAN] /\ flushing'[Peer(e)] = flushing[Peer(e)] /\ flushing'[e]
  BY <1>1, <1>3, <1>13 DEF Reserve, Typed
<1>17. UNCHANGED <<gen, asked, delivered, rx, fault, wire, ready, matches, losses, dropped, unsure,
        attaching, buffered>>
  BY DEF Reserve, linkVars, relayVars
<1>18. Reservation(e, l, n, m, r, b)
  BY <1>4, <1>5, <1>6, <1>8, <1>10, <1>11, <1>12, <1>13, <1>14, <1>15, <1>16, <1>17
  DEF Reservation
<1> QED BY <1>18

LEMMA ReserveStep ==
    ASSUME IInv, NEW e \in Ends, Reserve(e)
    PROVE  IInv'
<1>1. /\ Typed /\ LocalInv(e) /\ Peer(e) \in Ends /\ Peer(e) # e /\ Peer(Peer(e)) = e
      /\ \A x \in Ends : x = e \/ x = Peer(e)
      /\ CoreInv /\ Live(e) /\ gen[e] # 0
  BY Locally, TwoEnds DEF Reserve, Live
<1>2. /\ gen[e] \in Generations /\ tx[e] \in TxStates /\ rx[e] \in RxStates
      /\ Out(e) \in Seq(Messages) /\ Len(Out(e)) \in Nat /\ Len(In(e)) \in Nat
      /\ gen[e] \in Nat /\ LowWaterMark \in Nat /\ HighWaterMark \in Nat
      /\ LowWaterMark <= HighWaterMark
  BY <1>1, Values
<1>3. PICK l, n, m, r, b : Reservation(e, l, n, m, r, b)
  BY Reserves
<1>4. n \in Nat \ {0}
  BY <1>3 DEF Reservation
<1>5. l = LastSeq(Out(e), Len(Out(e)))
  BY <1>3 DEF Reservation
<1>6. l \in Nat
  BY <1>3 DEF Reservation
<1>10. /\ r \in Seq(Messages) /\ Len(r) = Len(Out(e)) + 1
       /\ \A i \in 1..Len(Out(e)) : r[i] = Out(e)[i]
       /\ r[Len(Out(e)) + 1] = m
  BY <1>3 DEF Reservation
<1>11. /\ \A i \in 0..Len(Out(e)) : LastSeq(r, i) = LastSeq(Out(e), i) /\ LastSeq(r, i) \in Nat
       /\ LastSeq(r, Len(r)) = l + n
  BY <1>3 DEF Reservation
<1>12. /\ reserved' \in [Ends -> [Generations -> Seq(Messages)]]
       /\ reserved'[e][gen[e]] = r
       /\ \A x \in Ends, g \in Generations :
            x # e \/ g # gen[e] => reserved'[x][g] = reserved[x][g]
       /\ reserved'[Peer(e)] = reserved[Peer(e)]
  BY <1>3 DEF Reservation
<1>13. b = tx[e].bytes + n
  BY <1>3 DEF Reservation
<1>14. b \in Int /\ b <= ReplayBufferMax
  BY <1>3 DEF Reservation
<1>15. /\ tx' \in [Ends -> TxStates] /\ tx'[Peer(e)] = tx[Peer(e)]
       /\ tx'[e].acked = tx[e].acked /\ tx'[e].unsent = tx[e].unsent /\ tx'[e].frame = tx[e].frame
       /\ tx'[e].fullySent = tx[e].fullySent /\ tx'[e].bytes = b
  BY <1>3 DEF Reservation
<1>16. /\ saturated' \in [Ends -> BOOLEAN] /\ saturated'[Peer(e)] = saturated[Peer(e)]
       /\ saturated'[e] <=> (saturated[e] \/ b > HighWaterMark)
       /\ timer' \in [Ends -> BOOLEAN] /\ timer'[Peer(e)] = timer[Peer(e)] /\ timer'[e]
       /\ flushing' \in [Ends -> BOOLEAN] /\ flushing'[Peer(e)] = flushing[Peer(e)] /\ flushing'[e]
  BY <1>3 DEF Reservation
<1>17. UNCHANGED <<gen, asked, delivered, rx, fault, wire, ready, matches, losses, dropped, unsure,
        attaching, buffered>>
  BY <1>3 DEF Reservation
<1>18. Typed'
  BY <1>1, <1>12, <1>15, <1>16, <1>17 DEF Typed
<1>19. \A x \in Ends : Good(x) \subseteq Good(x)'
  <2>1. asked <= asked'
    BY <1>1, <1>17, RelayAssumption DEF Typed
  <2>2. ASSUME NEW x \in Ends PROVE tx[x].fullySent <= tx'[x].fullySent
    <3>1. tx[x].fullySent \in Nat /\ tx'[x].fullySent = tx[x].fullySent
      BY <1>1, <1>15 DEF Typed, TxStates
    <3> QED BY <3>1
  <2>3. ASSUME NEW x \in Ends, NEW g \in Generations
        PROVE  /\ Len(reserved[x][g]) <= Len(reserved'[x][g])
               /\ \A k \in 1..Len(reserved[x][g]) : reserved'[x][g][k] = reserved[x][g][k]
               /\ Len(delivered[x][g]) <= Len(delivered'[x][g])
    <3>1. Len(reserved[x][g]) \in Nat /\ Len(delivered[x][g]) \in Nat
      <4>1. reserved[x][g] \in Seq(Messages) /\ delivered[x][g] \in Seq(Messages)
        BY <1>1 DEF Typed
      <4> QED BY <4>1, LenProperties
    <3>2. CASE x = e /\ g = gen[e]
      <4>1. delivered'[x][g] = delivered[x][g]
        BY <1>17
      <4>2. reserved[x][g] = Out(e) /\ reserved'[x][g] = r
        BY <1>12, <3>2 DEF Out
      <4> QED BY <1>2, <1>10, <3>1, <4>1, <4>2
    <3>3. CASE ~(x = e /\ g = gen[e])
      BY <1>12, <1>17, <3>1, <3>3
    <3> QED BY <3>2, <3>3
  <2> QED BY <1>1, <1>17, <1>18, <2>1, <2>2, <2>3, Growth
<1>20. WireGood' /\ ControlsInOrder'
  BY <1>1, <1>17, <1>19, WireKept DEF CoreInv
<1>21. Generational'
  <2>1. \A x \in Ends, g \in Generations : g > gen[x] => x # e \/ g # gen[e]
    BY <1>2
  <2> QED BY <1>1, <1>12, <1>17, <2>1, ZenonT(60) DEF CoreInv, Generational
<1>22. Numbered'
  <2> SUFFICES ASSUME NEW x \in Ends, NEW g \in Generations,
                      NEW i \in 0..Len(reserved'[x][g]), NEW j \in 0..Len(reserved'[x][g]), i <= j
               PROVE  LastSeq(reserved'[x][g], i) <= LastSeq(reserved'[x][g], j)
    BY DEF Numbered, LastSeq
  <2>1. CASE x = e /\ g = gen[e]
    <3>1. reserved'[x][g] = r /\ i \in 0..Len(r) /\ j \in 0..Len(r)
      BY <1>12, <2>1
    <3>2. \A a, c \in 0..Len(Out(e)) : a <= c => LastSeq(Out(e), a) <= LastSeq(Out(e), c)
      BY <1>1, <1>2 DEF CoreInv, Numbered, Out
    <3>3. CASE j <= Len(Out(e))
      <4>1. i \in 0..Len(Out(e)) /\ j \in 0..Len(Out(e))
        BY <1>2, <1>10, <3>1, <3>3
      <4> QED BY <1>11, <3>1, <3>2, <4>1
    <3>4. CASE j = Len(r)
      <4>1. CASE i = Len(r)
        BY <1>4, <1>6, <1>11, <3>1, <3>4, <4>1
      <4>2. CASE i # Len(r)
        <5>1. i \in 0..Len(Out(e)) /\ Len(Out(e)) \in 0..Len(Out(e)) /\ i <= Len(Out(e))
          BY <1>2, <1>10, <3>1, <4>2
        <5>2. LastSeq(Out(e), i) <= l
          BY <1>5, <3>2, <5>1
        <5> QED BY <1>4, <1>6, <1>11, <3>1, <3>4, <5>1, <5>2
      <4> QED BY <4>1, <4>2
    <3> QED BY <1>2, <1>10, <3>1, <3>3, <3>4
  <2>2. CASE ~(x = e /\ g = gen[e])
    <3>1. reserved'[x][g] = reserved[x][g]
      BY <1>12, <2>2
    <3> QED BY <1>1, <3>1 DEF CoreInv, Numbered
  <2> QED BY <2>1, <2>2
<1>23. DeliveredIsSentPrefix'
  <2> SUFFICES ASSUME NEW x \in Ends, NEW g \in Generations
               PROVE  /\ Len(delivered[x][g]) <= Len(reserved'[Peer(x)][g])
                      /\ \A k \in 1..Len(delivered[x][g]) :
                            delivered[x][g][k] = reserved'[Peer(x)][g][k]
    BY <1>17 DEF DeliveredIsSentPrefix
  <2>1. /\ Peer(x) \in Ends /\ Len(delivered[x][g]) \in Nat
        /\ Len(delivered[x][g]) <= Len(reserved[Peer(x)][g])
        /\ \A k \in 1..Len(delivered[x][g]) : delivered[x][g][k] = reserved[Peer(x)][g][k]
    <3>1. delivered[x][g] \in Seq(Messages)
      BY <1>1 DEF Typed
    <3> QED BY <1>1, <3>1, TwoEnds, LenProperties DEF CoreInv, DeliveredIsSentPrefix
  <2>2. CASE Peer(x) = e /\ g = gen[e]
    <3>1. reserved'[Peer(x)][g] = r /\ reserved[Peer(x)][g] = Out(e)
      BY <1>12, <2>2 DEF Out
    <3>2. \A k \in 1..Len(delivered[x][g]) : k \in 1..Len(Out(e))
      BY <1>2, <2>1, <3>1
    <3>3. \A k \in 1..Len(delivered[x][g]) : delivered[x][g][k] = r[k]
      BY <1>10, <2>1, <3>1, <3>2
    <3>4. Len(delivered[x][g]) <= Len(r)
      BY <1>2, <1>10, <2>1, <3>1
    <3> QED BY <3>1, <3>3, <3>4
  <2>3. CASE ~(Peer(x) = e /\ g = gen[e])
    BY <1>12, <2>1, <2>3
  <2> QED BY <2>2, <2>3
<1>24. LocalInv(e)'
  <2>1. Out(e)' = r /\ In(e)' = In(e) /\ Live(e)' = Live(e)
    BY <1>12, <1>17 DEF Out, In, Live
  <2>2. /\ tx[e].acked < tx[e].unsent /\ tx[e].unsent <= Len(Out(e)) + 1
        /\ tx[e].frame = 0 \/ (tx[e].unsent <= Len(Out(e))
                               /\ tx[e].frame < Out(e)[tx[e].unsent].count)
        /\ tx[e].bytes = l - LastSeq(Out(e), tx[e].acked)
        /\ tx[e].bytes <= ReplayBufferMax
        /\ tx[e].bytes > HighWaterMark => saturated[e]
        /\ saturated[e] => tx[e].bytes > LowWaterMark
        /\ rx[e].ackDue <= Len(In(e))
    BY <1>1, <1>5 DEF LocalInv
  <2>3. tx[e].acked \in 0..Len(Out(e)) /\ tx[e].unsent \in Nat \ {0} /\ tx[e].bytes \in Int
    BY <1>1, <1>2, <2>2 DEF TxStates
  <2>4. /\ tx'[e].unsent <= Len(r) + 1
        /\ tx'[e].frame = 0 \/ (tx'[e].unsent <= Len(r) /\ tx'[e].frame < r[tx'[e].unsent].count)
    BY <1>2, <1>10, <1>15, <2>2, <2>3
  <2>5. tx'[e].bytes = LastSeq(r, Len(r)) - LastSeq(r, tx'[e].acked)
    BY <1>4, <1>6, <1>11, <1>13, <1>15, <2>2, <2>3, SMTT(30)
  <2>6. saturated'[e] => b > LowWaterMark
    BY <1>2, <1>4, <1>13, <1>14, <1>16, <2>2, <2>3
  <2>7. Watched(tx'[e], rx'[e], r)
    BY <1>2, <1>10, <1>15, <2>3 DEF Watched
  <2>8. tx'[e].acked < tx'[e].unsent /\ rx'[e].ackDue <= Len(In(e))
    BY <1>15, <1>17, <2>2
  <2>9. /\ fault'[e] # "futureAck"
        /\ tx'[e].acked <= Len(delivered'[Peer(e)][gen'[e]])
        /\ Len(delivered'[Peer(e)][gen'[e]]) <= tx'[e].fullySent
    BY <1>1, <1>15, <1>17 DEF LocalInv
  <2>10. /\ tx'[e].bytes <= ReplayBufferMax
         /\ tx'[e].bytes > HighWaterMark => saturated'[e]
         /\ saturated'[e] => tx'[e].bytes > LowWaterMark
    BY <1>14, <1>15, <1>16, <2>6
  <2>11. timer'[e] <=> Watched(tx'[e], rx'[e], r)
    BY <1>16, <2>7
  <2> QED BY <1>16, <2>1, <2>4, <2>5, <2>8, <2>9, <2>10, <2>11 DEF LocalInv, Watched
<1>25. LocalInv(Peer(e))'
  <2>1. SameAt(Peer(e))
    BY <1>12, <1>15, <1>16, <1>17 DEF SameAt
  <2> QED BY <1>1, <1>17, <2>1, Locally, OtherEnd
<1>26. Announcing'
  BY <1>1, <1>17, NothingAnnounced DEF CoreInv
<1> QED BY <1>1, <1>18, <1>20, <1>21, <1>22, <1>23, <1>24, <1>25, <1>26, Conclude

\* The message delivered is the next one of the other end, and was sent in full.
LEMMA MessageArrivesStep ==
    ASSUME IInv, NEW e \in Ends, MessageArrives(e)
    PROVE  IInv'
<1>1. /\ Typed /\ LocalInv(e) /\ LocalInv(Peer(e)) /\ Peer(e) \in Ends /\ Peer(e) # e
      /\ Peer(Peer(e)) = e /\ \A x \in Ends : x = e \/ x = Peer(e)
      /\ CoreInv
  BY Locally, TwoEnds
<1>2. ForMe(e, "frame") /\ wire[e] # <<>> /\ Taken(e) /\ Live(e) /\ gen[e] # 0
  BY DEF MessageArrives, NextFrame, ForMe, Arrives, Live
<1>3. /\ gen[e] \in Generations /\ tx[e] \in TxStates /\ rx[e] \in RxStates
      /\ Len(Out(e)) \in Nat /\ In(e) \in Seq(Messages) /\ Len(In(e)) \in Nat
      /\ reserved[Peer(e)][gen[e]] \in Seq(Messages) /\ Len(reserved[Peer(e)][gen[e]]) \in Nat
  BY <1>1, <1>2, Values
<1>4. PICK s : s = reserved[Peer(e)][gen[e]]
  OBVIOUS
<1>5. PICK p : p = Head(wire[e])
  OBVIOUS
<1>6. /\ p \in Frames /\ p.message \in 1..Len(s) /\ p.seq - p.index = s[p.message].first
      /\ p.count = s[p.message].count
      /\ gen[Peer(e)] = gen[e] /\ p.index + 1 = p.count => p.message <= tx[Peer(e)].fullySent
  BY <1>2, <1>4, <1>5, FrameTaken
<1>7. p.message = Len(In(e)) + 1 /\ p.index + 1 = p.count
  <2>1. Misplaced(e, p) = "none"
    BY <1>5 DEF MessageArrives, NextFrame
  <2>2. p.message = Len(In(e)) + 1 /\ p.index = rx[e].staged
    BY <2>1 DEF Misplaced
  <2> QED BY <1>5, <2>2 DEF MessageArrives
<1>8. PICK m : m = [first |-> p.seq - p.index, count |-> p.count]
  OBVIOUS
<1>9. m = s[Len(In(e)) + 1] /\ m \in Messages
  <2>1. s[p.message] \in Messages
    BY <1>3, <1>4, <1>6, ElementOfSeq
  <2>2. s[p.message] = [first |-> s[p.message].first, count |-> s[p.message].count]
    BY <2>1 DEF Messages
  <2> QED BY <1>6, <1>7, <1>8, <2>1, <2>2
<1>10. PICK d : d = Append(In(e), m)
  OBVIOUS
<1>11. /\ d \in Seq(Messages) /\ Len(d) = Len(In(e)) + 1
       /\ \A i \in 1..Len(In(e)) : d[i] = In(e)[i]
       /\ d[Len(In(e)) + 1] = m
  BY <1>3, <1>9, <1>10, Appended
<1>12. /\ delivered' \in [Ends -> [Generations -> Seq(Messages)]]
       /\ delivered'[e][gen[e]] = d
       /\ \A x \in Ends, g \in Generations :
            x # e \/ g # gen[e] => delivered'[x][g] = delivered[x][g]
       /\ delivered'[Peer(e)] = delivered[Peer(e)]
  <2>1. delivered' = [delivered EXCEPT ![e][gen[e]] = d]
    BY <1>5, <1>8, <1>10 DEF MessageArrives, In
  <2> QED BY <1>1, <1>3, <1>11, <2>1 DEF Typed
<1>13. PICK q : q = Complete(rx[e])
  OBVIOUS
<1>14. q \in RxStates /\ q.ackDue = rx[e].ackDue
  BY <1>3, <1>13, RxAdvanced
<1>15. PICK k : k = IF q.ackDue < Len(In(e)) + 1 THEN Len(In(e)) + 1 ELSE q.ackDue
  OBVIOUS
<1>16. k \in Nat /\ k # 0 /\ k <= Len(d)
  <2>1. rx[e].ackDue \in Nat
    BY <1>1, <1>3 DEF RxStates
  <2>2. rx[e].ackDue <= Len(In(e))
    BY <1>1, <1>2, <1>3 DEF LocalInv
  <2> QED BY <1>3, <1>11, <1>14, <1>15, <2>1, <2>2
<1>17. PICK z : z = Due(q, k)
  OBVIOUS
<1>18. z \in RxStates /\ z.ackDue = k
  BY <1>14, <1>16, <1>17, RxAckDue, ZenonT(60)
<1>19. /\ rx' = [rx EXCEPT ![e] = z] /\ timer' = [timer EXCEPT ![e] = TRUE]
       /\ flushing' = [flushing EXCEPT ![e] = TRUE]
  <2>1. q = [rx[e] EXCEPT !.expected = rx[e].expected + 1, !.staged = 0]
    BY <1>13 DEF Complete
  <2>2. AckQueued(e, q, Len(In(e)) + 1)
    BY <2>1 DEF MessageArrives
  <2> QED BY <1>15, <1>17, <2>2 DEF AckQueued, Due
<1>20. /\ rx' \in [Ends -> RxStates] /\ rx'[e] = z /\ rx'[Peer(e)] = rx[Peer(e)]
       /\ timer' \in [Ends -> BOOLEAN] /\ timer'[e] /\ timer'[Peer(e)] = timer[Peer(e)]
       /\ flushing' \in [Ends -> BOOLEAN] /\ flushing'[e] /\ flushing'[Peer(e)] = flushing[Peer(e)]
  BY <1>1, <1>18, <1>19 DEF Typed
<1>21. UNCHANGED <<gen, asked, reserved, tx, saturated, fault, ready, matches, losses, dropped, unsure,
        attaching, buffered>>
  BY DEF MessageArrives, relayVars
<1>22. Typed'
  BY <1>1, <1>12, <1>20, <1>21 DEF Typed
<1>23. \A x \in Ends : Good(x) \subseteq Good(x)'
  <2>1. asked <= asked'
    BY <1>1, <1>21, RelayAssumption DEF Typed
  <2>2. \A x \in Ends : tx[x].fullySent <= tx'[x].fullySent
    BY <1>1, <1>21, FullySentKept
  <2>3. ASSUME NEW x \in Ends, NEW g \in Generations
        PROVE  /\ Len(reserved[x][g]) <= Len(reserved'[x][g])
               /\ \A i \in 1..Len(reserved[x][g]) : reserved'[x][g][i] = reserved[x][g][i]
               /\ Len(delivered[x][g]) <= Len(delivered'[x][g])
    <3>1. Len(reserved[x][g]) \in Nat /\ Len(delivered[x][g]) \in Nat
      <4>1. reserved[x][g] \in Seq(Messages) /\ delivered[x][g] \in Seq(Messages)
        BY <1>1 DEF Typed
      <4> QED BY <4>1, LenProperties
    <3>2. Len(delivered[x][g]) <= Len(delivered'[x][g])
      <4>1. CASE x = e /\ g = gen[e]
        BY <1>3, <1>11, <1>12, <4>1 DEF In
      <4>2. CASE ~(x = e /\ g = gen[e])
        BY <1>12, <3>1, <4>2
      <4> QED BY <4>1, <4>2
    <3> QED BY <1>21, <3>1, <3>2
  <2> QED BY <1>1, <1>21, <1>22, <2>1, <2>2, <2>3, Growth
<1>24. WireGood' /\ ControlsInOrder'
  BY <1>1, <1>2, <1>23, WireAfterTaking DEF CoreInv
<1>25. Generational' /\ Numbered'
  <2>1. gen[e] \in Nat
    BY <1>1, Values
  <2>2. \A x \in Ends, g \in Generations : g > gen[x] => x # e \/ g # gen[e]
    BY <2>1
  <2>3. Generational'
    BY <1>1, <1>12, <1>21, <2>2, ZenonT(60) DEF CoreInv, Generational
  <2>4. Numbered'
    BY <1>1, <1>21, SMTT(30) DEF CoreInv, Numbered, LastSeq
  <2> QED BY <2>3, <2>4
<1>26. DeliveredIsSentPrefix'
  <2> SUFFICES ASSUME NEW x \in Ends, NEW g \in Generations
               PROVE  /\ Len(delivered'[x][g]) <= Len(reserved[Peer(x)][g])
                      /\ \A i \in 1..Len(delivered'[x][g]) :
                            delivered'[x][g][i] = reserved[Peer(x)][g][i]
    BY <1>21 DEF DeliveredIsSentPrefix
  <2>1. CASE x = e /\ g = gen[e]
    <3>1. delivered'[x][g] = d /\ reserved[Peer(x)][g] = s
      BY <1>4, <1>12, <2>1
    <3>2. \A i \in 1..Len(In(e)) : In(e)[i] = s[i]
      BY <1>1, <1>3, <1>4 DEF CoreInv, DeliveredIsSentPrefix, In
    <3>3. Len(d) <= Len(s)
      BY <1>3, <1>4, <1>6, <1>7, <1>11
    <3>4. \A i \in 1..Len(d) : d[i] = s[i]
      BY <1>3, <1>9, <1>11, <3>2
    <3> QED BY <3>1, <3>3, <3>4
  <2>2. CASE ~(x = e /\ g = gen[e])
    BY <1>1, <1>12, <2>2 DEF CoreInv, DeliveredIsSentPrefix
  <2> QED BY <2>1, <2>2
<1>27. LocalInv(e)'
  <2>1. Out(e)' = Out(e) /\ In(e)' = d /\ Live(e)' = Live(e)
    BY <1>12, <1>21 DEF Out, In, Live
  <2>2. timer'[e] /\ Watched(tx'[e], rx'[e], Out(e)) /\ flushing'[e] /\ rx'[e].ackDue <= Len(d)
    BY <1>16, <1>18, <1>20 DEF Watched
  <2>3. delivered'[Peer(e)] = delivered[Peer(e)]
    BY <1>12
  <2> QED BY <1>1, <1>2, <1>21, <2>1, <2>2, <2>3 DEF LocalInv, Watched
<1>28. LocalInv(Peer(e))'
  <2> DEFINE y == Peer(e)
  <2>1. SameAt(y)
    BY <1>12, <1>20, <1>21 DEF SameAt
  <2>2. CASE gen[y] # gen[e]
    <3>1. gen[y] # 0 => delivered'[Peer(y)][gen[y]] = delivered[Peer(y)][gen[y]]
      BY <1>1, <1>12, <2>2, Values
    <3> QED BY <1>1, <2>1, <3>1, OtherEnd
  <2>3. CASE gen[y] = gen[e]
    <3>1. Out(y)' = Out(y) /\ In(y)' = In(y) /\ Live(y)' = Live(y)
      BY <1>12, <1>21 DEF Out, In, Live
    <3>2. tx[y].acked <= Len(In(e)) /\ tx[y] \in TxStates
      BY <1>1, <1>2, <2>3, Values DEF LocalInv, In
    <3>3. delivered'[Peer(y)][gen'[y]] = d
      BY <1>1, <1>12, <1>21, <2>3
    <3>4. tx'[y].acked <= Len(d) /\ Len(d) <= tx'[y].fullySent
      BY <1>3, <1>6, <1>7, <1>11, <1>21, <2>3, <3>2 DEF TxStates
    <3> QED BY <1>1, <2>1, <3>1, <3>3, <3>4 DEF LocalInv, SameAt, Watched
  <2> QED BY <2>2, <2>3
<1>29. Announcing'
  BY <1>1, <1>2, <1>21, NothingAnnounced DEF CoreInv
<1> QED BY <1>1, <1>22, <1>24, <1>25, <1>26, <1>27, <1>28, <1>29, Conclude

\* The bridge asked for is later than all those asked for before.
LEMMA AskBridgeStep ==
    ASSUME IInv, AskBridge
    PROVE  IInv'
<1>1. /\ Typed /\ CoreInv /\ Host \in Ends /\ Mobile \in Ends /\ Host # Mobile
      /\ Peer(Host) = Mobile /\ Peer(Mobile) = Host
  BY Locally, TwoEnds
<1>2. PICK p : p = [type |-> "open", gen |-> asked + 1]
  OBVIOUS
<1>3. /\ asked' = asked + 1 /\ asked < MaxGeneration /\ Put(Mobile, p)
      /\ UNCHANGED <<gen, reserved, delivered, adapterVars, relayVars>>
  BY <1>2 DEF AskBridge
<1>4. /\ asked \in Nat /\ asked' \in 0..MaxGeneration /\ asked' \in Generations
      /\ gen[Host] \in Nat /\ gen[Host] <= asked
  BY <1>1, <1>3, RelayAssumption DEF Typed, Generations, CoreInv, Generational
<1>5. Typed'
  BY <1>1, <1>3, <1>4 DEF Typed, adapterVars, relayVars
<1>6. \A x \in Ends : Good(x) \subseteq Good(x)'
  <2>1. \A x \in Ends : tx[x].fullySent <= tx'[x].fullySent
    BY <1>1, <1>3, FullySentKept DEF adapterVars
  <2>2. ASSUME NEW x \in Ends, NEW g \in Generations
        PROVE  /\ Len(reserved[x][g]) <= Len(reserved'[x][g])
               /\ \A i \in 1..Len(reserved[x][g]) : reserved'[x][g][i] = reserved[x][g][i]
               /\ Len(delivered[x][g]) <= Len(delivered'[x][g])
    <3>1. reserved[x][g] \in Seq(Messages) /\ delivered[x][g] \in Seq(Messages)
      BY <1>1 DEF Typed
    <3> QED BY <1>3, <3>1, LenProperties
  <2>3. gen' = gen /\ asked <= asked'
    BY <1>3, <1>4
  <2> QED BY <1>1, <1>5, <2>1, <2>2, <2>3, Growth
<1>7. p \in Good(Host)' /\ IsControl(p) /\ p.gen = asked + 1
  <2>1. p \in Payloads /\ p.type = "open" /\ p.gen = asked + 1
    BY <1>2, <1>3, <1>4 DEF Payloads, Controls
  <2>2. GoodControl(Host, p)'
    BY <1>3, <1>4, <2>1 DEF GoodControl
  <2> QED BY <2>1, <2>2 DEF Good, IsControl
<1>8. ASSUME NEW i \in 1..Len(wire[Host]), IsControl(wire[Host][i])
      PROVE  wire[Host][i].gen < p.gen
  <2>1. wire[Host][i] \in Good(Host)
    BY <1>1, ElementOfSeq DEF CoreInv, WireGood
  <2>2. wire[Host][i].gen <= asked /\ wire[Host][i].gen \in Generations
    BY <1>8, <2>1 DEF Good, GoodControl, IsControl, Payloads, Frames, Acks, Controls
  <2> QED BY <1>4, <1>7, <2>2 DEF Generations
<1>9. WireGood' /\ ControlsInOrder'
  BY <1>1, <1>3, <1>6, <1>7, <1>8, WireAfterPutting DEF CoreInv
<1>10. Generational' /\ Numbered' /\ DeliveredIsSentPrefix'
  BY <1>1, <1>3, <1>4 DEF CoreInv, Generational, Numbered, DeliveredIsSentPrefix, LastSeq
<1>11. \A x \in Ends : LocalInv(x)'
  BY <1>3, Locally, OtherEnd DEF SameAt, adapterVars, relayVars
<1>12. Announcing'
  <2>1. /\ Announcing /\ WireGood /\ wire \in [Ends -> Seq(Payloads)]
        /\ attaching' = attaching /\ buffered' = buffered /\ ready' = ready /\ gen' = gen
        /\ attaching \in Nat /\ asked + 1 = asked'
    BY <1>1, <1>3, RelayAssumption DEF CoreInv, WireGood, relayVars, Typed
  <2>2. wire' = [wire EXCEPT ![Host] = Append(@, p)] /\ p \in Payloads
    BY <1>1, <1>3, <1>7 DEF Put, Good
  <2>3. /\ wire'[Mobile] = wire[Mobile] /\ wire'[Host] = Append(wire[Host], p)
        /\ Len(wire[Host]) \in Nat /\ Len(Append(wire[Host], p)) = Len(wire[Host]) + 1
        /\ \A i \in 1..Len(wire[Host]) : Append(wire[Host], p)[i] = wire[Host][i]
        /\ Append(wire[Host], p)[Len(wire[Host]) + 1] = p
    BY <1>1, <2>1, <2>2, Appended
  <2>4. ASSUME attaching # 0 PROVE attaching <= asked /\ attaching <= asked' /\ attaching < p.gen
    <3>1. attaching <= asked
      BY <2>1, <2>4 DEF Announcing
    <3> QED BY <1>4, <1>7, <2>1, <3>1
  <2>5. ASSUME attaching # 0, NEW i \in 1..Len(wire'[Host]), IsControl(wire'[Host][i])
        PROVE  attaching < wire'[Host][i].gen
    <3>1. CASE i = Len(wire[Host]) + 1
      BY <2>3, <2>4, <2>5, <3>1
    <3>2. CASE i # Len(wire[Host]) + 1
      <4>1. i \in 1..Len(wire[Host])
        BY <2>3, <2>5, <3>2
      <4>2. wire'[Host][i] = wire[Host][i]
        BY <2>3, <4>1
      <4> QED BY <2>1, <2>5, <4>1, <4>2 DEF Announcing
    <3> QED BY <3>1, <3>2
  <2>6. attaching' # 0 =>
           /\ gen'[Host] < attaching' /\ attaching' <= asked'
           /\ \A i \in 1..Len(wire'[Host]) :
                  IsControl(wire'[Host][i]) => attaching' < wire'[Host][i].gen
    BY <2>1, <2>4, <2>5 DEF Announcing
  <2> QED BY <2>1, <2>3, <2>6 DEF Announcing, IsControl
<1> QED BY <1>5, <1>9, <1>10, <1>11, <1>12, Conclude

-----------------------------------------------------------------------------
(* A later generation begins at one end. *)

\* Nothing was reserved or delivered in it, and frames of the earlier one stay what they are.
LEMMA Renewal ==
    ASSUME IInv, NEW e \in Ends, NEW g \in Generations, gen[e] < g, g <= asked,
           e = Mobile => g <= gen[Host],
           Renewed(e, g), UNCHANGED <<asked, reserved, delivered, ready, matches, losses>>,
           unsure' \in [Ends -> BOOLEAN],
           attaching' \in 0..MaxGeneration, buffered' \in Seq(Controls)
    PROVE  /\ Typed' /\ Generational' /\ Numbered' /\ DeliveredIsSentPrefix'
           /\ \A x \in Ends : LocalInv(x)'
           /\ \A p \in Good(Peer(e)) : p \in Good(Peer(e))'
           /\ \A p \in Good(e) : (IsControl(p) => g < p.gen) => p \in Good(e)'
<1>1. /\ Typed /\ CoreInv /\ Peer(e) \in Ends /\ Peer(e) # e /\ Peer(Peer(e)) = e
      /\ \A x \in Ends : x = e \/ x = Peer(e)
      /\ Host \in Ends /\ Mobile \in Ends
  BY Locally, TwoEnds
<1>2. /\ g \in Nat /\ g # 0 /\ gen[e] \in Nat /\ gen[Peer(e)] \in Nat /\ gen[Host] \in Nat
      /\ gen[Mobile] \in Nat /\ asked \in Nat /\ g \in 0..MaxGeneration
  BY <1>1, RelayAssumption DEF Typed, Generations
<1>3. FreshTx \in TxStates /\ FreshRx \in RxStates
  BY DEF FreshTx, TxStates, FreshRx, RxStates
<1>4. /\ gen' \in [Ends -> 0..MaxGeneration] /\ gen'[e] = g /\ gen'[Peer(e)] = gen[Peer(e)]
      /\ tx' \in [Ends -> TxStates] /\ tx'[e] = FreshTx /\ tx'[Peer(e)] = tx[Peer(e)]
      /\ rx' \in [Ends -> RxStates] /\ rx'[e] = FreshRx /\ rx'[Peer(e)] = rx[Peer(e)]
  BY <1>1, <1>2, <1>3 DEF Renewed, Typed
<1>5. /\ saturated' \in [Ends -> BOOLEAN] /\ ~saturated'[e] /\ saturated'[Peer(e)] = saturated[Peer(e)]
      /\ timer' \in [Ends -> BOOLEAN] /\ ~timer'[e] /\ timer'[Peer(e)] = timer[Peer(e)]
      /\ flushing' \in [Ends -> BOOLEAN] /\ flushing'[Peer(e)] = flushing[Peer(e)]
      /\ fault' \in [Ends -> Faults] /\ fault'[e] = "none" /\ fault'[Peer(e)] = fault[Peer(e)]
      /\ dropped' \in [Ends -> BOOLEAN]
  BY <1>1 DEF Renewed, Typed, Faults
<1>6. Typed'
  BY <1>1, <1>4, <1>5 DEF Typed
<1>7. gen'[Host] >= gen[Host] /\ gen'[Mobile] <= gen'[Host] /\ gen'[Host] <= asked
  <2>1. gen[Mobile] <= gen[Host] /\ gen[Host] <= asked
    BY <1>1 DEF CoreInv, Generational
  <2>2. CASE e = Host
    BY <1>1, <1>2, <1>4, <2>1, <2>2, TwoEnds
  <2>3. CASE e = Mobile
    BY <1>1, <1>2, <1>4, <2>1, <2>3, TwoEnds
  <2> QED BY <2>2, <2>3 DEF Ends
<1>8. Generational'
  <2>1. ASSUME NEW x \in Ends, NEW h \in Generations, h > gen'[x]
        PROVE  reserved[x][h] = <<>> /\ delivered[x][h] = <<>>
    <3>1. h \in Nat /\ h > gen[x]
      <4>1. h \in Nat
        BY RelayAssumption DEF Generations
      <4>2. gen[x] <= gen'[x] /\ gen[x] \in Nat /\ gen'[x] \in Nat
        BY <1>1, <1>2, <1>4
      <4> QED BY <2>1, <4>1, <4>2
    <3> QED BY <1>1, <3>1 DEF CoreInv, Generational
  <2> QED BY <1>7, <2>1 DEF Generational
<1>9. Numbered' /\ DeliveredIsSentPrefix'
  <2>1. Numbered'
    BY <1>1 DEF CoreInv, Numbered, LastSeq
  <2>2. DeliveredIsSentPrefix'
    BY <1>1 DEF CoreInv, DeliveredIsSentPrefix
  <2> QED BY <2>1, <2>2
<1>10. LocalInv(e)'
  <2>1. reserved[e][g] = <<>> /\ delivered[e][g] = <<>>
    BY <1>1, <1>2 DEF CoreInv, Generational
  <2>2. Len(delivered[Peer(e)][g]) = 0
    <3>1. Len(delivered[Peer(e)][g]) <= Len(reserved[e][g])
      BY <1>1 DEF CoreInv, DeliveredIsSentPrefix
    <3>2. delivered[Peer(e)][g] \in Seq(Messages)
      BY <1>1 DEF Typed
    <3>3. Len(reserved[e][g]) = 0
      BY <2>1
    <3> QED BY <3>1, <3>2, <3>3, LenProperties
  <2>3. Out(e)' = <<>> /\ In(e)' = <<>>
    BY <1>4, <2>1 DEF Out, In
  <2>4. /\ Len(<<>>) = 0 /\ LastSeq(<<>>, 0) = 0
        /\ HighWaterMark \in Nat /\ ReplayBufferMax \in Nat
    BY RelayAssumption DEF LastSeq
  <2>5. /\ tx'[e].acked = 0 /\ tx'[e].unsent = 1 /\ tx'[e].frame = 0
        /\ tx'[e].fullySent = 0 /\ tx'[e].bytes = 0 /\ rx'[e].ackDue = 0
    BY <1>4 DEF FreshTx, FreshRx
  <2>6. /\ tx'[e].bytes = LastSeq(<<>>, Len(<<>>)) - LastSeq(<<>>, tx'[e].acked)
        /\ tx'[e].bytes <= ReplayBufferMax
        /\ tx'[e].bytes > HighWaterMark => saturated'[e]
    BY <2>4, <2>5
  <2>7. ~Watched(tx'[e], rx'[e], <<>>)
    BY <2>4, <2>5 DEF Watched
  <2>8. /\ tx'[e].acked < tx'[e].unsent /\ tx'[e].unsent <= Len(<<>>) + 1 /\ tx'[e].frame = 0
        /\ rx'[e].ackDue <= Len(<<>>) /\ rx'[e].ackDue = 0 /\ tx'[e].unsent > Len(<<>>)
    BY <2>4, <2>5
  <2>9. /\ tx'[e].acked <= Len(delivered'[Peer(e)][gen'[e]])
        /\ Len(delivered'[Peer(e)][gen'[e]]) <= tx'[e].fullySent
    BY <1>4, <2>2, <2>5
  <2> QED BY <1>5, <2>3, <2>6, <2>7, <2>8, <2>9 DEF LocalInv, Watched
<1>11. LocalInv(Peer(e))'
  <2>1. SameAt(Peer(e))
    BY <1>4, <1>5 DEF SameAt
  <2> QED BY <1>1, <2>1, Locally, OtherEnd
<1>12. \A x \in Ends : LocalInv(x)'
  BY <1>1, <1>10, <1>11
<1>13. \A x \in Ends, h \in Generations :
          /\ Len(reserved[x][h]) <= Len(reserved'[x][h])
          /\ \A k \in 1..Len(reserved[x][h]) : reserved'[x][h][k] = reserved[x][h][k]
          /\ Len(delivered[x][h]) <= Len(delivered'[x][h])
  <2> SUFFICES ASSUME NEW x \in Ends, NEW h \in Generations
               PROVE  /\ Len(reserved[x][h]) <= Len(reserved[x][h])
                      /\ Len(delivered[x][h]) <= Len(delivered[x][h])
    OBVIOUS
  <2>1. reserved[x][h] \in Seq(Messages) /\ delivered[x][h] \in Seq(Messages)
    BY <1>1 DEF Typed
  <2> QED BY <2>1, LenProperties
<1>14. \A p \in Good(Peer(e)) : p \in Good(Peer(e))'
  <2>1. gen[e] <= gen'[e] /\ ~(gen'[e] = gen[e]) /\ gen[Host] <= gen'[Host] /\ asked <= asked'
    BY <1>2, <1>4, <1>7
  <2> QED BY <1>1, <1>4, <1>6, <1>13, <2>1, GoodStays
<1>15. ASSUME NEW p \in Good(e), IsControl(p) => g < p.gen PROVE p \in Good(e)'
  <2>1. /\ p \in Payloads
        /\ p.type = "frame" => GoodFrame(e, p)
        /\ p.type = "ack" => p.upTo <= Len(delivered[Peer(e)][p.gen])
        /\ IsControl(p) => GoodControl(e, p)
    BY DEF Good
  <2>2. p.type = "frame" => GoodFrame(e, p)'
    BY <1>1, <1>4, <2>1 DEF GoodFrame
  <2>3. IsControl(p) => GoodControl(e, p)'
    <3> HAVE IsControl(p)
    <3>1. GoodControl(e, p) /\ g < p.gen
      BY <1>15, <2>1
    <3>2. CASE e = Host
      BY <1>4, <3>1, <3>2 DEF GoodControl
    <3>3. CASE e # Host
      <4>1. gen'[Host] = gen[Host]
        BY <1>1, <1>4, <3>3
      <4> QED BY <1>4, <3>1, <3>3, <4>1 DEF GoodControl
    <3> QED BY <3>2, <3>3
  <2> QED BY <2>1, <2>2, <2>3 DEF Good, IsControl
<1> QED BY <1>6, <1>8, <1>9, <1>12, <1>14, <1>15

\* The control an end takes comes before the others under way to it.
LEMMA ControlTaken ==
    ASSUME IInv, NEW e \in Ends, wire[e] # <<>>, IsControl(Head(wire[e]))
    PROVE  /\ Head(wire[e]).gen \in Generations /\ GoodControl(e, Head(wire[e]))
           /\ Tail(wire[e]) \in Seq(Good(e))
           /\ \A i \in 1..Len(Tail(wire[e])) :
                /\ Tail(wire[e])[i] \in Good(e)
                /\ IsControl(Tail(wire[e])[i]) => Head(wire[e]).gen < Tail(wire[e])[i].gen
<1>1. WireGood /\ ControlsInOrder
  BY Locally DEF CoreInv
<1>2. Head(wire[e]) \in Good(e)
  BY <1>1, HeadIsGood
<1>3. Head(wire[e]).gen \in Generations /\ GoodControl(e, Head(wire[e]))
  BY <1>2 DEF Good, IsControl, Payloads, Frames, Acks, Controls
<1>4. /\ wire[e] \in Seq(Good(e)) /\ Head(wire[e]) = wire[e][1] /\ Len(wire[e]) \in Nat
      /\ Len(wire[e]) >= 1 /\ Tail(wire[e]) \in Seq(Good(e))
      /\ Len(Tail(wire[e])) = Len(wire[e]) - 1
      /\ \A i \in 1..Len(Tail(wire[e])) : Tail(wire[e])[i] = wire[e][i + 1]
      /\ \A i \in 1..Len(wire[e]) : wire[e][i] \in Good(e)
  <2>1. wire[e] \in Seq(Good(e))
    BY <1>1 DEF WireGood
  <2> QED BY <2>1, HeadAndTail
<1>5. ASSUME NEW i \in 1..Len(Tail(wire[e]))
      PROVE  /\ Tail(wire[e])[i] \in Good(e)
             /\ IsControl(Tail(wire[e])[i]) => Head(wire[e]).gen < Tail(wire[e])[i].gen
  <2>1. i + 1 \in 1..Len(wire[e]) /\ 1 \in 1..Len(wire[e]) /\ 1 < i + 1
    BY <1>4
  <2>2. /\ Tail(wire[e])[i] = wire[e][i + 1] /\ wire[e][i + 1] \in Good(e)
        /\ IsControl(wire[e][1])
    BY <1>4, <2>1
  <2> QED BY <1>1, <1>4, <2>1, <2>2 DEF ControlsInOrder
<1> QED BY <1>3, <1>4, <1>5

LEMMA TailKeepsOrder ==
    ASSUME WireGood, ControlsInOrder, NEW e \in Ends, wire[e] # <<>>,
           wire'[e] = Tail(wire[e]), \A x \in Ends : x # e => wire'[x] = wire[x]
    PROVE  ControlsInOrder'
<1> SUFFICES ASSUME NEW x \in Ends, NEW i \in 1..Len(wire'[x]), NEW j \in 1..Len(wire'[x]),
                    i < j, IsControl(wire'[x][i]), IsControl(wire'[x][j])
             PROVE  wire'[x][i].gen < wire'[x][j].gen
  BY DEF ControlsInOrder, IsControl
<1>1. CASE x # e
  BY <1>1 DEF ControlsInOrder
<1>2. CASE x = e
  <2>1. /\ Len(wire[e]) \in Nat /\ Len(Tail(wire[e])) = Len(wire[e]) - 1
        /\ wire'[e] = Tail(wire[e])
        /\ \A k \in 1..Len(Tail(wire[e])) : Tail(wire[e])[k] = wire[e][k + 1]
    BY HeadAndTail DEF WireGood
  <2>2. /\ i + 1 \in 1..Len(wire[e]) /\ j + 1 \in 1..Len(wire[e]) /\ i + 1 < j + 1
        /\ wire'[e][i] = wire[e][i + 1] /\ wire'[e][j] = wire[e][j + 1]
    <3>1. i \in 1..(Len(wire[e]) - 1) /\ j \in 1..(Len(wire[e]) - 1)
      BY <1>2, <2>1
    <3> QED BY <2>1, <3>1
  <2> QED BY <1>2, <2>2 DEF ControlsInOrder
<1> QED BY <1>1, <1>2

LEMMA BridgeOpenedStep ==
    ASSUME IInv, BridgeOpened
    PROVE  IInv'
<1> DEFINE hd == Head(wire[Mobile])
<1>1. /\ Typed /\ CoreInv /\ WireGood /\ ControlsInOrder
      /\ Host \in Ends /\ Mobile \in Ends /\ Host # Mobile
      /\ Peer(Host) = Mobile /\ Peer(Mobile) = Host /\ \A x \in Ends : x = Mobile \/ x = Host
  BY Locally, TwoEnds DEF CoreInv
<1>2. /\ wire[Mobile] # <<>> /\ IsControl(hd) /\ Taken(Mobile)
      /\ UNCHANGED <<asked, reserved, delivered, ready, matches, losses>>
  BY DEF BridgeOpened, Arrives, IsControl
<1>3. hd.gen \in Generations /\ gen[Mobile] < hd.gen /\ hd.gen <= gen[Host] /\ gen[Host] <= asked
  BY <1>1, <1>2, ControlTaken DEF GoodControl, CoreInv, Generational
<1>4. /\ Renewed(Mobile, hd.gen) /\ unsure' = [unsure EXCEPT ![Mobile] = FALSE]
      /\ attaching' = attaching /\ buffered' = buffered
  BY DEF BridgeOpened
<1>5. /\ unsure' \in [Ends -> BOOLEAN] /\ hd.gen <= asked
      /\ attaching' \in 0..MaxGeneration /\ buffered' \in Seq(Controls)
  <2>1. hd.gen \in Nat /\ gen[Host] \in Nat /\ asked \in Nat
    BY <1>1, <1>3, RelayAssumption DEF Typed, Generations
  <2> QED BY <1>1, <1>3, <1>4, <2>1 DEF Typed
<1> HIDE DEF hd
<1>6. /\ Typed' /\ Generational' /\ Numbered' /\ DeliveredIsSentPrefix'
      /\ \A x \in Ends : LocalInv(x)'
      /\ \A p \in Good(Host) : p \in Good(Host)'
      /\ \A p \in Good(Mobile) : (IsControl(p) => hd.gen < p.gen) => p \in Good(Mobile)'
  BY <1>1, <1>2, <1>3, <1>4, <1>5, Renewal
<1> USE DEF hd
<1>7. /\ wire' \in [Ends -> Seq(Payloads)] /\ wire'[Mobile] = Tail(wire[Mobile])
      /\ wire'[Host] = wire[Host]
  BY <1>1, <1>2, HeadAndTail DEF WireGood, Taken
<1>8. wire'[Host] \in Seq(Good(Host)')
  <2>1. wire[Host] \in Seq(Good(Host))
    BY <1>1 DEF WireGood
  <2>2. \A i \in 1..Len(wire[Host]) : wire[Host][i] \in Good(Host)'
    BY <1>6, <2>1, ElementOfSeq
  <2> QED BY <1>7, <2>1, <2>2, LargerSet
<1>9. wire'[Mobile] \in Seq(Good(Mobile)')
  <2>1. /\ Tail(wire[Mobile]) \in Seq(Good(Mobile))
        /\ \A i \in 1..Len(Tail(wire[Mobile])) : Tail(wire[Mobile])[i] \in Good(Mobile)'
    BY <1>1, <1>2, <1>6, ControlTaken
  <2> QED BY <1>7, <2>1, LargerSet
<1>10. ControlsInOrder'
  BY <1>1, <1>2, <1>7, TailKeepsOrder
<1>11. WireGood'
  BY <1>1, <1>7, <1>8, <1>9 DEF WireGood
<1>12. Announcing'
  <2>1. Announcing /\ gen' = [gen EXCEPT ![Mobile] = hd.gen] /\ gen \in [Ends -> 0..MaxGeneration]
    BY <1>1, <1>4 DEF CoreInv, Renewed, Typed
  <2>2. gen'[Host] = gen[Host] /\ gen'[Mobile] = hd.gen
    BY <1>1, <2>1
  <2>3. 1 \in 1..Len(wire[Mobile]) /\ wire[Mobile][1] = hd
    BY <1>1, <1>2, HeadAndTail DEF WireGood
  <2>4. Inherited(Host) /\ Inherited(Mobile)
    BY <1>1, <1>2, InheritedByTaking
  <2>5. ready'[Host] => ready[Host]
    BY <1>2
  <2>6. \E k \in 1..Len(wire[Mobile]) :
           IsControl(wire[Mobile][k]) /\ wire[Mobile][k].gen = gen'[Mobile]
    BY <1>2, <2>2, <2>3
  <2> QED BY <1>2, <1>4, <2>1, <2>2, <2>4, <2>5, <2>6, AnnouncingKept
<1> QED BY <1>6, <1>10, <1>11, <1>12, Conclude

\* The bridge of the desktop is disposed of; the one asked for is later than it and earlier
\* than those still to be opened.
LEMMA OpenBridgeStep ==
    ASSUME IInv, OpenBridge
    PROVE  IInv'
<1>1. /\ Typed /\ CoreInv /\ WireGood /\ ControlsInOrder /\ Announcing
      /\ Host \in Ends /\ Mobile \in Ends /\ Host # Mobile
  BY Locally, TwoEnds DEF CoreInv
<1>2. PICK g : g = Head(wire[Host]).gen
  OBVIOUS
<1>3. /\ wire[Host] # <<>> /\ IsControl(Head(wire[Host])) /\ Taken(Host) /\ attaching' = g
      /\ Degrade(Host, "disposed")
      /\ UNCHANGED <<sessionVars, ready, matches, losses, dropped, unsure, buffered>>
  BY <1>2 DEF OpenBridge, Arrives, IsControl
<1>4. /\ g \in Generations /\ gen[Host] < g /\ g <= asked
      /\ \A i \in 1..Len(Tail(wire[Host])) :
            IsControl(Tail(wire[Host])[i]) => g < Tail(wire[Host])[i].gen
  BY <1>1, <1>2, <1>3, ControlTaken DEF GoodControl
<1>5. attaching' \in 0..MaxGeneration
  BY <1>3, <1>4, RelayAssumption DEF Generations
<1>6. /\ Typed' /\ Steady /\ SameAt(Peer(Host)) /\ LocalInv(Host)'
      /\ tx[Host].fullySent <= tx'[Host].fullySent
  <2>1. "disposed" \in Faults \ {"none", "futureAck"}
    BY DEF Faults
  <2> QED BY <1>1, <1>3, <1>5, <2>1, DegradedAdapter
<1>7. Announcing'
  <2>1. wire'[Host] = Tail(wire[Host]) /\ wire'[Mobile] = wire[Mobile]
    BY <1>1, <1>3 DEF Taken, WireGood
  <2>2. gen' = gen /\ asked' = asked /\ ready' = ready /\ buffered' = buffered
    BY <1>3 DEF sessionVars
  <2>3. /\ gen'[Host] < attaching' /\ attaching' <= asked'
        /\ \A i \in 1..Len(wire'[Host]) :
               IsControl(wire'[Host][i]) => attaching' < wire'[Host][i].gen
    BY <1>3, <1>4, <2>1, <2>2
  <2> QED BY <1>1, <2>1, <2>2, <2>3 DEF Announcing, IsControl
<1> QED BY <1>1, <1>3, <1>6, <1>7, SteadyStep

\* The bridge attached is announced after everything announced before it.
LEMMA BridgeAttachedStep ==
    ASSUME IInv, BridgeAttached
    PROVE  IInv'
<1>1. /\ Typed /\ CoreInv /\ WireGood /\ ControlsInOrder /\ Announcing
      /\ Host \in Ends /\ Mobile \in Ends /\ Host # Mobile
      /\ Peer(Host) = Mobile /\ Peer(Mobile) = Host /\ \A x \in Ends : x = Mobile \/ x = Host
  BY Locally, TwoEnds DEF CoreInv
<1>2. PICK g : g = attaching
  OBVIOUS
<1>3. PICK p : p = [type |-> "opened", gen |-> g]
  OBVIOUS
<1>4. /\ g # 0 /\ Renewed(Host, g) /\ attaching' = 0
      /\ UNCHANGED <<asked, reserved, delivered, ready, matches, losses>>
      /\ unsure' = [unsure EXCEPT ![Host] = FALSE]
      /\ ready[Host] => Put(Host, p) /\ buffered' = buffered
      /\ ~ready[Host] => wire' = wire /\ buffered' = Append(buffered, p)
  BY <1>2, <1>3 DEF BridgeAttached
<1>5. /\ g \in Generations /\ gen[Host] < g /\ g <= asked /\ gen[Mobile] <= gen[Host]
      /\ gen[Host] \in Nat /\ gen[Mobile] \in Nat /\ g \in Nat
      /\ \A i \in 1..Len(wire[Host]) : IsControl(wire[Host][i]) => g < wire[Host][i].gen
  <2>1. g \in Generations /\ g \in Nat
    BY <1>1, <1>2, <1>4, RelayAssumption DEF Typed, Generations
  <2>2. /\ gen[Host] < g /\ g <= asked
        /\ \A i \in 1..Len(wire[Host]) : IsControl(wire[Host][i]) => g < wire[Host][i].gen
    BY <1>1, <1>2, <1>4 DEF Announcing
  <2>3. gen[Mobile] <= gen[Host] /\ gen[Host] \in Nat /\ gen[Mobile] \in Nat
    BY <1>1, RelayAssumption DEF CoreInv, Generational, Typed
  <2> QED BY <2>1, <2>2, <2>3
<1>6. p \in Controls /\ p \in Payloads /\ p.type = "opened" /\ p.gen = g /\ IsControl(p)
  BY <1>3, <1>5 DEF Payloads, Controls, IsControl
<1>7. buffered \in Seq(Controls) /\ Append(buffered, p) \in Seq(Controls)
  BY <1>1, <1>6, Appended DEF Typed
<1>8. /\ unsure' \in [Ends -> BOOLEAN] /\ attaching' \in 0..MaxGeneration
      /\ buffered' \in Seq(Controls)
  <2>1. unsure' \in [Ends -> BOOLEAN] /\ attaching' \in 0..MaxGeneration
    BY <1>1, <1>4, RelayAssumption DEF Typed
  <2>2. CASE ready[Host]
    BY <1>4, <1>7, <2>1, <2>2
  <2>3. CASE ~ready[Host]
    BY <1>4, <1>7, <2>1, <2>3
  <2> QED BY <2>2, <2>3
<1>9. /\ Typed' /\ Generational' /\ Numbered' /\ DeliveredIsSentPrefix'
      /\ \A x \in Ends : LocalInv(x)'
      /\ \A q \in Good(Mobile) : q \in Good(Mobile)'
      /\ \A q \in Good(Host) : (IsControl(q) => g < q.gen) => q \in Good(Host)'
  BY <1>1, <1>4, <1>5, <1>8, Renewal
<1>10. gen'[Host] = g /\ gen'[Mobile] = gen[Mobile] /\ ready' = ready
  BY <1>1, <1>4 DEF Renewed, Typed
<1>11. p \in Good(Mobile)'
  <2>1. GoodControl(Mobile, p)'
    BY <1>1, <1>5, <1>6, <1>10 DEF GoodControl
  <2> QED BY <1>6, <2>1 DEF Good, IsControl
<1>12. PICK u, v : u = wire[Mobile] /\ v = wire'[Mobile]
  OBVIOUS
<1>13. u \in Seq(Payloads) /\ u \in Seq(Good(Mobile)) /\ Len(u) \in Nat
  BY <1>1, <1>12, LenProperties DEF WireGood
<1>14. /\ wire' \in [Ends -> Seq(Payloads)] /\ wire'[Host] = wire[Host]
       /\ ready[Host] => v = Append(u, p)
       /\ ~ready[Host] => v = u
  <2>1. CASE ready[Host]
    <3>1. Append(u, p) \in Seq(Payloads)
      BY <1>6, <1>13, Appended
    <3>2. wire' = [wire EXCEPT ![Mobile] = Append(u, p)]
      BY <1>1, <1>4, <1>12, <2>1 DEF Put, WireGood
    <3> QED BY <1>1, <1>12, <2>1, <3>1, <3>2 DEF WireGood
  <2>2. CASE ~ready[Host]
    BY <1>1, <1>4, <1>12, <2>2 DEF WireGood
  <2> QED BY <2>1, <2>2
<1>15. /\ Append(u, p) \in Seq(Payloads) /\ Len(Append(u, p)) = Len(u) + 1
       /\ \A i \in 1..Len(u) : Append(u, p)[i] = u[i]
       /\ Append(u, p)[Len(u) + 1] = p
  BY <1>6, <1>13, Appended
<1>16. \A i \in 1..Len(u) : IsControl(u[i]) => u[i].gen <= gen[Host] /\ u[i].gen \in Nat
  <2> SUFFICES ASSUME NEW i \in 1..Len(u), IsControl(u[i])
               PROVE  u[i].gen <= gen[Host] /\ u[i].gen \in Nat
    OBVIOUS
  <2>1. u[i] \in Good(Mobile)
    BY <1>13, ElementOfSeq
  <2>2. GoodControl(Mobile, u[i])
    BY <2>1 DEF Good
  <2>3. u[i].gen \in Nat
    BY <2>1, RelayAssumption
    DEF Good, IsControl, Payloads, Frames, Acks, Controls, Generations
  <2> QED BY <1>1, <2>2, <2>3 DEF GoodControl
<1>17. WireGood'
  <2>1. wire'[Host] \in Seq(Good(Host)')
    <3>1. wire[Host] \in Seq(Good(Host))
      BY <1>1 DEF WireGood
    <3>2. \A i \in 1..Len(wire[Host]) : wire[Host][i] \in Good(Host)'
      BY <1>5, <1>9, <3>1, ElementOfSeq
    <3> QED BY <1>14, <3>1, <3>2, LargerSet
  <2>2. u \in Seq(Good(Mobile)')
    <3>1. \A i \in 1..Len(u) : u[i] \in Good(Mobile)'
      BY <1>9, <1>13, ElementOfSeq
    <3> QED BY <1>13, <3>1, LargerSet
  <2>3. Append(u, p) \in Seq(Good(Mobile)')
    BY <1>11, <2>2, Appended
  <2>4. v \in Seq(Good(Mobile)')
    BY <1>14, <2>2, <2>3
  <2> QED BY <1>1, <1>12, <1>14, <2>1, <2>4 DEF WireGood
<1>18. ASSUME NEW i \in 1..Len(v), NEW j \in 1..Len(v), i < j, IsControl(v[i]), IsControl(v[j])
       PROVE  v[i].gen < v[j].gen
  <2>0. \A a, b \in 1..Len(u) :
           a < b /\ IsControl(u[a]) /\ IsControl(u[b]) => u[a].gen < u[b].gen
    BY <1>1, <1>12 DEF ControlsInOrder
  <2>1. CASE ~ready[Host]
    BY <1>14, <1>18, <2>0, <2>1
  <2>2. CASE ready[Host]
    <3>1. /\ Len(v) = Len(u) + 1 /\ \A k \in 1..Len(u) : v[k] = u[k]
          /\ v[Len(u) + 1] = p
      BY <1>14, <1>15, <2>2
    <3>2. i \in 1..Len(u)
      BY <1>13, <1>18, <3>1
    <3>3. CASE j = Len(u) + 1
      <4>1. v[i].gen <= gen[Host] /\ v[i].gen \in Nat /\ v[j].gen = g
        BY <1>6, <1>16, <1>18, <3>1, <3>2, <3>3
      <4> QED BY <1>5, <4>1
    <3>4. CASE j # Len(u) + 1
      <4>1. j \in 1..Len(u)
        BY <1>13, <1>18, <3>1, <3>4
      <4> QED BY <1>18, <2>0, <3>1, <3>2, <4>1
    <3> QED BY <3>3, <3>4
  <2> QED BY <2>1, <2>2
<1>19. ControlsInOrder'
  BY <1>1, <1>12, <1>14, <1>18 DEF ControlsInOrder, IsControl
<1>20. PICK b, c : b = buffered /\ c = buffered'
  OBVIOUS
<1>21. CASE ready[Host]
  <2>1. b = <<>>
    BY <1>1, <1>20, <1>21 DEF Announcing
  <2>2. Len(b) = 0 /\ c = b
    BY <1>4, <1>20, <1>21, <2>1, EmptySeq
  <2>3. Len(buffered') = 0 /\ buffered' = <<>>
    BY <1>20, <2>1, <2>2
  <2>4. Announcing'
    BY <1>4, <2>3 DEF Announcing
  <2> QED BY <1>9, <1>17, <1>19, <2>4, Conclude
<1>22. CASE ~ready[Host]
  <2>1. c = Append(b, p) /\ b \in Seq(Controls) /\ v = u
    BY <1>4, <1>7, <1>14, <1>20, <1>22
  <2>2. /\ Len(c) = Len(b) + 1 /\ Len(b) \in Nat /\ c[Len(b) + 1] = p
        /\ \A i \in 1..Len(b) : c[i] = b[i]
    BY <1>6, <2>1, Appended
  <2>3. \A j \in 1..Len(b) :
          /\ b[j].type = "opened" /\ gen[Mobile] < b[j].gen /\ b[j].gen <= gen[Host]
          /\ b[j].gen \in Nat
          /\ \A i \in 1..Len(u) : IsControl(u[i]) => u[i].gen < b[j].gen
          /\ \A i \in 1..Len(b) : i < j => b[i].gen < b[j].gen
    <3> SUFFICES ASSUME NEW j \in 1..Len(b)
                 PROVE  /\ b[j].type = "opened" /\ gen[Mobile] < b[j].gen /\ b[j].gen <= gen[Host]
                        /\ b[j].gen \in Nat
                        /\ \A i \in 1..Len(u) : IsControl(u[i]) => u[i].gen < b[j].gen
                        /\ \A i \in 1..Len(b) : i < j => b[i].gen < b[j].gen
      OBVIOUS
    <3>1. b[j] \in Controls
      BY <2>1, ElementOfSeq
    <3>2. b[j].gen \in Nat
      BY <3>1, RelayAssumption DEF Controls, Generations
    <3> QED BY <1>1, <1>12, <1>20, <3>2 DEF Announcing
  <2>4. ASSUME NEW j \in 1..Len(c)
        PROVE  /\ c[j].type = "opened"
               /\ gen'[Mobile] < c[j].gen /\ c[j].gen <= gen'[Host]
               /\ \A i \in 1..Len(v) : IsControl(v[i]) => v[i].gen < c[j].gen
               /\ \A i \in 1..Len(c) : i < j => c[i].gen < c[j].gen
    <3>1. CASE j = Len(b) + 1
      <4>1. c[j].type = "opened" /\ c[j].gen = g
        BY <1>6, <2>2, <3>1
      <4>2. gen'[Mobile] < g /\ g <= gen'[Host]
        BY <1>5, <1>10
      <4>3. ASSUME NEW i \in 1..Len(v), IsControl(v[i]) PROVE v[i].gen < g
        <5>1. v[i].gen <= gen[Host] /\ v[i].gen \in Nat
          BY <1>16, <2>1, <4>3
        <5> QED BY <1>5, <5>1
      <4>4. ASSUME NEW i \in 1..Len(c), i < j PROVE c[i].gen < g
        <5>1. i \in 1..Len(b)
          BY <2>2, <3>1, <4>4
        <5>2. c[i].gen <= gen[Host] /\ c[i].gen \in Nat
          BY <2>2, <2>3, <5>1
        <5> QED BY <1>5, <5>2
      <4> QED BY <4>1, <4>2, <4>3, <4>4
    <3>2. CASE j # Len(b) + 1
      <4>1. j \in 1..Len(b) /\ c[j] = b[j]
        BY <2>2, <2>4, <3>2
      <4>2. c[j].gen <= gen'[Host] /\ gen'[Mobile] < c[j].gen
        BY <1>5, <1>10, <2>3, <4>1
      <4>3. ASSUME NEW i \in 1..Len(c), i < j PROVE c[i].gen < c[j].gen
        <5>1. i \in 1..Len(b) /\ c[i] = b[i]
          BY <2>2, <4>1, <4>3
        <5> QED BY <2>3, <4>1, <4>3, <5>1
      <4> QED BY <2>1, <2>3, <4>1, <4>2, <4>3
    <3> QED BY <3>1, <3>2
  <2>5. Announcing'
    BY <1>4, <1>10, <1>12, <1>20, <1>22, <2>4 DEF Announcing, IsControl
  <2> QED BY <1>9, <1>17, <1>19, <2>5, Conclude
<1> QED BY <1>21, <1>22

\* Neither adapter moves: a request is refused or late, an attachment fails, an announcement
\* has waited too long.
LEMMA StandingStill ==
    ASSUME IInv, UNCHANGED <<sessionVars, adapterVars, ready, matches, losses, dropped, unsure>>,
           attaching' \in 0..MaxGeneration, buffered' \in Seq(Controls)
    PROVE  /\ Typed' /\ Steady
           /\ \A x \in Ends : SameAt(x) /\ LocalInv(x)' /\ tx[x].fullySent <= tx'[x].fullySent
<1>1. Typed' /\ Steady /\ \A x \in Ends : SameAt(x)
  BY Locally, TwoEnds DEF Typed, Steady, SameAt, sessionVars, adapterVars
<1>2. ASSUME NEW x \in Ends PROVE LocalInv(x)' /\ tx[x].fullySent <= tx'[x].fullySent
  <2>1. LocalInv(x)'
    BY <1>1, Locally, OtherEnd DEF Steady
  <2>2. tx' = tx
    BY DEF adapterVars
  <2> QED BY <2>1, <2>2, Locally, FullySentKept
<1> QED BY <1>1, <1>2

LEMMA BridgeAside ==
    ASSUME IInv, OpenRefused \/ AttachFails \/ BufferExpires \/ OpenedLate
    PROVE  IInv'
<1>1. /\ Typed /\ CoreInv /\ WireGood /\ Announcing /\ Host \in Ends /\ Mobile \in Ends
      /\ Peer(Host) = Mobile /\ Peer(Mobile) = Host
  BY Locally, TwoEnds DEF CoreInv
<1>2. UNCHANGED <<sessionVars, adapterVars, ready, matches, losses, dropped, unsure>>
  BY DEF OpenRefused, AttachFails, BufferExpires, OpenedLate, relayVars
<1>3. attaching' \in 0..MaxGeneration /\ buffered' \in Seq(Controls)
  <2>1. attaching \in 0..MaxGeneration /\ buffered \in Seq(Controls) /\ 0 \in 0..MaxGeneration
    BY <1>1, RelayAssumption DEF Typed
  <2>2. <<>> \in Seq(Controls)
    BY EmptySeq
  <2>3. CASE OpenRefused \/ OpenedLate
    BY <2>1, <2>3 DEF OpenRefused, OpenedLate, relayVars
  <2>4. CASE AttachFails
    BY <2>1, <2>4 DEF AttachFails
  <2>5. CASE BufferExpires
    BY <2>1, <2>2, <2>5 DEF BufferExpires
  <2> QED BY <2>3, <2>4, <2>5
<1>4. /\ Typed' /\ Steady
      /\ \A x \in Ends : SameAt(x) /\ LocalInv(x)' /\ tx[x].fullySent <= tx'[x].fullySent
  BY <1>2, <1>3, StandingStill
<1>5. CASE OpenRefused
  <2>1. wire[Host] # <<>> /\ Taken(Host) /\ Quiet
    BY <1>4, <1>5 DEF OpenRefused, Arrives, relayVars, Quiet
  <2> QED BY <1>1, <1>4, <2>1, QuietStep
<1>6. CASE OpenedLate
  <2>1. wire[Mobile] # <<>> /\ Taken(Mobile) /\ Quiet
    BY <1>4, <1>6 DEF OpenedLate, Arrives, relayVars, Quiet
  <2> QED BY <1>1, <1>4, <2>1, QuietStep
<1>7. CASE AttachFails
  <2>1. wire' = wire /\ gen' = gen /\ ready' = ready /\ buffered' = buffered /\ attaching' = 0
    BY <1>7 DEF AttachFails, sessionVars
  <2>2. Announcing'
    BY <1>1, <2>1 DEF Announcing, IsControl
  <2> QED BY <1>1, <1>4, <2>1, <2>2, SteadyStep
<1>8. CASE BufferExpires
  <2>1. /\ wire' = wire /\ gen' = gen /\ asked' = asked /\ attaching' = attaching
        /\ buffered' = <<>> /\ Len(<<>>) = 0
    BY <1>8, EmptySeq DEF BufferExpires, sessionVars
  <2>2. Announcing'
    BY <1>1, <2>1 DEF Announcing, IsControl
  <2> QED BY <1>1, <1>4, <2>1, <2>2, SteadyStep
<1> QED BY <1>5, <1>6, <1>7, <1>8

-----------------------------------------------------------------------------
(* The invariant, and what follows from it. *)

LEMMA InitInv == Init => IInv
<1> SUFFICES ASSUME Init PROVE IInv
  OBVIOUS
<1>1. Host \in Ends /\ Mobile \in Ends /\ \A e \in Ends : Peer(e) \in Ends
  BY TwoEnds
<1>2. <<>> \in Seq(Messages) /\ <<>> \in Seq(Payloads) /\ Len(<<>>) = 0
  BY EmptySeq
<1>3. FreshTx \in TxStates /\ FreshRx \in RxStates
  BY DEF FreshTx, TxStates, FreshRx, RxStates
<1>4. Typed
  <2>1. buffered \in Seq(Controls) /\ attaching \in 0..MaxGeneration
    BY EmptySeq, RelayAssumption DEF Init
  <2> QED BY <1>2, <1>3, <2>1, RelayAssumption DEF Init, Typed, Faults
<1>5. WireGood /\ ControlsInOrder
  <2>1. \A x \in Ends : <<>> \in Seq(Good(x))
    BY EmptySeq
  <2> QED BY <1>2, <2>1 DEF Init, WireGood, ControlsInOrder
<1>6. Generational
  BY <1>1 DEF Init, Generational
<1>7. Numbered
  <2> SUFFICES ASSUME NEW e \in Ends, NEW g \in Generations,
                      NEW i \in 0..Len(reserved[e][g]), NEW j \in 0..Len(reserved[e][g])
               PROVE  LastSeq(reserved[e][g], i) <= LastSeq(reserved[e][g], j)
    BY DEF Numbered
  <2>1. i = 0 /\ j = 0
    <3>1. Len(reserved[e][g]) = 0
      BY <1>2 DEF Init
    <3> QED BY <3>1
  <2> QED BY <2>1 DEF LastSeq
<1>8. DeliveredIsSentPrefix
  BY <1>1, <1>2 DEF Init, DeliveredIsSentPrefix
<1>9. Sending /\ Acknowledging /\ AckedIsDelivered /\ BytesAreKept /\ TimerArmed /\ NothingStuck
  BY DEF Init, Live, Sending, Acknowledging, AckedIsDelivered, BytesAreKept, TimerArmed, NothingStuck
<1>10. Announcing
  BY <1>2, EmptySeq DEF Init, Announcing
<1> QED BY <1>4, <1>5, <1>6, <1>7, <1>8, <1>9, <1>10 DEF IInv, CoreInv

LEMMA StutterInv ==
    ASSUME IInv, UNCHANGED vars
    PROVE  IInv'
<1> USE DEF vars, sessionVars, adapterVars, linkVars, relayVars
<1>1. /\ Typed' /\ Quiet /\ \A x \in Ends : SameAt(x)
  BY Locally, TwoEnds DEF Typed, Quiet, Steady, SameAt
<1>2. LocalInv(Host)' /\ Host \in Ends /\ Peer(Host) \in Ends
  BY <1>1, Locally, OtherEnd, TwoEnds DEF Quiet, Steady
<1>3. tx[Host].fullySent <= tx'[Host].fullySent
  BY <1>2, Locally, FullySentKept
<1> QED BY <1>1, <1>2, <1>3, QuietStep

LEMMA NextInv == IInv /\ [Next]_vars => IInv'
<1> SUFFICES ASSUME IInv, [Next]_vars PROVE IInv'
  OBVIOUS
<1>1. ASSUME NEW e \in Ends, Step(e) PROVE IInv'
  <2>1. CASE Reserve(e)
    BY <2>1, ReserveStep
  <2>2. CASE ReserveOverflows(e) \/ GraceExpires(e) \/ AssemblyExpires(e)
             \/ FaultArrives(e) \/ DeliveryFails(e)
    BY <2>2, Degradations
  <2>3. CASE SendAck(e)
    BY <2>3, SendAckStep
  <2>4. CASE SendFrame(e)
    BY <2>4, SendFrameStep
  <2>5. CASE FlushEnds(e)
    BY <2>5, FlushEndsStep
  <2>6. CASE Ignore(e) \/ Disconnect(e) \/ Lose(e)
    BY <2>6, AdaptersUntouched
  <2>7. CASE AckArrives(e)
    BY <2>7, AckArrivesStep
  <2>8. CASE DuplicateArrives(e)
    BY <2>8, DuplicateArrivesStep
  <2>9. CASE FragmentArrives(e)
    BY <2>9, FragmentArrivesStep
  <2>10. CASE MessageArrives(e)
    BY <2>10, MessageArrivesStep
  <2>11. CASE SendReady(e)
    BY <2>11, SendReadyStep
  <2> QED BY <1>1, <2>1, <2>2, <2>3, <2>4, <2>5, <2>6, <2>7, <2>8, <2>9, <2>10, <2>11 DEF Step
<1>2. CASE AskBridge
  BY <1>2, AskBridgeStep
<1>3. CASE OpenBridge
  BY <1>3, OpenBridgeStep
<1>4. CASE BridgeAttached
  BY <1>4, BridgeAttachedStep
<1>5. CASE OpenRefused \/ AttachFails \/ BufferExpires \/ OpenedLate
  BY <1>5, BridgeAside
<1>6. CASE BridgeOpened
  BY <1>6, BridgeOpenedStep
<1>7. CASE UNCHANGED vars
  BY <1>7, StutterInv
<1> QED BY <1>1, <1>2, <1>3, <1>4, <1>5, <1>6, <1>7 DEF Next

LEMMA Invariance == Spec => []IInv
BY InitInv, NextInv, PTL DEF Spec

LEMMA TypedWire == IInv => TypeOK
BY DEF IInv, CoreInv, Typed, WireGood, TypeOK

\* Every variable of the session keeps its type, for every workload and all limits.
THEOREM TypeCorrect == Spec => []TypeOK
BY Invariance, TypedWire, PTL

\* What a channel is given is what the other one sent, in order, once and whole, however
\* often the relay announces the peer and whatever it loses.
THEOREM ExactlyOnce == Spec => []DeliveredIsSentPrefix
<1>1. IInv => DeliveredIsSentPrefix
  BY DEF IInv, CoreInv
<1> QED BY <1>1, Invariance, PTL

\* A message leaves the replay buffer only when the other channel was given it.
THEOREM ForgottenIsDelivered == Spec => []AckedIsDelivered
<1>1. IInv => AckedIsDelivered
  BY DEF IInv, CoreInv
<1> QED BY <1>1, Invariance, PTL

\* The bytes counted are the bytes kept, and back-pressure follows them.
THEOREM BytesAreExact == Spec => []BytesAreKept
<1>1. IInv => BytesAreKept
  BY DEF IInv
<1> QED BY <1>1, Invariance, PTL

\* The one timer of an adapter covers what is kept and what is due, and only that.
THEOREM DeadlineCovers == Spec => []TimerArmed
<1>1. IInv => TimerArmed
  BY DEF IInv
<1> QED BY <1>1, Invariance, PTL

\* A flush loop that has ended on a writable transport left nothing behind.
THEOREM NothingLeftBehind == Spec => []NothingStuck
<1>1. IInv => NothingStuck
  BY DEF IInv
<1> QED BY <1>1, Invariance, PTL

-----------------------------------------------------------------------------
(* The refinement: reserving is sending, the last fragment of a message is *)
(* its delivery, a new adapter a new generation, and the rest a stutter.   *)

LEMMA SameNames ==
    /\ Link!Ends = Ends /\ Link!Generations = Generations
    /\ \A e : Link!Peer(e) = Peer(e)
BY DEF Link!Ends, Ends, Link!Generations, Generations, Link!Peer, Peer

LEMMA ReserveSends ==
    ASSUME IInv, NEW e \in Ends, Reserve(e)
    PROVE  Link!Send(e)
<1>1. Typed /\ gen[e] # 0 /\ gen[e] \in Generations /\ Out(e) \in Seq(Messages) /\ Len(Out(e)) \in Nat
  BY Locally, Values DEF Reserve, Live
<1>2. PICK n : n = NextSize(e)
  OBVIOUS
<1>3. n \in Sizes
  <2>1. Workload[e][gen[e]] \in Seq(Nat \ {0})
    BY <1>1, RelayAssumption
  <2>2. Len(Workload[e][gen[e]]) \in Nat /\ Len(Out(e)) < Len(Workload[e][gen[e]])
    BY <2>1, LenProperties DEF Reserve, MoreToSend
  <2>3. Len(Out(e)) + 1 \in 1..Len(Workload[e][gen[e]])
    BY <1>1, <2>2
  <2>4. n \in SizesOf(Workload[e][gen[e]])
    BY <1>2, <2>3 DEF NextSize, SizesOf
  <2>5. n \in UNION {SizesOf(Workload[e][g]) : g \in Generations}
    BY <1>1, <2>4
  <2> QED BY <2>5 DEF Sizes
<1>4. LastSeq(Out(e), Len(Out(e))) + 1 = Link!After(Out(e))
  <2>1. CASE Out(e) = <<>>
    BY <2>1 DEF LastSeq, Link!After
  <2>2. CASE Out(e) # <<>>
    <3>1. Len(Out(e)) # 0 /\ Len(Out(e)) \in 1..Len(Out(e))
      BY <1>1, <2>2, EmptySeq
    <3>2. Out(e)[Len(Out(e))] \in Messages
      BY <1>1, <3>1, ElementOfSeq
    <3> QED BY <2>2, <3>1, <3>2 DEF LastSeq, Link!After, Messages
  <2> QED BY <2>1, <2>2
<1>5. reserved' = [reserved EXCEPT ![e][gen[e]] =
                        Append(@, [first |-> Link!After(@), count |-> n])]
  BY <1>2, <1>4 DEF Reserve, Out
<1>6. UNCHANGED <<delivered, gen>>
  BY DEF Reserve
<1> QED BY <1>1, <1>3, <1>5, <1>6 DEF Link!Send

LEMMA MessageArrivesDelivers ==
    ASSUME IInv, NEW e \in Ends, MessageArrives(e)
    PROVE  Link!Deliver(e)
<1>1. Typed /\ Peer(e) \in Ends
  BY Locally, TwoEnds
<1>2. ForMe(e, "frame") /\ gen[e] # 0
  BY DEF MessageArrives, NextFrame, ForMe, Live
<1>3. /\ gen[e] \in Generations /\ Len(In(e)) \in Nat
      /\ reserved[Peer(e)][gen[e]] \in Seq(Messages)
  BY <1>1, <1>2, Values
<1>4. PICK s : s = reserved[Peer(e)][gen[e]]
  OBVIOUS
<1>5. PICK p : p = Head(wire[e])
  OBVIOUS
<1>6. /\ p.message \in 1..Len(s) /\ p.seq - p.index = s[p.message].first
      /\ p.count = s[p.message].count
  BY <1>2, <1>4, <1>5, FrameTaken
<1>7. p.message = Len(In(e)) + 1
  <2>1. Misplaced(e, p) = "none"
    BY <1>5 DEF MessageArrives, NextFrame
  <2> QED BY <2>1 DEF Misplaced
<1>8. [first |-> p.seq - p.index, count |-> p.count] = s[Len(In(e)) + 1]
  <2>1. s[p.message] \in Messages
    BY <1>3, <1>4, <1>6, ElementOfSeq
  <2>2. s[p.message] = [first |-> s[p.message].first, count |-> s[p.message].count]
    BY <2>1 DEF Messages
  <2> QED BY <1>6, <1>7, <2>2
<1>9. delivered' = [delivered EXCEPT ![e][gen[e]] = Append(@, s[Len(In(e)) + 1])]
  BY <1>5, <1>8 DEF MessageArrives
<1>10. Len(In(e)) + 1 <= Len(s)
  <2>1. Len(s) \in Nat
    BY <1>3, <1>4, LenProperties
  <2> QED BY <1>3, <1>6, <1>7, <2>1
<1>11. UNCHANGED <<reserved, gen>>
  BY DEF MessageArrives
<1> QED BY <1>2, <1>4, <1>9, <1>10, <1>11, SameNames DEF Link!Deliver, In

LEMMA RenewedRenews ==
    ASSUME IInv, NEW e \in Ends, NEW g \in Generations, g > gen[e], Renewed(e, g),
           UNCHANGED <<reserved, delivered>>
    PROVE  Link!Renew(e)
BY SameNames DEF Link!Renew, Renewed

LEMMA StepRefines ==
    ASSUME IInv, [Next]_vars
    PROVE  [Link!Next]_Link!vars
<1>1. /\ Host \in Ends /\ Mobile \in Ends /\ Link!Ends = Ends
      /\ gen[Host] \in Nat /\ gen[Mobile] \in Nat
  BY Locally, TwoEnds, SameNames, Values
<1>2. ASSUME NEW e \in Ends, Step(e) PROVE [Link!Next]_Link!vars
  <2>1. CASE Reserve(e)
    BY <1>1, <2>1, ReserveSends DEF Link!Next
  <2>2. CASE MessageArrives(e)
    BY <1>1, <2>2, MessageArrivesDelivers DEF Link!Next
  <2>3. CASE ~Reserve(e) /\ ~MessageArrives(e)
    <3>1. UNCHANGED sessionVars
      BY <1>2, <2>3
      DEF Step, ReserveOverflows, SendAck, SendFrame, FlushEnds, GraceExpires, AssemblyExpires,
          Ignore, AckArrives, DuplicateArrives, FaultArrives, FragmentArrives, DeliveryFails,
          SendReady, Disconnect, Lose
    <3> QED BY <3>1 DEF sessionVars, Link!vars
  <2> QED BY <2>1, <2>2, <2>3
<1>3. CASE AskBridge
  BY <1>3 DEF AskBridge, Link!vars
<1>4. CASE OpenBridge \/ OpenRefused \/ AttachFails \/ BufferExpires \/ OpenedLate
  BY <1>4 DEF OpenBridge, OpenRefused, AttachFails, BufferExpires, OpenedLate, sessionVars, Link!vars
<1>5. CASE BridgeAttached
  <2>1. attaching # 0 /\ Renewed(Host, attaching) /\ UNCHANGED <<reserved, delivered>>
    BY <1>5 DEF BridgeAttached
  <2>2. attaching \in Generations /\ attaching > gen[Host]
    <3>1. Typed /\ Announcing
      BY DEF IInv, CoreInv
    <3>2. attaching \in Generations /\ attaching \in Nat
      <4>1. attaching \in 0..MaxGeneration /\ attaching # 0 /\ MaxGeneration \in Nat
        BY <2>1, <3>1, RelayAssumption DEF Typed
      <4> QED BY <4>1 DEF Generations
    <3>3. gen[Host] < attaching
      BY <2>1, <3>1 DEF Announcing
    <3> QED BY <1>1, <3>2, <3>3
  <2> QED BY <1>1, <2>1, <2>2, RenewedRenews DEF Link!Next
<1>6. CASE BridgeOpened
  <2>1. PICK g : g = Head(wire[Mobile]).gen
    OBVIOUS
  <2>2. /\ wire[Mobile] # <<>> /\ IsControl(Head(wire[Mobile])) /\ UNCHANGED <<reserved, delivered>>
        /\ Renewed(Mobile, g)
    BY <1>6, <2>1 DEF BridgeOpened, Arrives, IsControl
  <2>3. g \in Generations /\ gen[Mobile] < g /\ g \in Nat
    BY <1>1, <2>1, <2>2, ControlTaken, RelayAssumption DEF GoodControl, Generations
  <2>4. g > gen[Mobile]
    BY <1>1, <2>3
  <2> QED BY <1>1, <2>2, <2>3, <2>4, RenewedRenews DEF Link!Next
<1>7. CASE UNCHANGED vars
  BY <1>7 DEF vars, sessionVars, Link!vars
<1> QED BY <1>2, <1>3, <1>4, <1>5, <1>6, <1>7 DEF Next

LEMMA InitRefines == Init => Link!Init
BY SameNames DEF Init, Link!Init

\* The whole protocol, with its replays, losses, faults and renewals, is two reliable
\* channels per generation.
THEOREM Implements == Spec => ImplementsExactlyOnce
<1>1. Spec => Link!Spec
  BY Invariance, InitRefines, StepRefines, PTL DEF Spec, Link!Spec
<1> QED BY <1>1 DEF ImplementsExactlyOnce

-----------------------------------------------------------------------------
(***************************************************************************)
(* What a receiver of the relay session may rely on, proved for every      *)
(* workload and any number of announcements and losses: only a loss puts a *)
(* frame out of place, however often the sender goes back and sends again, *)
(* and a session that has come to rest without a loss is complete.         *)
(***************************************************************************)
-----------------------------------------------------------------------------
(* Gaps.  A frame is out of place only after a loss: every frame that      *)
(* travels follows on what the receiver has or on a frame before it, and   *)
(* the next one to be sent does too, wherever an announcement or an        *)
(* acknowledgement has put the sender.                                     *)

\* The messages of a sender are numbered without a gap.
Contiguous ==
    \A e \in Ends, g \in Generations :
        \A k \in 1..Len(reserved[e][g]) :
            reserved[e][g][k].first = LastSeq(reserved[e][g], k - 1) + 1

\* The assembler r has the n first messages of s and a part of the next one.
Linked(s, n, r) ==
    /\ r.expected = LastSeq(s, n) + 1 + r.staged
    /\ r.staged > 0 => n < Len(s) /\ r.count = s[n + 1].count /\ r.staged < s[n + 1].count

AssemblerAt(x) == Live(x) => Linked(reserved[Peer(x)][gen[x]], Len(In(x)), rx[x])

\* The number of the frame an end sends next.
NextSeq(e) == LastSeq(Out(e), tx[e].unsent - 1) + 1 + tx[e].frame

\* On the wire w, for a receiver of generation g that waits for number n: no frame comes
\* before its time; a frame of number m would not either; one is under way; the messages
\* up to d are acknowledged.
FrameOf(p, g) == p.type = "frame" /\ p.gen = g
Smooth(w, g, n) ==
    \A k \in 1..Len(w) : FrameOf(w[k], g) =>
        \/ w[k].seq <= n
        \/ \E j \in 1..Len(w) : j < k /\ FrameOf(w[j], g) /\ w[k].seq <= w[j].seq + 1
Covers(w, g, n, m) ==
    m <= n \/ \E j \in 1..Len(w) : FrameOf(w[j], g) /\ m <= w[j].seq + 1
FrameUnderWay(w, g) == \E j \in 1..Len(w) : FrameOf(w[j], g)
AckUnderWay(w, g, d) ==
    \E j \in 1..Len(w) : w[j].type = "ack" /\ w[j].gen = g /\ d <= w[j].upTo

Both(x) == gen[Peer(x)] = gen[x] /\ Live(x) /\ Live(Peer(x))

SmoothAt(x) == Live(x) /\ ~dropped[x] => Smooth(wire[x], gen[x], rx[x].expected)
CoversAt(x) ==
    Both(x) /\ (~dropped[x] \/ ~unsure[Peer(x)]) =>
        Covers(wire[x], gen[x], rx[x].expected, NextSeq(Peer(x)))

\* What x was given is acknowledged, or will be by what is due, under way or to be sent.
AnsweredAt(x) ==
    Both(x) /\ ~unsure[Peer(x)] =>
        \/ Len(In(x)) <= tx[Peer(x)].acked
        \/ Len(In(x)) <= rx[x].ackDue
        \/ AckUnderWay(wire[Peer(x)], gen[x], Len(In(x)))
        \/ FrameUnderWay(wire[x], gen[x])
        \/ tx[Peer(x)].unsent <= Len(Out(Peer(x)))

LinkAt(x) == AssemblerAt(x) /\ SmoothAt(x) /\ CoversAt(x) /\ AnsweredAt(x)

\* The frames of a bridge the phone has not opened yet follow its announcement.
Opened(w, c, g) == c \in 1..Len(w) /\ w[c].type = "opened" /\ w[c].gen = g
Clear(w, c, g) ==
    /\ \A k \in 1..Len(w) : FrameOf(w[k], g) => k > c
    /\ Smooth(w, g, 1)
Pending ==
    \A c \in Nat, g \in Generations : Opened(wire[Mobile], c, g) =>
        /\ Clear(wire[Mobile], c, g)
        /\ gen[Host] = g /\ Live(Host) => Covers(wire[Mobile], g, 1, NextSeq(Host))

\* Nothing of a bridge travels before its announcement has left.
Unheard ==
    \A j \in 1..Len(buffered), k \in 1..Len(wire[Mobile]) :
        ~FrameOf(wire[Mobile][k], buffered[j].gen)

GapInv ==
    /\ Contiguous /\ Pending /\ OnlyLossMakesGaps
    /\ \A x \in Ends : LinkAt(x)

-----------------------------------------------------------------------------
(* What taking a payload from a wire and putting one on it leave.          *)

LEMMA FrameSeq ==
    ASSUME NEW w \in Seq(Payloads), NEW g, NEW k \in 1..Len(w), FrameOf(w[k], g)
    PROVE  w[k].seq \in Nat
<1>1. w[k] \in Payloads
  BY ElementOfSeq
<1> QED BY <1>1 DEF FrameOf, Payloads, Frames, Acks, Controls

LEMMA AfterTaking ==
    ASSUME NEW w \in Seq(Payloads), w # <<>>, NEW g, NEW n \in Nat, NEW m \in Nat, n <= m,
           FrameOf(Head(w), g) => Head(w).seq + 1 <= m
    PROVE  /\ Smooth(w, g, n) => Smooth(Tail(w), g, m)
           /\ \A q \in Nat : Covers(w, g, n, q) => Covers(Tail(w), g, m, q)
<1> DEFINE v == Tail(w)
<1>1. /\ Head(w) = w[1] /\ Len(w) \in Nat /\ Len(w) >= 1 /\ Len(v) = Len(w) - 1
      /\ v \in Seq(Payloads)
      /\ \A i \in 1..Len(v) : v[i] = w[i + 1]
  BY HeadAndTail
<1>2. \A i \in 1..Len(v) : i + 1 \in 1..Len(w)
  BY <1>1
<1> HIDE DEF v
<1>3. ASSUME Smooth(w, g, n), NEW k \in 1..Len(v), FrameOf(v[k], g)
      PROVE  \/ v[k].seq <= m
             \/ \E j \in 1..Len(v) : j < k /\ FrameOf(v[j], g) /\ v[k].seq <= v[j].seq + 1
  <2>1. k + 1 \in 1..Len(w) /\ v[k] = w[k + 1] /\ FrameOf(w[k + 1], g) /\ v[k].seq \in Nat
    BY <1>1, <1>2, <1>3, FrameSeq
  <2>2. \/ v[k].seq <= n
        \/ \E j \in 1..Len(w) : j < k + 1 /\ FrameOf(w[j], g) /\ v[k].seq <= w[j].seq + 1
    BY <1>3, <2>1 DEF Smooth
  <2>3. CASE v[k].seq <= n
    BY <2>1, <2>3
  <2>4. ASSUME NEW j \in 1..Len(w), j < k + 1, FrameOf(w[j], g), v[k].seq <= w[j].seq + 1
        PROVE  \/ v[k].seq <= m
               \/ \E i \in 1..Len(v) : i < k /\ FrameOf(v[i], g) /\ v[k].seq <= v[i].seq + 1
    <3>0. w[j].seq \in Nat
      BY <2>4, FrameSeq
    <3>1. CASE j = 1
      BY <1>1, <2>1, <2>4, <3>0, <3>1
    <3>2. CASE j # 1
      <4>1. PICK i \in Nat : j = i + 1 /\ i >= 1
        <5>1. j - 1 \in Nat /\ j = (j - 1) + 1 /\ j - 1 >= 1
          BY <3>2
        <5> QED BY <5>1
      <4>2. i \in 1..Len(v) /\ i < k
        BY <1>1, <2>4, <4>1
      <4>3. v[i] = w[j]
        BY <1>1, <4>1, <4>2
      <4> QED BY <2>4, <4>2, <4>3
    <3> QED BY <3>1, <3>2
  <2> QED BY <2>2, <2>3, <2>4
<1>4. ASSUME NEW q \in Nat, Covers(w, g, n, q) PROVE Covers(v, g, m, q)
  <2>1. CASE q <= n
    BY <2>1 DEF Covers
  <2>2. ASSUME NEW j \in 1..Len(w), FrameOf(w[j], g), q <= w[j].seq + 1
        PROVE  Covers(v, g, m, q)
    <3>0. w[j].seq \in Nat
      BY <2>2, FrameSeq
    <3>1. CASE j = 1
      <4>1. q <= m
        BY <1>1, <2>2, <3>0, <3>1
      <4> QED BY <4>1 DEF Covers
    <3>2. CASE j # 1
      <4>1. PICK i \in Nat : j = i + 1 /\ i >= 1
        <5>1. j - 1 \in Nat /\ j = (j - 1) + 1 /\ j - 1 >= 1
          BY <3>2
        <5> QED BY <5>1
      <4>2. i \in 1..Len(v)
        BY <1>1, <4>1
      <4>3. v[i] = w[j]
        BY <1>1, <4>1, <4>2
      <4> QED BY <2>2, <4>2, <4>3 DEF Covers
    <3> QED BY <3>1, <3>2
  <2> QED BY <1>4, <2>1, <2>2 DEF Covers
<1> QED BY <1>3, <1>4 DEF Smooth, v

LEMMA UnderWayAfterTaking ==
    ASSUME NEW w \in Seq(Payloads), w # <<>>, NEW g, NEW d
    PROVE  /\ ~FrameOf(Head(w), g) /\ FrameUnderWay(w, g) => FrameUnderWay(Tail(w), g)
           /\ AckUnderWay(w, g, d)
              /\ ~(Head(w).type = "ack" /\ Head(w).gen = g /\ d <= Head(w).upTo)
              => AckUnderWay(Tail(w), g, d)
<1> DEFINE v == Tail(w)
<1>1. /\ Head(w) = w[1] /\ Len(w) \in Nat /\ Len(v) = Len(w) - 1
      /\ \A i \in 1..Len(v) : v[i] = w[i + 1]
  BY HeadAndTail
<1> HIDE DEF v
<1>2. ASSUME NEW j \in 1..Len(w), j # 1 PROVE \E i \in 1..Len(v) : v[i] = w[j]
  <2>1. j - 1 \in 1..Len(v) /\ j = (j - 1) + 1
    BY <1>1, <1>2
  <2> QED BY <1>1, <2>1
<1>3. ASSUME ~FrameOf(Head(w), g), FrameUnderWay(w, g) PROVE FrameUnderWay(v, g)
  BY <1>1, <1>2, <1>3 DEF FrameUnderWay
<1>4. ASSUME AckUnderWay(w, g, d),
             ~(Head(w).type = "ack" /\ Head(w).gen = g /\ d <= Head(w).upTo)
      PROVE  AckUnderWay(v, g, d)
  BY <1>1, <1>2, <1>4 DEF AckUnderWay
<1> QED BY <1>3, <1>4 DEF v

LEMMA AfterPutting ==
    ASSUME NEW w \in Seq(Payloads), NEW p \in Payloads, NEW g, NEW n \in Nat
    PROVE  /\ Smooth(w, g, n) /\ (FrameOf(p, g) => Covers(w, g, n, p.seq))
                => Smooth(Append(w, p), g, n)
           /\ \A q \in Nat : Covers(w, g, n, q) => Covers(Append(w, p), g, n, q)
           /\ \A q \in Nat : FrameOf(p, g) /\ q <= p.seq + 1 => Covers(Append(w, p), g, n, q)
           /\ FrameUnderWay(w, g) => FrameUnderWay(Append(w, p), g)
           /\ FrameOf(p, g) => FrameUnderWay(Append(w, p), g)
           /\ \A d : AckUnderWay(w, g, d) => AckUnderWay(Append(w, p), g, d)
           /\ \A d : p.type = "ack" /\ p.gen = g /\ d <= p.upTo => AckUnderWay(Append(w, p), g, d)
<1> DEFINE v == Append(w, p)
<1>1. /\ Len(w) \in Nat /\ Len(v) = Len(w) + 1 /\ v[Len(w) + 1] = p
      /\ \A i \in 1..Len(w) : v[i] = w[i]
  BY Appended
<1>2. /\ \A i \in 1..Len(w) : i \in 1..Len(v) /\ v[i] = w[i]
      /\ Len(w) + 1 \in 1..Len(v)
  BY <1>1
<1> HIDE DEF v
<1>3. ASSUME Smooth(w, g, n), FrameOf(p, g) => Covers(w, g, n, p.seq),
             NEW k \in 1..Len(v), FrameOf(v[k], g)
      PROVE  \/ v[k].seq <= n
             \/ \E j \in 1..Len(v) : j < k /\ FrameOf(v[j], g) /\ v[k].seq <= v[j].seq + 1
  <2>1. CASE k \in 1..Len(w)
    <3>1. \/ w[k].seq <= n
          \/ \E j \in 1..Len(w) : j < k /\ FrameOf(w[j], g) /\ w[k].seq <= w[j].seq + 1
      BY <1>2, <1>3, <2>1 DEF Smooth
    <3> QED BY <1>2, <2>1, <3>1
  <2>2. CASE k = Len(w) + 1
    <3>1. \/ p.seq <= n
          \/ \E j \in 1..Len(w) : FrameOf(w[j], g) /\ p.seq <= w[j].seq + 1
      BY <1>1, <1>3, <2>2 DEF Covers
    <3>2. \A j \in 1..Len(w) : j < k
      BY <1>1, <2>2
    <3> QED BY <1>1, <1>2, <2>2, <3>1, <3>2
  <2> QED BY <1>1, <2>1, <2>2
<1>4. /\ \A q \in Nat : Covers(w, g, n, q) => Covers(v, g, n, q)
      /\ \A q \in Nat : FrameOf(p, g) /\ q <= p.seq + 1 => Covers(v, g, n, q)
  BY <1>1, <1>2 DEF Covers
<1>5. /\ FrameUnderWay(w, g) => FrameUnderWay(v, g)
      /\ FrameOf(p, g) => FrameUnderWay(v, g)
  BY <1>1, <1>2 DEF FrameUnderWay
<1>6. /\ \A d : AckUnderWay(w, g, d) => AckUnderWay(v, g, d)
      /\ \A d : p.type = "ack" /\ p.gen = g /\ d <= p.upTo => AckUnderWay(v, g, d)
  BY <1>1, <1>2 DEF AckUnderWay
<1> QED BY <1>3, <1>4, <1>5, <1>6 DEF Smooth, v
-----------------------------------------------------------------------------
(* The numbers of frames. *)

LEMMA MessageEnds ==
    ASSUME Typed, Contiguous, NEW e \in Ends, NEW g \in Generations,
           NEW k \in 1..Len(reserved[e][g])
    PROVE  /\ reserved[e][g][k].first = LastSeq(reserved[e][g], k - 1) + 1
           /\ reserved[e][g][k].count \in Nat /\ reserved[e][g][k].count >= 1
           /\ LastSeq(reserved[e][g], k) = LastSeq(reserved[e][g], k - 1) + reserved[e][g][k].count
           /\ LastSeq(reserved[e][g], k) \in Nat /\ LastSeq(reserved[e][g], k - 1) \in Nat
<1> DEFINE s == reserved[e][g]
<1>1. s \in Seq(Messages) /\ Len(s) \in Nat /\ k \in 1..Len(s)
  BY LenProperties DEF Typed
<1>2. s[k].first = LastSeq(s, k - 1) + 1
  BY DEF Contiguous
<1>3. s[k].count \in Nat \ {0}
  <2>1. s[k] \in Messages
    BY <1>1, ElementOfSeq
  <2> QED BY <2>1 DEF Messages
<1> HIDE DEF s
<1>4. LastSeq(s, k) \in Nat /\ LastSeq(s, k - 1) \in Nat
  <2>1. k \in 0..Len(s) /\ k - 1 \in 0..Len(s)
    BY <1>1
  <2> QED BY <1>1, <2>1, LastSeqs
<1>5. LastSeq(s, k) = s[k].first + s[k].count - 1
  BY <1>1 DEF LastSeq
<1>6. LastSeq(s, k) = LastSeq(s, k - 1) + s[k].count
  BY ONLY <1>2, <1>3, <1>4, <1>5
<1> QED BY <1>2, <1>3, <1>4, <1>6 DEF s

\* The next frame is numbered on from what was sent.
LEMMA NextFrameNumber ==
    ASSUME IInv, Contiguous, NEW e \in Ends, Live(e)
    PROVE  /\ NextSeq(e) \in Nat
           /\ tx[e].unsent \in Nat /\ tx[e].unsent >= 1 /\ tx[e].frame \in Nat
           /\ tx[e].unsent <= Len(Out(e)) =>
                /\ Out(e)[tx[e].unsent].first + tx[e].frame = NextSeq(e)
                /\ tx[e].frame < Out(e)[tx[e].unsent].count
                /\ Out(e)[tx[e].unsent].count \in Nat
                /\ LastSeq(Out(e), tx[e].unsent) = LastSeq(Out(e), tx[e].unsent - 1)
                                                    + Out(e)[tx[e].unsent].count
                /\ LastSeq(Out(e), tx[e].unsent - 1) \in Nat
                /\ NextSeq(e) <= LastSeq(Out(e), tx[e].unsent)
           /\ tx[e].unsent > Len(Out(e)) =>
                tx[e].unsent = Len(Out(e)) + 1 /\ NextSeq(e) = LastSeq(Out(e), Len(Out(e))) + 1
<1> DEFINE u == tx[e].unsent
           f == tx[e].frame
<1>1. Typed /\ LocalInv(e) /\ gen[e] # 0
  BY Locally DEF Live
<1>2. gen[e] \in Generations /\ Out(e) \in Seq(Messages) /\ Len(Out(e)) \in Nat
  BY <1>1, Values
<1>3. u \in Nat /\ u >= 1 /\ f \in Nat
  <2>1. tx[e] \in TxStates
    BY <1>1, Values
  <2> QED BY <2>1 DEF TxStates
<1>4. /\ u <= Len(Out(e)) + 1
      /\ f = 0 \/ (u <= Len(Out(e)) /\ f < Out(e)[u].count)
  BY <1>1 DEF LocalInv
<1>5. LastSeq(Out(e), u - 1) \in Nat
  <2>1. u - 1 \in 0..Len(Out(e))
    BY <1>2, <1>3, <1>4
  <2> QED BY <1>2, <2>1, LastSeqs
<1>6. NextSeq(e) = LastSeq(Out(e), u - 1) + 1 + f
  BY DEF NextSeq
<1>7. ASSUME u <= Len(Out(e))
      PROVE  /\ Out(e)[u].first + f = NextSeq(e) /\ f < Out(e)[u].count
             /\ Out(e)[u].count \in Nat
             /\ LastSeq(Out(e), u) = LastSeq(Out(e), u - 1) + Out(e)[u].count
             /\ NextSeq(e) <= LastSeq(Out(e), u)
  <2>1. u \in 1..Len(reserved[e][gen[e]]) /\ Out(e) = reserved[e][gen[e]]
    BY <1>2, <1>3, <1>7 DEF Out
  <2>2. /\ Out(e)[u].first = LastSeq(Out(e), u - 1) + 1
        /\ Out(e)[u].count \in Nat /\ Out(e)[u].count >= 1
        /\ LastSeq(Out(e), u) = LastSeq(Out(e), u - 1) + Out(e)[u].count
        /\ LastSeq(Out(e), u) \in Nat
    BY <1>1, <1>2, <2>1, MessageEnds
  <2> HIDE DEF u, f
  <2>3. f < Out(e)[u].count
    BY <1>4, <2>2
  <2> QED BY <1>3, <1>5, <1>6, <2>2, <2>3
<1>8. ASSUME u > Len(Out(e))
      PROVE  u = Len(Out(e)) + 1 /\ NextSeq(e) = LastSeq(Out(e), Len(Out(e))) + 1
  <2>1. u = Len(Out(e)) + 1 /\ f = 0 /\ u - 1 = Len(Out(e))
    BY <1>2, <1>3, <1>4, <1>8
  <2> QED BY <1>5, <1>6, <2>1
<1>9. NextSeq(e) \in Nat
  BY <1>3, <1>5, <1>6
<1> QED BY <1>3, <1>5, <1>7, <1>8, <1>9

LEMMA NextFrameTyped ==
    IInv /\ Contiguous => \A x \in Ends : Live(x) => NextSeq(x) \in Nat
BY NextFrameNumber

\* What the assembler waits for, in numbers: it has the n first messages, and has not the
\* next one.
LEMMA AssemblerNumber ==
    ASSUME IInv, Contiguous, NEW x \in Ends, Live(x), AssemblerAt(x)
    PROVE  LET s == reserved[Peer(x)][gen[x]]
               n == Len(In(x))
           IN  /\ s \in Seq(Messages) /\ Len(s) \in Nat /\ n \in Nat /\ n <= Len(s)
               /\ rx[x].expected \in Nat /\ rx[x].staged \in Nat
               /\ LastSeq(s, n) \in Nat /\ rx[x].expected = LastSeq(s, n) + 1 + rx[x].staged
               /\ n < Len(s) => /\ rx[x].expected <= LastSeq(s, n + 1)
                                /\ LastSeq(s, n + 1) = LastSeq(s, n) + s[n + 1].count
                                /\ s[n + 1].first = LastSeq(s, n) + 1
                                /\ s[n + 1].count \in Nat /\ s[n + 1].count >= 1
               /\ n = Len(s) => rx[x].staged = 0
<1> DEFINE s == reserved[Peer(x)][gen[x]]
           n == Len(In(x))
<1>1. Typed /\ gen[x] # 0 /\ Peer(x) \in Ends /\ Peer(Peer(x)) = x /\ DeliveredIsSentPrefix
  BY Locally, TwoEnds DEF Live, CoreInv
<1>2. gen[x] \in Generations /\ s \in Seq(Messages) /\ Len(s) \in Nat /\ n \in Nat /\ rx[x] \in RxStates
  BY <1>1, Values
<1>3. n <= Len(s)
  BY <1>1, <1>2 DEF DeliveredIsSentPrefix, In
<1>4. rx[x].expected \in Nat /\ rx[x].staged \in Nat
  BY <1>2 DEF RxStates
<1>5. Linked(s, n, rx[x])
  BY DEF AssemblerAt
<1>6. LastSeq(s, n) \in Nat
  <2>1. n \in 0..Len(s)
    BY <1>2, <1>3
  <2> HIDE DEF s, n
  <2> QED BY <1>2, <2>1, LastSeqs
<1>7. ASSUME n < Len(s)
      PROVE  /\ LastSeq(s, n + 1) = LastSeq(s, n) + s[n + 1].count
             /\ s[n + 1].first = LastSeq(s, n) + 1
             /\ s[n + 1].count \in Nat /\ s[n + 1].count >= 1
  <2>1. n + 1 \in 1..Len(s) /\ (n + 1) - 1 = n
    BY <1>2, <1>7
  <2>2. /\ s[n + 1].first = LastSeq(s, (n + 1) - 1) + 1
        /\ s[n + 1].count \in Nat /\ s[n + 1].count >= 1
        /\ LastSeq(s, n + 1) = LastSeq(s, (n + 1) - 1) + s[n + 1].count
    BY <1>1, <1>2, <2>1, MessageEnds
  <2> QED BY <2>1, <2>2
<1> HIDE DEF s, n
<1>8. ASSUME n < Len(s) PROVE rx[x].expected <= LastSeq(s, n + 1)
  BY <1>4, <1>5, <1>6, <1>7, <1>8 DEF Linked
<1>9. ASSUME n = Len(s) PROVE rx[x].staged = 0
  BY <1>2, <1>4, <1>5, <1>9 DEF Linked
<1>10. rx[x].expected = LastSeq(s, n) + 1 + rx[x].staged
  BY <1>5 DEF Linked
<1>11. /\ s \in Seq(Messages) /\ Len(s) \in Nat /\ n \in Nat /\ n <= Len(s)
       /\ rx[x].expected \in Nat /\ rx[x].staged \in Nat
       /\ LastSeq(s, n) \in Nat /\ rx[x].expected = LastSeq(s, n) + 1 + rx[x].staged
       /\ n < Len(s) => /\ rx[x].expected <= LastSeq(s, n + 1)
                        /\ LastSeq(s, n + 1) = LastSeq(s, n) + s[n + 1].count
                        /\ s[n + 1].first = LastSeq(s, n) + 1
                        /\ s[n + 1].count \in Nat /\ s[n + 1].count >= 1
       /\ n = Len(s) => rx[x].staged = 0
  BY <1>2, <1>3, <1>4, <1>6, <1>7, <1>8, <1>9, <1>10
<1> QED BY <1>11 DEF s, n

\* The frame whose number is awaited is the next fragment of the next message.
LEMMA AwaitedFits ==
    ASSUME IInv, Contiguous, NEW x \in Ends, ForMe(x, "frame"), AssemblerAt(x),
           Head(wire[x]).seq = rx[x].expected
    PROVE  /\ Head(wire[x]).message = Len(In(x)) + 1
           /\ Head(wire[x]).index = rx[x].staged
           /\ Len(In(x)) < Len(reserved[Peer(x)][gen[x]])
           /\ Head(wire[x]).count = reserved[Peer(x)][gen[x]][Len(In(x)) + 1].count
           /\ rx[x].staged > 0 => Head(wire[x]).count = rx[x].count
<1> DEFINE s == reserved[Peer(x)][gen[x]]
           n == Len(In(x))
           p == Head(wire[x])
           m == p.message
<1>1. /\ Live(x) /\ gen[x] # 0 /\ p \in Frames /\ m \in 1..Len(s)
      /\ p.seq - p.index = s[m].first /\ p.count = s[m].count /\ p.index < p.count
  BY FrameTaken
<1>2. /\ s \in Seq(Messages) /\ Len(s) \in Nat /\ n \in Nat /\ n <= Len(s)
      /\ rx[x].expected \in Nat /\ rx[x].staged \in Nat
      /\ LastSeq(s, n) \in Nat /\ rx[x].expected = LastSeq(s, n) + 1 + rx[x].staged
      /\ n < Len(s) => /\ rx[x].expected <= LastSeq(s, n + 1)
                       /\ LastSeq(s, n + 1) = LastSeq(s, n) + s[n + 1].count
                       /\ s[n + 1].first = LastSeq(s, n) + 1
                       /\ s[n + 1].count \in Nat /\ s[n + 1].count >= 1
      /\ n = Len(s) => rx[x].staged = 0
  BY <1>1, AssemblerNumber
<1>3. Typed /\ Numbered /\ Peer(x) \in Ends /\ gen[x] \in Generations
  BY <1>1, Locally, TwoEnds, Values DEF CoreInv
<1>4. /\ s[m].first = LastSeq(s, m - 1) + 1
      /\ s[m].count \in Nat /\ s[m].count >= 1
      /\ LastSeq(s, m) = LastSeq(s, m - 1) + s[m].count
      /\ LastSeq(s, m) \in Nat /\ LastSeq(s, m - 1) \in Nat
  BY <1>1, <1>3, MessageEnds
<1>5. p.index \in Nat /\ p.seq \in Nat /\ p.count \in Nat /\ m \in Nat
  BY <1>1 DEF Frames
<1>6. \A i, j \in 0..Len(s) : i <= j => LastSeq(s, i) <= LastSeq(s, j)
  BY <1>3 DEF Numbered
<1>7. p.seq = rx[x].expected
  OBVIOUS
<1>8. Linked(s, n, rx[x])
  BY <1>1 DEF AssemblerAt
<1> HIDE DEF s, n, m, p
<1>9. LastSeq(s, m - 1) < rx[x].expected /\ rx[x].expected <= LastSeq(s, m)
  BY <1>1, <1>4, <1>5, <1>7
<1>10. m > n
  <2> SUFFICES ASSUME m <= n PROVE FALSE
    BY <1>2, <1>5
  <2>1. m \in 0..Len(s) /\ n \in 0..Len(s)
    BY <1>1, <1>2
  <2>2. LastSeq(s, m) <= LastSeq(s, n)
    BY <1>6, <2>1
  <2> QED BY <1>2, <1>4, <1>9, <2>2
<1>11. n < Len(s)
  BY <1>1, <1>2, <1>10
<1>12. m <= n + 1
  <2> SUFFICES ASSUME m > n + 1 PROVE FALSE
    BY <1>2, <1>5
  <2>1. m - 1 \in 0..Len(s) /\ n + 1 \in 0..Len(s) /\ n + 1 <= m - 1
    BY <1>1, <1>2, <1>5
  <2>2. LastSeq(s, n + 1) <= LastSeq(s, m - 1)
    BY <1>6, <2>1
  <2>3. LastSeq(s, n + 1) \in Nat /\ rx[x].expected <= LastSeq(s, n + 1)
    BY <1>2, <1>11
  <2>4. /\ rx[x].expected \in Nat /\ LastSeq(s, m - 1) \in Nat
        /\ LastSeq(s, m - 1) < rx[x].expected
    BY <1>2, <1>4, <1>9
  <2> QED BY ONLY <2>2, <2>3, <2>4
<1>13. m = n + 1
  BY <1>2, <1>5, <1>10, <1>12
<1>14. p.index = rx[x].staged
  <2>1. s[m].first = LastSeq(s, n) + 1
    BY <1>2, <1>11, <1>13
  <2> QED BY ONLY <1>1, <1>2, <1>5, <1>7, <2>1
<1>15. rx[x].staged > 0 => p.count = rx[x].count
  BY <1>1, <1>8, <1>13 DEF Linked
<1> QED BY <1>1, <1>11, <1>13, <1>14, <1>15 DEF s, n, m, p

\* Where an announcement or an acknowledgement puts a sender back to, its peer has been.
LEMMA BackIsCovered ==
    ASSUME IInv, Contiguous, NEW x \in Ends, Both(x), AssemblerAt(x), NEW a \in 0..Len(In(x))
    PROVE  /\ LastSeq(Out(Peer(x)), a) + 1 <= rx[x].expected
           /\ LastSeq(Out(Peer(x)), a) \in Nat
<1> DEFINE s == reserved[Peer(x)][gen[x]]
           n == Len(In(x))
<1>1. Live(x) /\ gen[Peer(x)] = gen[x] /\ gen[x] # 0 /\ Out(Peer(x)) = s
  BY DEF Both, Live, Out
<1>2. /\ s \in Seq(Messages) /\ Len(s) \in Nat /\ n \in Nat /\ n <= Len(s)
      /\ rx[x].expected \in Nat /\ rx[x].staged \in Nat
      /\ LastSeq(s, n) \in Nat /\ rx[x].expected = LastSeq(s, n) + 1 + rx[x].staged
  BY <1>1, AssemblerNumber
<1>3. Typed /\ Numbered /\ Peer(x) \in Ends /\ gen[x] \in Generations
  BY <1>1, Locally, TwoEnds, Values DEF CoreInv
<1>4. a \in 0..Len(s) /\ n \in 0..Len(s) /\ a <= n
  BY <1>2
<1>5. LastSeq(s, a) <= LastSeq(s, n)
  BY <1>3, <1>4 DEF Numbered
<1> HIDE DEF s, n
<1>6. LastSeq(s, a) \in Nat
  BY <1>2, <1>4, LastSeqs
<1> QED BY <1>1, <1>2, <1>5, <1>6
-----------------------------------------------------------------------------
(* What a step keeps of a link whose own part of the state it leaves.       *)

Keeps(w, v, g, n, m) ==
    /\ Smooth(w, g, n) => Smooth(v, g, m)
    /\ \A q \in Nat : Covers(w, g, n, q) => Covers(v, g, m, q)

LEMMA AssemblerKept ==
    ASSUME NEW x \in Ends, AssemblerAt(x), gen' = gen,
           reserved' = reserved, delivered' = delivered,
           Live(x)' => Live(x),
           Live(x)' => /\ rx'[x].expected = rx[x].expected
                       /\ rx'[x].staged = rx[x].staged
                       /\ rx'[x].count = rx[x].count
    PROVE  AssemblerAt(x)'
<1> SUFFICES ASSUME Live(x)'
             PROVE  Linked(reserved[Peer(x)][gen[x]], Len(In(x)), rx'[x])
  BY DEF AssemblerAt, In, Linked, LastSeq
<1>1. Linked(reserved[Peer(x)][gen[x]], Len(In(x)), rx[x])
  BY DEF AssemblerAt
<1> QED BY <1>1 DEF Linked

LEMMA FlowKept ==
    ASSUME IInv, Contiguous, NEW x \in Ends, SmoothAt(x), CoversAt(x), gen' = gen,
           Live(x)' => Live(x), Live(Peer(x))' => Live(Peer(x)),
           dropped'[x] = dropped[x], unsure'[Peer(x)] = unsure[Peer(x)],
           Both(x)' => NextSeq(Peer(x))' = NextSeq(Peer(x)),
           Live(x)' => Keeps(wire[x], wire'[x], gen[x], rx[x].expected, rx'[x].expected)
    PROVE  SmoothAt(x)' /\ CoversAt(x)'
<1>1. Peer(x) \in Ends
  BY TwoEnds
<1>2. SmoothAt(x)'
  <2> SUFFICES ASSUME Live(x)', ~dropped'[x]
               PROVE  Smooth(wire'[x], gen[x], rx'[x].expected)
    BY DEF SmoothAt, Smooth, FrameOf
  <2>1. Smooth(wire[x], gen[x], rx[x].expected)
    BY DEF SmoothAt
  <2> QED BY <2>1 DEF Keeps
<1>3. CoversAt(x)'
  <2> SUFFICES ASSUME Both(x)', ~dropped'[x] \/ ~unsure'[Peer(x)]
               PROVE  Covers(wire'[x], gen[x], rx'[x].expected, NextSeq(Peer(x))')
    BY DEF CoversAt, Covers, FrameOf
  <2>1. Both(x) /\ Live(x)' /\ Live(Peer(x))
    BY DEF Both, Live
  <2>2. Covers(wire[x], gen[x], rx[x].expected, NextSeq(Peer(x)))
    BY <2>1 DEF CoversAt
  <2>3. NextSeq(Peer(x)) \in Nat
    BY <1>1, <2>1, NextFrameNumber
  <2>4. Covers(wire'[x], gen[x], rx'[x].expected, NextSeq(Peer(x)))
    BY <2>1, <2>2, <2>3 DEF Keeps
  <2> QED BY <2>4
<1> QED BY <1>2, <1>3

LEMMA AnswerKept ==
    ASSUME NEW x \in Ends, AnsweredAt(x), gen' = gen,
           Live(x)' => Live(x), Live(Peer(x))' => Live(Peer(x)),
           unsure'[Peer(x)] = unsure[Peer(x)],
           NEW d, d = Len(In(x)),
           Both(x)' /\ Both(x) =>
             /\ Len(In(x))' = d
             /\ d <= tx[Peer(x)].acked => d <= tx'[Peer(x)].acked
             /\ d <= rx[x].ackDue => d <= rx'[x].ackDue
             /\ AckUnderWay(wire[Peer(x)], gen[x], d) =>
                  \/ AckUnderWay(wire'[Peer(x)], gen[x], d)
                  \/ d <= tx'[Peer(x)].acked
             /\ FrameUnderWay(wire[x], gen[x]) => FrameUnderWay(wire'[x], gen[x])
             /\ tx[Peer(x)].unsent <= Len(Out(Peer(x))) =>
                  \/ tx'[Peer(x)].unsent <= Len(Out(Peer(x))')
                  \/ d <= tx'[Peer(x)].acked
    PROVE  AnsweredAt(x)'
<1> SUFFICES ASSUME Both(x)', ~unsure'[Peer(x)]
             PROVE  \/ Len(In(x))' <= tx'[Peer(x)].acked
                    \/ Len(In(x))' <= rx'[x].ackDue
                    \/ AckUnderWay(wire'[Peer(x)], gen[x], Len(In(x))')
                    \/ FrameUnderWay(wire'[x], gen[x])
                    \/ tx'[Peer(x)].unsent <= Len(Out(Peer(x))')
  BY DEF AnsweredAt, AckUnderWay, FrameUnderWay, FrameOf
<1>1. Both(x)
  BY DEF Both, Live
<1>2. \/ d <= tx[Peer(x)].acked
      \/ d <= rx[x].ackDue
      \/ AckUnderWay(wire[Peer(x)], gen[x], d)
      \/ FrameUnderWay(wire[x], gen[x])
      \/ tx[Peer(x)].unsent <= Len(Out(Peer(x)))
  BY <1>1 DEF AnsweredAt
<1> QED BY <1>1, <1>2

\* Nothing was acknowledged of a bridge the phone has not opened yet.
LEMMA PendingIsUnheard ==
    ASSUME IInv, NEW c \in Nat, Opened(wire[Mobile], c, gen[Host])
    PROVE  Len(delivered[Mobile][gen[Host]]) = 0 /\ gen[Mobile] # gen[Host]
<1>1. Typed /\ WireGood /\ Generational /\ Mobile \in Ends /\ Host \in Ends
  BY Locally, TwoEnds DEF CoreInv
<1>2. wire[Mobile][c] \in Good(Mobile) /\ IsControl(wire[Mobile][c])
  <2>1. wire[Mobile] \in Seq(Good(Mobile))
    BY <1>1 DEF WireGood
  <2> QED BY <2>1, ElementOfSeq DEF Opened, IsControl
<1>3. gen[Mobile] < gen[Host] /\ gen[Host] \in Generations
  BY <1>2 DEF Good, GoodControl, IsControl, Opened, Payloads, Frames, Acks, Controls
<1>4. gen[Mobile] \in 0..MaxGeneration /\ gen[Host] \in 0..MaxGeneration /\ MaxGeneration \in Nat
  BY <1>1, RelayAssumption DEF Typed
<1>5. gen[Host] > gen[Mobile] /\ gen[Mobile] # gen[Host]
  BY <1>3, <1>4
<1>6. delivered[Mobile][gen[Host]] = <<>>
  BY <1>1, <1>3, <1>5 DEF Generational
<1> QED BY <1>5, <1>6, EmptySeq

LEMMA PendingKept ==
    ASSUME IInv, Contiguous, Pending, gen'[Host] = gen[Host], Live(Host)' => Live(Host),
           \/ wire'[Mobile] = wire[Mobile]
           \/ wire[Mobile] # <<>> /\ wire'[Mobile] = Tail(wire[Mobile]),
           \A c \in Nat : Opened(wire[Mobile], c, gen[Host]) /\ Live(Host)' =>
              NextSeq(Host)' = NextSeq(Host) \/ NextSeq(Host)' <= 1
    PROVE  Pending'
<1> DEFINE w == wire[Mobile]
<1>1. w \in Seq(Payloads) /\ Host \in Ends /\ Mobile \in Ends
  BY Locally, TwoEnds DEF CoreInv, WireGood
<1> SUFFICES ASSUME NEW c \in Nat, NEW g \in Generations, Opened(wire'[Mobile], c, g)
             PROVE  /\ Clear(wire'[Mobile], c, g)
                    /\ gen[Host] = g /\ Live(Host)' => Covers(wire'[Mobile], g, 1, NextSeq(Host)')
  BY Zenon DEF Pending
<1>2. ASSUME NEW i \in Nat, Opened(w, i, g), gen[Host] = g, Live(Host)',
             \A q \in Nat : Covers(w, g, 1, q) => Covers(wire'[Mobile], g, 1, q)
      PROVE  Covers(wire'[Mobile], g, 1, NextSeq(Host)')
  <2>1. NextSeq(Host)' = NextSeq(Host) \/ NextSeq(Host)' <= 1
    BY <1>2
  <2>2. NextSeq(Host) \in Nat /\ Covers(w, g, 1, NextSeq(Host))
    BY <1>1, <1>2, NextFrameNumber DEF Pending
  <2>3. CASE NextSeq(Host)' = NextSeq(Host)
    BY <1>2, <2>2, <2>3
  <2>4. CASE NextSeq(Host)' <= 1
    BY <2>4 DEF Covers
  <2> QED BY <2>1, <2>3, <2>4
<1>3. CASE wire'[Mobile] = w
  <2>1. Opened(w, c, g) /\ Clear(w, c, g)
    BY <1>3 DEF Pending
  <2> QED BY <1>2, <1>3, <2>1
<1>4. ASSUME w # <<>>, wire'[Mobile] = Tail(w)
      PROVE  /\ Clear(wire'[Mobile], c, g)
             /\ gen[Host] = g /\ Live(Host)' => Covers(wire'[Mobile], g, 1, NextSeq(Host)')
  <2> DEFINE v == Tail(w)
  <2>1. /\ Head(w) = w[1] /\ Len(w) \in Nat /\ Len(w) >= 1 /\ Len(v) = Len(w) - 1
        /\ \A i \in 1..Len(v) : v[i] = w[i + 1]
    BY <1>1, <1>4, HeadAndTail
  <2>2. \A i \in 1..Len(v) : i + 1 \in 1..Len(w)
    BY <2>1
  <2>3. Opened(v, c, g)
    BY <1>4
  <2> HIDE DEF v, w
  <2>4. Opened(w, c + 1, g) /\ c + 1 \in Nat /\ 1 \in 1..Len(w) /\ c >= 1
    BY <2>1, <2>2, <2>3 DEF Opened
  <2>5. Clear(w, c + 1, g)
    BY <2>4 DEF Pending, w
  <2>6. ~FrameOf(Head(w), g)
    BY <2>1, <2>4, <2>5 DEF Clear
  <2>7. /\ Smooth(w, g, 1) => Smooth(v, g, 1)
        /\ \A q \in Nat : Covers(w, g, 1, q) => Covers(v, g, 1, q)
    BY <1>1, <1>4, <2>6, AfterTaking DEF v
  <2>8. Clear(v, c, g)
    <3>1. ASSUME NEW k \in 1..Len(v), FrameOf(v[k], g) PROVE k > c
      <4>1. k + 1 \in 1..Len(w) /\ FrameOf(w[k + 1], g)
        BY <2>1, <2>2, <3>1
      <4>2. k + 1 > c + 1 /\ k \in Nat
        BY <2>5, <4>1 DEF Clear
      <4> QED BY <4>2
    <3> QED BY <2>5, <2>7, <3>1 DEF Clear
  <2> QED BY <1>2, <1>4, <2>4, <2>7, <2>8 DEF v
<1> QED BY <1>3, <1>4

\* The announcements that waited are put on a wire.
LEMMA AfterFlushing ==
    ASSUME NEW w \in Seq(Payloads), NEW b \in Seq(Payloads), NEW v, v = w \o b,
           \A j \in 1..Len(b) : b[j].type = "opened"
    PROVE  /\ \A g, n : Keeps(w, v, g, n, n)
           /\ \A g, d : AckUnderWay(w, g, d) => AckUnderWay(v, g, d)
           /\ \A g : \A k \in 1..Len(v) : FrameOf(v[k], g) =>
                 k \in 1..Len(w) /\ FrameOf(w[k], g)
<1>1. /\ Len(v) = Len(w) + Len(b) /\ Len(w) \in Nat /\ Len(b) \in Nat
      /\ \A i \in 1..Len(w) : v[i] = w[i]
      /\ \A i \in 1..Len(b) : v[Len(w) + i] = b[i]
      /\ \A i \in 1..Len(v) : i \in 1..Len(w) \/ \E k \in 1..Len(b) : i = Len(w) + k
  BY Joined
<1>2. \A i \in 1..Len(w) : i \in 1..Len(v)
  BY <1>1
<1>3. ASSUME NEW g, NEW k \in 1..Len(v), FrameOf(v[k], g)
      PROVE  k \in 1..Len(w) /\ FrameOf(w[k], g) /\ v[k] = w[k]
  <2>1. ASSUME NEW j \in 1..Len(b), k = Len(w) + j PROVE FALSE
    <3>1. v[k] = b[j] /\ b[j].type = "opened"
      BY <1>1, <2>1
    <3> QED BY ONLY <1>3, <3>1 DEF FrameOf
  <2>2. k \in 1..Len(w)
    BY <1>1, <2>1
  <2> QED BY <1>1, <1>3, <2>2
<1>4. ASSUME NEW g, NEW n, Smooth(w, g, n) PROVE Smooth(v, g, n)
  <2> SUFFICES ASSUME NEW k \in 1..Len(v), FrameOf(v[k], g)
               PROVE  \/ v[k].seq <= n
                      \/ \E j \in 1..Len(v) : j < k /\ FrameOf(v[j], g) /\ v[k].seq <= v[j].seq + 1
    BY DEF Smooth
  <2>1. k \in 1..Len(w) /\ FrameOf(w[k], g) /\ v[k] = w[k]
    BY <1>3
  <2>2. \/ w[k].seq <= n
        \/ \E j \in 1..Len(w) : j < k /\ FrameOf(w[j], g) /\ w[k].seq <= w[j].seq + 1
    BY <1>4, <2>1 DEF Smooth
  <2>3. ASSUME NEW j \in 1..Len(w), j < k, FrameOf(w[j], g), w[k].seq <= w[j].seq + 1
        PROVE  \E i \in 1..Len(v) : i < k /\ FrameOf(v[i], g) /\ v[k].seq <= v[i].seq + 1
    <3>1. j \in 1..Len(v) /\ v[j] = w[j]
      BY <1>1, <1>2
    <3> QED BY ONLY <2>1, <2>3, <3>1
  <2> QED BY ONLY <2>1, <2>2, <2>3
<1>5. ASSUME NEW g, NEW n, NEW q \in Nat, Covers(w, g, n, q) PROVE Covers(v, g, n, q)
  <2>1. ASSUME NEW j \in 1..Len(w), FrameOf(w[j], g), q <= w[j].seq + 1
        PROVE  \E i \in 1..Len(v) : FrameOf(v[i], g) /\ q <= v[i].seq + 1
    <3>1. j \in 1..Len(v) /\ v[j] = w[j]
      BY <1>1, <1>2
    <3> QED BY ONLY <2>1, <3>1
  <2> QED BY <1>5, <2>1 DEF Covers
<1>6. ASSUME NEW g, NEW d, AckUnderWay(w, g, d) PROVE AckUnderWay(v, g, d)
  <2>1. PICK j \in 1..Len(w) : w[j].type = "ack" /\ w[j].gen = g /\ d <= w[j].upTo
    BY <1>6 DEF AckUnderWay
  <2>2. j \in 1..Len(v) /\ v[j] = w[j]
    BY <1>1, <1>2
  <2> QED BY <2>1, <2>2 DEF AckUnderWay
<1> QED BY <1>3, <1>4, <1>5, <1>6 DEF Keeps

\* What waits for the transport of the desktop.
LEMMA Waiting ==
    ASSUME IInv, FlushBuffered(Host)
    PROVE  /\ wire[Mobile] \in Seq(Payloads) /\ buffered \in Seq(Payloads)
           /\ wire'[Mobile] = wire[Mobile] \o buffered /\ wire'[Host] = wire[Host]
           /\ \A j \in 1..Len(buffered) :
                 /\ buffered[j].type = "opened"
                 /\ gen[Mobile] < buffered[j].gen
<1>1. /\ Typed /\ WireGood /\ Announcing /\ Host \in Ends /\ Mobile \in Ends /\ Host # Mobile
  BY Locally, TwoEnds DEF CoreInv
<1>2. \A j \in 1..Len(buffered) : buffered[j] \in Payloads
  BY <1>1, ElementOfSeq DEF Typed, Payloads
<1>3. buffered \in Seq(Payloads)
  BY <1>1, <1>2, LargerSet DEF Typed
<1>4. wire' = [wire EXCEPT ![Mobile] = wire[Mobile] \o buffered]
  BY DEF FlushBuffered
<1>5. wire'[Mobile] = wire[Mobile] \o buffered /\ wire'[Host] = wire[Host]
  <2>1. PICK w : w = wire[Mobile] \o buffered
    OBVIOUS
  <2> QED BY <1>1, <1>4, <2>1 DEF WireGood
<1>6. wire[Mobile] \in Seq(Payloads)
  BY <1>1 DEF WireGood
<1> QED BY <1>1, <1>3, <1>5, <1>6 DEF Announcing

\* Every frame of a bridge announced now comes after its announcement.
LEMMA PendingFlushed ==
    ASSUME IInv, Pending, Unheard, FlushBuffered(Host), gen' = gen,
           Live(Host)' /\ gen[Mobile] < gen[Host] => NextSeq(Host)' <= 1
    PROVE  Pending'
<1>1. /\ wire[Mobile] \in Seq(Payloads) /\ buffered \in Seq(Payloads)
      /\ wire'[Mobile] = wire[Mobile] \o buffered
      /\ \A j \in 1..Len(buffered) : buffered[j].type = "opened" /\ gen[Mobile] < buffered[j].gen
  BY Waiting
<1>2. PICK w, v, b : w = wire[Mobile] /\ v = wire'[Mobile] /\ b = buffered
  OBVIOUS
<1>3. /\ w \in Seq(Payloads) /\ b \in Seq(Payloads) /\ v = w \o b
      /\ \A j \in 1..Len(b) : b[j].type = "opened" /\ gen[Mobile] < b[j].gen
  BY <1>1, <1>2
<1>4. /\ Len(v) = Len(w) + Len(b) /\ Len(w) \in Nat /\ Len(b) \in Nat
      /\ \A i \in 1..Len(w) : v[i] = w[i]
      /\ \A i \in 1..Len(b) : v[Len(w) + i] = b[i]
      /\ \A i \in 1..Len(v) : i \in 1..Len(w) \/ \E k \in 1..Len(b) : i = Len(w) + k
  BY <1>3, Joined
<1>5. /\ \A g, n : Keeps(w, v, g, n, n)
      /\ \A g : \A k \in 1..Len(v) : FrameOf(v[k], g) => k \in 1..Len(w) /\ FrameOf(w[k], g)
  BY <1>3, AfterFlushing
<1>6. Typed /\ Generational /\ Mobile \in Ends /\ Host \in Ends
  BY Locally, TwoEnds DEF CoreInv
<1> SUFFICES ASSUME NEW c \in Nat, NEW h \in Generations, Opened(v, c, h)
             PROVE  /\ Clear(v, c, h)
                    /\ gen[Host] = h /\ Live(Host)' => Covers(v, h, 1, NextSeq(Host)')
  BY <1>2, Zenon DEF Pending
<1>7. ASSUME gen[Mobile] < h PROVE gen[Host] = h /\ Live(Host)' => Covers(v, h, 1, NextSeq(Host)')
  BY <1>7 DEF Covers
<1>8. CASE c \in 1..Len(w)
  <2>1. Opened(w, c, h)
    BY <1>4, <1>8 DEF Opened
  <2>2. Clear(w, c, h)
    BY <1>2, <2>1 DEF Pending
  <2>3. Clear(v, c, h)
    <3>1. Smooth(v, h, 1)
      BY <1>5, <2>2 DEF Clear, Keeps
    <3>2. \A k \in 1..Len(v) : FrameOf(v[k], h) => k > c
      BY <1>5, <2>2 DEF Clear
    <3> QED BY <3>1, <3>2 DEF Clear
  <2>4. ASSUME gen[Host] = h PROVE gen[Mobile] < h
    <3>1. gen[Mobile] # gen[Host]
      BY <1>2, <2>1, <2>4, PendingIsUnheard
    <3>2. gen[Mobile] <= gen[Host] /\ gen[Mobile] \in Nat /\ gen[Host] \in Nat
      BY <1>6, RelayAssumption DEF Generational, Typed
    <3> QED BY <2>4, <3>1, <3>2
  <2> QED BY <1>7, <2>3, <2>4
<1>9. ASSUME NEW j \in 1..Len(b), c = Len(w) + j
      PROVE  /\ Clear(v, c, h)
             /\ gen[Host] = h /\ Live(Host)' => Covers(v, h, 1, NextSeq(Host)')
  <2>1. b[j].gen = h
    BY <1>4, <1>9 DEF Opened
  <2>2. \A k \in 1..Len(w) : ~FrameOf(w[k], h)
    BY <1>2, <1>9, <2>1 DEF Unheard
  <2>3. \A k \in 1..Len(v) : ~FrameOf(v[k], h)
    BY <1>5, <2>2
  <2>4. Clear(v, c, h)
    BY <2>3 DEF Clear, Smooth
  <2>5. gen[Mobile] < h
    BY <1>3, <2>1
  <2> QED BY <1>7, <2>4, <2>5
<1> QED BY <1>4, <1>8, <1>9 DEF Opened

LEMMA OnlyLossKept ==
    ASSUME OnlyLossMakesGaps, \A x \in Ends :
              \/ fault'[x] = fault[x] /\ (dropped[x] => dropped'[x])
              \/ fault'[x] \notin {"futureAck", "messageGap", "metadataMismatch",
                                   "physicalGap", "fragmentGap"}
    PROVE  OnlyLossMakesGaps'
BY DEF OnlyLossMakesGaps
-----------------------------------------------------------------------------
(* The steps of the adapters and of the relay. *)

\* What the leaves below need of the two ends.
LEMMA Around ==
    ASSUME IInv, GapInv, NEW e \in Ends
    PROVE  /\ Peer(e) \in Ends /\ Peer(e) # e /\ Peer(Peer(e)) = e
           /\ \A x \in Ends : x = e \/ x = Peer(e)
           /\ Host \in Ends /\ Mobile \in Ends
           /\ Typed /\ LocalInv(e) /\ Contiguous /\ Pending /\ OnlyLossMakesGaps
           /\ wire[e] \in Seq(Payloads) /\ wire \in [Ends -> Seq(Payloads)]
           /\ rx[e] \in RxStates /\ rx[e].expected \in Nat
           /\ AssemblerAt(e) /\ SmoothAt(e) /\ CoversAt(e) /\ AnsweredAt(e)
           /\ AssemblerAt(Peer(e)) /\ SmoothAt(Peer(e)) /\ CoversAt(Peer(e)) /\ AnsweredAt(Peer(e))
           /\ rx[Peer(e)].expected \in Nat /\ wire[Peer(e)] \in Seq(Payloads)
<1>1. /\ Peer(e) \in Ends /\ Peer(e) # e /\ Peer(Peer(e)) = e
      /\ \A x \in Ends : x = e \/ x = Peer(e)
      /\ Host \in Ends /\ Mobile \in Ends
  BY TwoEnds
<1>2. Typed /\ LocalInv(e) /\ wire \in [Ends -> Seq(Payloads)]
  BY Locally DEF CoreInv, WireGood
<1>3. /\ rx[e] \in RxStates /\ rx[e].expected \in Nat /\ rx[Peer(e)].expected \in Nat
  BY <1>1, <1>2 DEF Typed, RxStates
<1>4. LinkAt(e) /\ LinkAt(Peer(e)) /\ Contiguous /\ Pending /\ OnlyLossMakesGaps
  BY <1>1 DEF GapInv
<1> QED BY <1>1, <1>2, <1>3, <1>4 DEF LinkAt

LEMMA GapsHold ==
    ASSUME NEW e \in Ends, Contiguous', Pending', OnlyLossMakesGaps',
           AssemblerAt(e)', SmoothAt(e)', CoversAt(e)', AnsweredAt(e)',
           AssemblerAt(Peer(e))', SmoothAt(Peer(e))', CoversAt(Peer(e))', AnsweredAt(Peer(e))'
    PROVE  GapInv'
<1>1. LinkAt(e)' /\ LinkAt(Peer(e))'
  BY DEF LinkAt
<1> QED BY <1>1, TwoEnds DEF GapInv

LEMMA NumbersKept ==
    ASSUME Contiguous, reserved' = reserved
    PROVE  Contiguous'
BY DEF Contiguous, LastSeq

\* An end that goes on has what it had.
GoesOn(x) == Live(x)' => Live(x) /\ tx'[x] = tx[x] /\ rx'[x] = rx[x]

LEMMA NextSeqKept ==
    ASSUME NEW x \in Ends, gen' = gen, reserved' = reserved, tx'[x] = tx[x]
    PROVE  NextSeq(x)' = NextSeq(x) /\ Out(x)' = Out(x)
BY DEF NextSeq, Out, LastSeq

\* A payload is taken that says nothing to the adapter, or the adapter is degraded by it.
LEMMA TakenGaps ==
    ASSUME IInv, GapInv, NEW e \in Ends,
           UNCHANGED <<sessionVars, dropped, unsure>>, OnlyLossMakesGaps',
           GoesOn(e), GoesOn(Peer(e)),
           \/ wire' = wire
           \/ /\ wire[e] # <<>> /\ Taken(e)
              /\ Live(e)' => Head(wire[e]).type \notin {"frame", "ack"} \/ Head(wire[e]).gen # gen[e]
    PROVE  GapInv'
<1> DEFINE y == Peer(e)
           hd == Head(wire[e])
<1>1. /\ y \in Ends /\ y # e /\ Peer(y) = e /\ \A x \in Ends : x = e \/ x = y
      /\ Host \in Ends /\ Mobile \in Ends
      /\ Typed /\ Contiguous /\ Pending
      /\ wire[e] \in Seq(Payloads) /\ wire \in [Ends -> Seq(Payloads)]
      /\ rx[e].expected \in Nat
      /\ AssemblerAt(e) /\ SmoothAt(e) /\ CoversAt(e) /\ AnsweredAt(e)
      /\ AssemblerAt(y) /\ SmoothAt(y) /\ CoversAt(y) /\ AnsweredAt(y)
  BY Around
<1>2. gen' = gen /\ reserved' = reserved /\ delivered' = delivered
      /\ dropped' = dropped /\ unsure' = unsure
  BY DEF sessionVars
<1>3. /\ Live(e)' => Live(e) /\ tx'[e] = tx[e] /\ rx'[e] = rx[e]
      /\ Live(y)' => Live(y) /\ tx'[y] = tx[y] /\ rx'[y] = rx[y]
  BY DEF GoesOn
<1>4. /\ wire'[y] = wire[y]
      /\ \/ wire'[e] = wire[e]
         \/ wire[e] # <<>> /\ wire'[e] = Tail(wire[e])
  BY <1>1 DEF Taken
<1>5. ASSUME Live(e)'
      PROVE  /\ Keeps(wire[e], wire'[e], gen[e], rx[e].expected, rx[e].expected)
             /\ FrameUnderWay(wire[e], gen[e]) => FrameUnderWay(wire'[e], gen[e])
             /\ \A d : AckUnderWay(wire[e], gen[e], d) => AckUnderWay(wire'[e], gen[e], d)
  <2>1. CASE wire' = wire
    BY <2>1 DEF Keeps
  <2>2. ASSUME wire[e] # <<>>, Taken(e), hd.type \notin {"frame", "ack"} \/ hd.gen # gen[e]
        PROVE  /\ Keeps(wire[e], wire'[e], gen[e], rx[e].expected, rx[e].expected)
               /\ FrameUnderWay(wire[e], gen[e]) => FrameUnderWay(wire'[e], gen[e])
               /\ \A d : AckUnderWay(wire[e], gen[e], d) => AckUnderWay(wire'[e], gen[e], d)
    <3>1. wire'[e] = Tail(wire[e])
      BY <1>1, <2>2 DEF Taken
    <3>2. ~FrameOf(hd, gen[e]) /\ ~(hd.type = "ack" /\ hd.gen = gen[e])
      BY <2>2 DEF FrameOf
    <3>3. Keeps(wire[e], Tail(wire[e]), gen[e], rx[e].expected, rx[e].expected)
      <4>1. rx[e].expected <= rx[e].expected
        BY <1>1
      <4> QED BY <1>1, <2>2, <3>2, <4>1, AfterTaking DEF Keeps
    <3>4. FrameUnderWay(wire[e], gen[e]) => FrameUnderWay(Tail(wire[e]), gen[e])
      BY <1>1, <2>2, <3>2, UnderWayAfterTaking
    <3>5. ASSUME NEW d, AckUnderWay(wire[e], gen[e], d)
          PROVE  AckUnderWay(Tail(wire[e]), gen[e], d)
      BY <1>1, <2>2, <3>2, <3>5, UnderWayAfterTaking
    <3> QED BY <3>1, <3>3, <3>4, <3>5
  <2> QED BY <1>5, <2>1, <2>2
<1>6. ASSUME NEW x \in Ends, Live(x)' PROVE NextSeq(x)' = NextSeq(x) /\ Out(x)' = Out(x)
  <2>1. tx'[x] = tx[x]
    BY <1>1, <1>3, <1>6
  <2> QED BY <1>2, <2>1, NextSeqKept
<1>7. /\ Live(e)' => Live(e)
      /\ Live(y)' => Live(y)
      /\ Both(e)' => Live(e)' /\ Live(y)'
      /\ Both(y)' => Live(e)' /\ Live(y)' /\ gen[y] = gen[e]
  BY <1>1, <1>2, <1>3 DEF Both
<1> HIDE DEF y, hd
<1>8. Contiguous'
  BY <1>1, <1>2, NumbersKept
<1>9. AssemblerAt(e)' /\ AssemblerAt(y)'
  BY <1>1, <1>2, <1>3, AssemblerKept
<1>10. SmoothAt(e)' /\ CoversAt(e)'
  <2>1. Both(e)' => NextSeq(y)' = NextSeq(y)
    BY <1>1, <1>6, <1>7
  <2>2. Live(e)' => Keeps(wire[e], wire'[e], gen[e], rx[e].expected, rx'[e].expected)
    BY <1>3, <1>5
  <2> QED BY <1>1, <1>2, <1>7, <2>1, <2>2, FlowKept DEF y
<1>11. SmoothAt(y)' /\ CoversAt(y)'
  <2>1. Both(y)' => NextSeq(e)' = NextSeq(e)
    BY <1>6, <1>7
  <2>2. Live(y)' => Keeps(wire[y], wire'[y], gen[y], rx[y].expected, rx'[y].expected)
    BY <1>3, <1>4 DEF Keeps
  <2> QED BY <1>1, <1>2, <1>7, <2>1, <2>2, FlowKept
<1>12. AnsweredAt(e)'
  <2>1. PICK d : d = Len(In(e))
    OBVIOUS
  <2>2. Both(e)' /\ Both(e) =>
             /\ Len(In(e))' = d
             /\ d <= tx[y].acked => d <= tx'[y].acked
             /\ d <= rx[e].ackDue => d <= rx'[e].ackDue
             /\ AckUnderWay(wire[y], gen[e], d) => AckUnderWay(wire'[y], gen[e], d)
             /\ FrameUnderWay(wire[e], gen[e]) => FrameUnderWay(wire'[e], gen[e])
             /\ tx[y].unsent <= Len(Out(y)) => tx'[y].unsent <= Len(Out(y)')
    BY <1>1, <1>2, <1>3, <1>4, <1>5, <1>6, <1>7, <2>1 DEF In
  <2> QED BY <1>1, <1>2, <1>7, <2>1, <2>2, AnswerKept DEF y
<1>13. AnsweredAt(y)'
  <2>1. PICK d : d = Len(In(y))
    OBVIOUS
  <2>2. Both(y)' /\ Both(y) =>
             /\ Len(In(y))' = d
             /\ d <= tx[e].acked => d <= tx'[e].acked
             /\ d <= rx[y].ackDue => d <= rx'[y].ackDue
             /\ AckUnderWay(wire[e], gen[y], d) => AckUnderWay(wire'[e], gen[y], d)
             /\ FrameUnderWay(wire[y], gen[y]) => FrameUnderWay(wire'[y], gen[y])
             /\ tx[e].unsent <= Len(Out(e)) => tx'[e].unsent <= Len(Out(e)')
    BY <1>2, <1>3, <1>4, <1>5, <1>6, <1>7, <2>1 DEF In
  <2> QED BY <1>1, <1>2, <1>7, <2>1, <2>2, AnswerKept
<1>14. Pending'
  <2>1. Live(Host)' => Live(Host) /\ NextSeq(Host)' = NextSeq(Host)
    BY <1>1, <1>6, <1>7
  <2>2. \/ wire'[Mobile] = wire[Mobile]
        \/ wire[Mobile] # <<>> /\ wire'[Mobile] = Tail(wire[Mobile])
    BY <1>1, <1>4
  <2> QED BY <1>1, <1>2, <2>1, <2>2, PendingKept
<1> QED BY <1>8, <1>9, <1>10, <1>11, <1>12, <1>13, <1>14, GapsHold DEF y

\* A payload is lost: from then on nothing is claimed of the gaps towards e, and nothing of
\* acknowledgements until the next announcement.
LEMMA LoseGaps ==
    ASSUME IInv, GapInv, NEW e \in Ends, Lose(e)
    PROVE  GapInv'
<1> DEFINE y == Peer(e)
<1>1. /\ y \in Ends /\ y # e /\ Peer(y) = e /\ \A x \in Ends : x = e \/ x = y
      /\ Host \in Ends /\ Mobile \in Ends
      /\ Typed /\ Contiguous /\ Pending /\ OnlyLossMakesGaps
      /\ wire[e] \in Seq(Payloads) /\ wire \in [Ends -> Seq(Payloads)]
      /\ AssemblerAt(e) /\ AssemblerAt(y) /\ SmoothAt(y) /\ CoversAt(y)
  BY Around
<1>2. /\ gen' = gen /\ reserved' = reserved /\ delivered' = delivered
      /\ tx' = tx /\ rx' = rx /\ fault' = fault /\ wire[e] # <<>> /\ Taken(e)
      /\ dropped' = [dropped EXCEPT ![e] = TRUE] /\ unsure' = [x \in Ends |-> TRUE]
  BY DEF Lose, sessionVars, adapterVars
<1>3. /\ wire'[y] = wire[y] /\ wire'[e] = Tail(wire[e])
      /\ dropped'[e] /\ dropped'[y] = dropped[y] /\ unsure'[e] /\ unsure'[y]
  BY <1>1, <1>2 DEF Taken, Typed
<1>4. \A x \in Ends : /\ NextSeq(x)' = NextSeq(x) /\ Out(x)' = Out(x)
                      /\ Live(x)' = Live(x) /\ Both(x)' = Both(x)
  BY <1>2, NextSeqKept DEF Live, Both
<1> HIDE DEF y
<1>5. Contiguous'
  BY <1>1, <1>2, NumbersKept
<1>6. AssemblerAt(e)' /\ AssemblerAt(y)'
  BY <1>1, <1>2, <1>4, AssemblerKept
<1>7. SmoothAt(e)' /\ CoversAt(e)' /\ AnsweredAt(e)' /\ AnsweredAt(y)'
  BY <1>1, <1>3 DEF SmoothAt, CoversAt, AnsweredAt, y
<1>8. SmoothAt(y)'
  BY <1>1, <1>2, <1>3, <1>4 DEF SmoothAt
<1>9. CoversAt(y)'
  BY <1>1, <1>2, <1>3, <1>4 DEF CoversAt
<1>10. Pending'
  <2>1. \/ wire'[Mobile] = wire[Mobile]
        \/ wire[Mobile] # <<>> /\ wire'[Mobile] = Tail(wire[Mobile])
    BY <1>1, <1>2, <1>3
  <2>2. NextSeq(Host)' = NextSeq(Host) /\ (Live(Host)' => Live(Host)) /\ gen'[Host] = gen[Host]
    BY <1>1, <1>2, <1>4
  <2> QED BY <1>1, <2>1, <2>2, PendingKept
<1>11. OnlyLossMakesGaps'
  <2>1. \A x \in Ends : fault'[x] = fault[x] /\ (dropped[x] => dropped'[x])
    BY <1>1, <1>2, <1>3
  <2> QED BY <1>1, <2>1, OnlyLossKept
<1> QED BY <1>1, <1>5, <1>6, <1>7, <1>8, <1>9, <1>10, <1>11, GapsHold DEF y

\* A frame is taken by the assembler of e.
LEMMA FrameGaps ==
    ASSUME IInv, GapInv, NEW e \in Ends, ForMe(e, "frame"), Taken(e),
           UNCHANGED <<gen, reserved, tx, fault, relayVars>>,
           delivered'[Peer(e)] = delivered[Peer(e)], rx'[Peer(e)] = rx[Peer(e)],
           rx'[e].expected \in Nat, rx[e].expected <= rx'[e].expected,
           Head(wire[e]).seq + 1 <= rx'[e].expected,
           AssemblerAt(e)', CoversAt(e)' => AnsweredAt(e)'
    PROVE  GapInv'
<1> DEFINE y == Peer(e)
           hd == Head(wire[e])
<1>1. /\ y \in Ends /\ y # e /\ Peer(y) = e /\ \A x \in Ends : x = e \/ x = y
      /\ Host \in Ends /\ Mobile \in Ends
      /\ Typed /\ Contiguous /\ Pending /\ OnlyLossMakesGaps
      /\ wire[e] \in Seq(Payloads) /\ wire \in [Ends -> Seq(Payloads)]
      /\ rx[e].expected \in Nat
      /\ AssemblerAt(e) /\ SmoothAt(e) /\ CoversAt(e) /\ AnsweredAt(e)
      /\ AssemblerAt(y) /\ SmoothAt(y) /\ CoversAt(y) /\ AnsweredAt(y)
  BY Around
<1>2. /\ gen' = gen /\ reserved' = reserved /\ tx' = tx /\ fault' = fault
      /\ dropped' = dropped /\ unsure' = unsure
  BY DEF relayVars
<1>3. wire[e] # <<>> /\ hd.type = "frame"
  BY DEF ForMe, Arrives
<1>4. wire'[y] = wire[y] /\ wire'[e] = Tail(wire[e])
  BY <1>1 DEF Taken
<1>5. \A x \in Ends : /\ NextSeq(x)' = NextSeq(x) /\ Out(x)' = Out(x)
                      /\ Live(x)' = Live(x) /\ Both(x)' = Both(x)
  BY <1>2, NextSeqKept DEF Live, Both
<1> HIDE DEF y
<1>6. Contiguous'
  BY <1>1, <1>2, NumbersKept
<1>7. AssemblerAt(y)'
  <2>1. (Linked(reserved[e][gen[y]], Len(In(y)), rx[y]) /\ In(y)' = In(y)) \/ ~Live(y)'
    BY <1>1, <1>2, <1>5 DEF AssemblerAt, In, y
  <2> QED BY <1>1, <1>2, <2>1 DEF AssemblerAt, Linked, LastSeq, y
<1>8. SmoothAt(e)' /\ CoversAt(e)'
  <2>1. Keeps(wire[e], wire'[e], gen[e], rx[e].expected, rx'[e].expected)
    BY <1>1, <1>3, <1>4, AfterTaking DEF Keeps
  <2> QED BY <1>1, <1>2, <1>5, <2>1, FlowKept DEF y
<1>9. SmoothAt(y)' /\ CoversAt(y)'
  <2>1. Keeps(wire[y], wire'[y], gen[y], rx[y].expected, rx'[y].expected)
    BY <1>4 DEF Keeps, y
  <2> QED BY <1>1, <1>2, <1>5, <2>1, FlowKept
<1>10. AnsweredAt(e)'
  BY <1>8
<1>11. AnsweredAt(y)'
  <2>1. PICK d : d = Len(In(y))
    OBVIOUS
  <2>2. AckUnderWay(wire[e], gen[y], d) => AckUnderWay(wire'[e], gen[y], d)
    <3>1. hd.type # "ack"
      BY <1>3
    <3> QED BY <1>1, <1>3, <1>4, <3>1, UnderWayAfterTaking
  <2>3. /\ Len(In(y))' = d
        /\ d <= tx[e].acked => d <= tx'[e].acked
        /\ d <= rx[y].ackDue => d <= rx'[y].ackDue
        /\ FrameUnderWay(wire[y], gen[y]) => FrameUnderWay(wire'[y], gen[y])
        /\ tx[e].unsent <= Len(Out(e)) => tx'[e].unsent <= Len(Out(e)')
    BY <1>1, <1>2, <1>4, <1>5, <2>1 DEF In, y
  <2> QED BY <1>1, <1>2, <1>5, <2>1, <2>2, <2>3, AnswerKept
<1>12. Pending'
  <2>1. \/ wire'[Mobile] = wire[Mobile]
        \/ wire[Mobile] # <<>> /\ wire'[Mobile] = Tail(wire[Mobile])
    BY <1>1, <1>3, <1>4
  <2>2. NextSeq(Host)' = NextSeq(Host) /\ (Live(Host)' => Live(Host)) /\ gen'[Host] = gen[Host]
    BY <1>1, <1>2, <1>5
  <2> QED BY <1>1, <2>1, <2>2, PendingKept
<1>13. OnlyLossMakesGaps'
  BY <1>1, <1>2, OnlyLossKept
<1> QED BY <1>6, <1>7, <1>8, <1>9, <1>10, <1>11, <1>12, <1>13, GapsHold DEF y

LEMMA DuplicateGaps ==
    ASSUME IInv, IInv', GapInv, NEW e \in Ends, DuplicateArrives(e)
    PROVE  GapInv'
<1> DEFINE n == Len(In(e))
<1>1. /\ Typed /\ AssemblerAt(e) /\ rx[e] \in RxStates /\ rx[e].expected \in Nat
      /\ Peer(e) \in Ends /\ Peer(e) # e
  BY Around
<1>2. /\ ForMe(e, "frame") /\ Taken(e) /\ Head(wire[e]).seq < rx[e].expected /\ Live(e)
      /\ UNCHANGED <<sessionVars, tx, saturated, fault, relayVars>>
  BY DEF DuplicateArrives, ForMe
<1>3. Head(wire[e]).seq \in Nat /\ gen[e] # 0 /\ n \in Nat
  BY <1>1, <1>2, FrameTaken, Values DEF Frames
<1>4. /\ rx' \in [Ends -> RxStates]
      /\ rx'[e].expected = rx[e].expected /\ rx'[e].staged = rx[e].staged
      /\ rx'[e].count = rx[e].count /\ rx'[Peer(e)] = rx[Peer(e)]
      /\ n > 0 => n <= rx'[e].ackDue
  <2>1. rx' \in [Ends -> RxStates]
    BY Locally DEF IInv, CoreInv, Typed
  <2>2. CASE ~(n > 0)
    BY <2>1, <2>2 DEF DuplicateArrives
  <2>3. CASE n > 0
    <3>1. PICK k : k = IF rx[e].ackDue < n THEN n ELSE rx[e].ackDue
      OBVIOUS
    <3>2. rx' = [rx EXCEPT ![e] = Due(rx[e], k)]
      BY <2>3, <3>1 DEF DuplicateArrives, AckQueued, Due
    <3>3. rx'[e] = Due(rx[e], k) /\ rx'[Peer(e)] = rx[Peer(e)]
      BY <1>1, <3>2 DEF Typed
    <3>4. n <= k /\ k \in Nat
      <4>1. rx[e].ackDue \in Nat
        BY <1>1 DEF RxStates
      <4> QED BY <1>3, <3>1, <4>1
    <3>5. /\ rx'[e].expected = rx[e].expected /\ rx'[e].staged = rx[e].staged
          /\ rx'[e].count = rx[e].count /\ rx'[e].ackDue = k
      BY <1>1, <3>3 DEF RxStates, Due
    <3> QED BY <2>1, <3>3, <3>4, <3>5
  <2> QED BY <1>3, <2>2, <2>3
<1>5. gen' = gen /\ reserved' = reserved /\ delivered' = delivered /\ fault' = fault
      /\ Live(e)' = Live(e)
  BY <1>2 DEF sessionVars, Live
<1>6. AssemblerAt(e)'
  BY <1>1, <1>4, <1>5, AssemblerKept
<1>7. AnsweredAt(e)'
  <2>1. In(e)' = In(e)
    BY <1>5 DEF In
  <2>2. CASE n = 0
    <3>1. tx'[Peer(e)].acked \in Nat
      BY Around, <1>1, <1>2, Values DEF TxStates
    <3> QED BY <2>1, <2>2, <3>1 DEF AnsweredAt
  <2>3. CASE n # 0
    <3>1. n <= rx'[e].ackDue
      BY <1>3, <1>4, <2>3
    <3> QED BY <2>1, <3>1 DEF AnsweredAt
  <2> QED BY <2>2, <2>3
<1>8. /\ rx'[e].expected \in Nat /\ rx[e].expected <= rx'[e].expected
      /\ Head(wire[e]).seq + 1 <= rx'[e].expected
  BY <1>1, <1>2, <1>3, <1>4
<1> QED BY <1>2, <1>4, <1>5, <1>6, <1>7, <1>8, FrameGaps

\* A frame that is neither of old nor out of place is the one awaited.
LEMMA NextIsAwaited ==
    ASSUME IInv, GapInv, NEW e \in Ends, NextFrame(e)
    PROVE  ForMe(e, "frame") /\ Head(wire[e]).seq = rx[e].expected
<1>1. ForMe(e, "frame") /\ Head(wire[e]).seq >= rx[e].expected /\ Misplaced(e, Head(wire[e])) = "none"
  BY DEF NextFrame
<1>2. Head(wire[e]).seq \in Nat /\ rx[e].expected \in Nat
  BY <1>1, FrameTaken, Around DEF Frames
<1>3. ~(Head(wire[e]).seq > rx[e].expected)
  BY <1>1 DEF Misplaced
<1> QED BY <1>1, <1>2, <1>3

\* While a part of the next message is awaited, its sender has frames to send or under way.
PartFollowed(x) ==
    AssemblerAt(x) /\ CoversAt(x) /\ Both(x) /\ ~unsure[Peer(x)] /\ rx[x].staged > 0 =>
        FrameUnderWay(wire[x], gen[x]) \/ tx[Peer(x)].unsent <= Len(Out(Peer(x)))

LEMMA PartIsFollowed == IInv /\ Contiguous => \A x \in Ends : PartFollowed(x)
<1> SUFFICES ASSUME IInv, Contiguous, NEW x \in Ends, AssemblerAt(x), CoversAt(x),
                    Both(x), ~unsure[Peer(x)], rx[x].staged > 0
             PROVE  \/ FrameUnderWay(wire[x], gen[x])
                    \/ tx[Peer(x)].unsent <= Len(Out(Peer(x)))
  BY DEF PartFollowed
<1> DEFINE y == Peer(x)
           s == reserved[y][gen[x]]
           n == Len(In(x))
<1>1. Live(x) /\ Live(y) /\ gen[y] = gen[x] /\ Out(y) = s /\ y \in Ends /\ gen[x] # 0
  BY TwoEnds DEF Both, Out, Live
<1>2. Typed /\ Numbered /\ gen[x] \in Generations
  BY <1>1, Locally, Values DEF CoreInv
<1>3. /\ s \in Seq(Messages) /\ Len(s) \in Nat /\ n \in Nat /\ n <= Len(s)
      /\ rx[x].expected \in Nat /\ rx[x].staged \in Nat
      /\ LastSeq(s, n) \in Nat
      /\ n < Len(s) => rx[x].expected <= LastSeq(s, n + 1)
      /\ n = Len(s) => rx[x].staged = 0
  BY <1>1, AssemblerNumber
<1>4. /\ NextSeq(y) \in Nat
      /\ tx[y].unsent \in Nat
      /\ tx[y].unsent > Len(Out(y)) => NextSeq(y) = LastSeq(Out(y), Len(Out(y))) + 1
  BY <1>1, NextFrameNumber
<1>5. \/ NextSeq(y) <= rx[x].expected
      \/ FrameUnderWay(wire[x], gen[x])
  BY DEF CoversAt, Covers, FrameUnderWay
<1>6. ASSUME NextSeq(y) <= rx[x].expected, tx[y].unsent > Len(s) PROVE FALSE
  <2>1. n < Len(s) /\ rx[x].expected <= LastSeq(s, n + 1)
    BY <1>3
  <2>2. n + 1 \in 0..Len(s) /\ Len(s) \in 0..Len(s) /\ n + 1 <= Len(s)
    BY <1>3, <2>1
  <2>3. LastSeq(s, n + 1) <= LastSeq(s, Len(s))
    BY <1>1, <1>2, <2>2 DEF Numbered
  <2>4. LastSeq(s, n + 1) \in Nat /\ LastSeq(s, Len(s)) \in Nat
    <3> HIDE DEF s, n
    <3> QED BY <1>3, <2>2, LastSeqs
  <2>5. NextSeq(y) = LastSeq(s, Len(s)) + 1
    BY <1>1, <1>4, <1>6
  <2> QED BY ONLY <1>3, <1>6, <2>1, <2>3, <2>4, <2>5
<1>7. Len(s) \in Nat /\ tx[y].unsent \in Nat
  BY <1>3, <1>4
<1> HIDE DEF s, n, y
<1>8. FrameUnderWay(wire[x], gen[x]) \/ tx[y].unsent <= Len(s)
  BY <1>5, <1>6, <1>7
<1> QED BY <1>1, <1>8 DEF y

LEMMA FragmentGaps ==
    ASSUME IInv, IInv', GapInv, NEW e \in Ends, FragmentArrives(e)
    PROVE  GapInv'
<1> DEFINE s == reserved[Peer(e)][gen[e]]
           n == Len(In(e))
           p == Head(wire[e])
<1>1. /\ Typed /\ AssemblerAt(e) /\ rx[e] \in RxStates /\ rx[e].expected \in Nat /\ Contiguous
      /\ Peer(e) \in Ends /\ Peer(e) # e
  BY Around
<1>2. /\ ForMe(e, "frame") /\ Taken(e) /\ p.seq = rx[e].expected /\ Live(e)
      /\ rx[e].staged + 1 < p.count
      /\ rx' = [rx EXCEPT ![e] = Staged(rx[e], rx[e].staged + 1, p.count)]
      /\ UNCHANGED <<sessionVars, tx, saturated, flushing, timer, fault, relayVars>>
  BY NextIsAwaited DEF FragmentArrives, ForMe, Staged
<1>3. gen' = gen /\ reserved' = reserved /\ delivered' = delivered /\ fault' = fault
      /\ Live(e)' = Live(e) /\ In(e)' = In(e)
  BY <1>2 DEF sessionVars, Live, In
<1>4. n < Len(s) /\ p.count = s[n + 1].count
  BY <1>1, <1>2, AwaitedFits
<1>5. /\ rx[e].staged \in Nat
      /\ rx'[e].expected = rx[e].expected + 1 /\ rx'[e].staged = rx[e].staged + 1
      /\ rx'[e].count = p.count /\ rx'[Peer(e)] = rx[Peer(e)]
  <2>1. rx'[e] = Staged(rx[e], rx[e].staged + 1, p.count) /\ rx'[Peer(e)] = rx[Peer(e)]
    BY <1>1, <1>2 DEF Typed
  <2>2. rx[e].staged \in Nat
    BY <1>1 DEF RxStates
  <2> HIDE DEF p
  <2>3. /\ Staged(rx[e], rx[e].staged + 1, p.count).expected = rx[e].expected + 1
        /\ Staged(rx[e], rx[e].staged + 1, p.count).staged = rx[e].staged + 1
        /\ Staged(rx[e], rx[e].staged + 1, p.count).count = p.count
    BY <1>1, Zenon DEF RxStates, Staged
  <2> QED BY <2>1, <2>2, <2>3
<1>6. AssemblerAt(e)'
  <2>1. rx[e].expected = LastSeq(s, n) + 1 + rx[e].staged /\ LastSeq(s, n) \in Nat
    BY <1>1, <1>2, AssemblerNumber
  <2>2. p.count \in Nat
    BY <1>2, FrameTaken DEF Frames
  <2> HIDE DEF s, n, p
  <2>3. Linked(s, n, rx'[e])
    BY <1>2, <1>4, <1>5, <2>1, <2>2 DEF Linked
  <2> QED BY <1>3, <2>3 DEF AssemblerAt, Linked, LastSeq, s, n
<1>7. ASSUME CoversAt(e)' PROVE AnsweredAt(e)'
  <2> SUFFICES ASSUME Both(e)', ~unsure'[Peer(e)]
               PROVE  \/ FrameUnderWay(wire[e], gen[e])'
                      \/ (tx[Peer(e)].unsent <= Len(Out(Peer(e))))'
    BY DEF AnsweredAt
  <2>1. Contiguous' /\ rx'[e].staged > 0
    BY <1>1, <1>3, <1>5, NumbersKept
  <2>2. (IInv /\ Contiguous => \A x \in Ends : PartFollowed(x))'
    BY PartIsFollowed, PTL
  <2>3. PartFollowed(e)'
    BY <2>1, <2>2
  <2> QED BY <1>6, <1>7, <2>1, <2>3 DEF PartFollowed
<1>8. rx'[e].expected \in Nat /\ rx[e].expected <= rx'[e].expected
      /\ p.seq + 1 <= rx'[e].expected
  BY <1>1, <1>2, <1>5
<1> QED BY <1>2, <1>3, <1>5, <1>6, <1>7, <1>8, FrameGaps

LEMMA MessageGaps ==
    ASSUME IInv, IInv', GapInv, NEW e \in Ends, MessageArrives(e)
    PROVE  GapInv'
<1> DEFINE s == reserved[Peer(e)][gen[e]]
           n == Len(In(e))
           p == Head(wire[e])
<1>1. /\ Typed /\ AssemblerAt(e) /\ rx[e] \in RxStates /\ rx[e].expected \in Nat /\ Contiguous
      /\ Peer(e) \in Ends /\ Peer(e) # e
  BY Around
<1>2. PICK m : m = [first |-> p.seq - p.index, count |-> p.count]
  OBVIOUS
<1>3. PICK k : k = IF rx[e].ackDue < n + 1 THEN n + 1 ELSE rx[e].ackDue
  OBVIOUS
<1>4. /\ ForMe(e, "frame") /\ Taken(e) /\ p.seq = rx[e].expected /\ Live(e)
      /\ rx[e].staged + 1 = p.count
      /\ delivered' = [delivered EXCEPT ![e][gen[e]] = Append(delivered[e][gen[e]], m)]
      /\ rx' = [rx EXCEPT ![e] = Due(Complete(rx[e]), k)]
      /\ UNCHANGED <<gen, asked, reserved, tx, saturated, fault, relayVars>>
  <2>1. [rx[e] EXCEPT !.expected = rx[e].expected + 1, !.staged = 0].ackDue = rx[e].ackDue
    BY <1>1 DEF RxStates
  <2>2. rx' = [rx EXCEPT ![e] = Due(Complete(rx[e]), k)]
    BY <1>3, <2>1 DEF MessageArrives, AckQueued, Due, Complete
  <2> QED BY <1>2, <2>2, NextIsAwaited DEF MessageArrives, ForMe
<1>5. /\ gen[e] # 0 /\ gen[e] \in Generations
      /\ delivered[e] \in [Generations -> Seq(Messages)]
      /\ delivered \in [Ends -> [Generations -> Seq(Messages)]]
      /\ n \in Nat /\ In(e) \in Seq(Messages)
  BY <1>1, <1>4, Values DEF Live, Typed
<1>6. /\ delivered'[e][gen[e]] = Append(In(e), m) /\ delivered'[Peer(e)] = delivered[Peer(e)]
  BY <1>1, <1>4, <1>5 DEF In
<1>7. Len(In(e))' = n + 1
  <2>1. delivered'[e][gen[e]] \in Seq(Messages)
    BY <1>5, Locally DEF IInv, CoreInv, Typed
  <2>2. Len(Append(In(e), m)) = Len(In(e)) + 1
    BY <1>5, AppendProperties, <1>6, <2>1
  <2> QED BY <1>4, <1>6, <2>2 DEF In
<1>8. n < Len(s) /\ p.count = s[n + 1].count
  BY <1>1, <1>4, AwaitedFits
<1>9. /\ rx'[e].expected = rx[e].expected + 1 /\ rx'[e].staged = 0
      /\ n + 1 <= rx'[e].ackDue /\ rx'[Peer(e)] = rx[Peer(e)]
  <2>1. rx'[e] = Due(Complete(rx[e]), k) /\ rx'[Peer(e)] = rx[Peer(e)]
    BY <1>1, <1>4 DEF Typed
  <2>2. rx[e].ackDue \in Nat
    BY <1>1 DEF RxStates
  <2>3. n + 1 <= k
    BY <1>3, <1>5, <2>2
  <2>4. Complete(rx[e]).expected = rx[e].expected + 1 /\ Complete(rx[e]).staged = 0
    BY <1>1 DEF RxStates, Complete
  <2>5. Complete(rx[e]) \in RxStates
    BY <1>1, RxAdvanced
  <2>6. /\ Due(Complete(rx[e]), k).expected = Complete(rx[e]).expected
        /\ Due(Complete(rx[e]), k).staged = Complete(rx[e]).staged
        /\ Due(Complete(rx[e]), k).ackDue = k
    BY <2>5 DEF RxStates, Due
  <2> QED BY <2>1, <2>3, <2>4, <2>6
<1>10. AssemblerAt(e)'
  <2>1. /\ rx[e].expected = LastSeq(s, n) + 1 + rx[e].staged /\ LastSeq(s, n) \in Nat
        /\ LastSeq(s, n + 1) = LastSeq(s, n) + s[n + 1].count /\ s[n + 1].count \in Nat
        /\ rx[e].staged \in Nat
    BY <1>1, <1>4, <1>8, AssemblerNumber
  <2>2. p.count \in Nat
    BY <1>4, FrameTaken DEF Frames
  <2> HIDE DEF s, n, p
  <2>3. Linked(s, n + 1, rx'[e])
    <3>1. rx'[e].expected = LastSeq(s, n + 1) + 1 + rx'[e].staged
      <4>1. rx[e].staged + 1 = p.count /\ p.count = s[n + 1].count /\ p.count \in Nat
        BY <1>4, <1>8, <2>2
      <4> QED BY ONLY <1>1, <1>9, <2>1, <4>1
    <3>2. ~(rx'[e].staged > 0)
      BY <1>9
    <3> QED BY <3>1, <3>2 DEF Linked
  <2>4. reserved' = reserved /\ gen' = gen
    BY <1>4
  <2> QED BY <1>7, <2>3, <2>4 DEF AssemblerAt, Linked, LastSeq, s
<1>11. AnsweredAt(e)'
  <2>1. Len(In(e))' <= rx'[e].ackDue
    BY <1>7, <1>9
  <2> QED BY <2>1 DEF AnsweredAt
<1>12. /\ rx'[e].expected \in Nat /\ rx[e].expected <= rx'[e].expected
       /\ p.seq + 1 <= rx'[e].expected
  BY <1>1, <1>4, <1>9
<1> QED BY <1>4, <1>6, <1>9, <1>10, <1>11, <1>12, FrameGaps

\* A frame that is out of place is one from beyond a loss.
LEMMA FaultGaps ==
    ASSUME IInv, GapInv, NEW e \in Ends, FaultArrives(e) \/ DeliveryFails(e)
    PROVE  GapInv'
<1> DEFINE p == Head(wire[e])
<1>1. /\ Typed /\ AssemblerAt(e) /\ SmoothAt(e) /\ rx[e].expected \in Nat /\ Contiguous
      /\ OnlyLossMakesGaps /\ wire[e] \in Seq(Payloads)
      /\ Peer(e) \in Ends /\ Peer(e) # e /\ \A x \in Ends : x = e \/ x = Peer(e)
  BY Around
<1>2. PICK r : /\ ForMe(e, "frame") /\ Degrade(e, r) /\ Taken(e)
               /\ p.seq >= rx[e].expected
               /\ UNCHANGED <<sessionVars, relayVars>>
               /\ r # "none"
               /\ r = "deliveryFailed" \/ r = Misplaced(e, p)
  BY DEF FaultArrives, DeliveryFails, NextFrame
<1>3. r = "deliveryFailed" \/ (r = "physicalGap" /\ dropped[e])
  <2> SUFFICES ASSUME r = Misplaced(e, p) PROVE r = "physicalGap" /\ dropped[e]
    BY <1>2
  <2>1. p.seq \in Nat /\ Live(e) /\ p.gen = gen[e] /\ p.type = "frame" /\ wire[e] # <<>>
    BY <1>2, FrameTaken DEF Frames, ForMe
  <2>2. p.seq # rx[e].expected
    <3> SUFFICES ASSUME p.seq = rx[e].expected PROVE FALSE
      OBVIOUS
    <3>1. /\ p.message = Len(In(e)) + 1 /\ p.index = rx[e].staged
          /\ rx[e].staged > 0 => p.count = rx[e].count
      BY <1>1, <1>2, AwaitedFits
    <3>2. ~(p.seq > rx[e].expected)
      BY <1>1
    <3>3. Misplaced(e, p) = "none"
      BY <3>1, <3>2 DEF Misplaced
    <3> QED BY <1>2, <3>3
  <2>3. p.seq > rx[e].expected
    BY <1>1, <1>2, <2>1, <2>2
  <2>4. r = "physicalGap"
    <3> HIDE DEF p
    <3>1. Misplaced(e, p) = "physicalGap"
      BY ONLY <2>3 DEF Misplaced
    <3> QED BY <3>1
  <2>5. dropped[e]
    <3> SUFFICES ASSUME ~dropped[e] PROVE FALSE
      OBVIOUS
    <3>1. Smooth(wire[e], gen[e], rx[e].expected)
      BY <1>1, <2>1 DEF SmoothAt
    <3>2. p = wire[e][1] /\ 1 \in 1..Len(wire[e]) /\ Len(wire[e]) \in Nat
      BY <1>1, <2>1, HeadAndTail
    <3>3. FrameOf(wire[e][1], gen[e])
      BY <2>1, <3>2 DEF FrameOf
    <3>4. wire[e][1].seq <= rx[e].expected \/ \E j \in 1..Len(wire[e]) : j < 1
      BY <3>1, <3>2, <3>3 DEF Smooth
    <3> QED BY <1>1, <2>1, <2>3, <3>2, <3>4
  <2> QED BY <2>4, <2>5
<1>4. /\ fault'[e] = r /\ fault'[Peer(e)] = fault[Peer(e)]
      /\ tx'[Peer(e)] = tx[Peer(e)] /\ rx'[Peer(e)] = rx[Peer(e)]
      /\ gen' = gen /\ dropped' = dropped /\ unsure' = unsure
  BY <1>1, <1>2 DEF Degrade, Typed, sessionVars, relayVars
<1>5. GoesOn(e) /\ GoesOn(Peer(e)) /\ ~Live(e)'
  BY <1>2, <1>4 DEF GoesOn, Live
<1>6. OnlyLossMakesGaps'
  <2>1. /\ fault'[e] \notin {"futureAck", "messageGap", "metadataMismatch"}
        /\ fault'[e] \in {"physicalGap", "fragmentGap"} => dropped'[e]
    BY <1>3, <1>4
  <2>2. /\ fault'[Peer(e)] \notin {"futureAck", "messageGap", "metadataMismatch"}
        /\ fault'[Peer(e)] \in {"physicalGap", "fragmentGap"} => dropped'[Peer(e)]
    BY <1>1, <1>4 DEF OnlyLossMakesGaps
  <2> QED BY <1>1, <2>1, <2>2 DEF OnlyLossMakesGaps
<1>7. wire[e] # <<>>
  BY <1>2 DEF ForMe, Arrives
<1>8. UNCHANGED <<sessionVars, dropped, unsure>>
  BY <1>2, <1>4
<1> QED BY <1>2, <1>5, <1>6, <1>7, <1>8, TakenGaps

\* What leaves the wires, the numbers and the histories as they are.
LEMMA StillGaps ==
    ASSUME IInv, GapInv, NEW e \in Ends,
           \/ ReserveOverflows(e) \/ GraceExpires(e) \/ AssemblyExpires(e)
           \/ FlushEnds(e) \/ Disconnect(e) \/ Ignore(e) \/ UNCHANGED vars
    PROVE  GapInv'
<1>1. /\ Typed /\ OnlyLossMakesGaps /\ Peer(e) \in Ends /\ Peer(e) # e
      /\ \A x \in Ends : x = e \/ x = Peer(e)
  BY Around
<1>2. CASE ReserveOverflows(e) \/ GraceExpires(e) \/ AssemblyExpires(e)
  <2>1. PICK r : /\ Degrade(e, r) /\ UNCHANGED <<sessionVars, linkVars>>
                 /\ r \in {"replayBufferExceeded", "graceExceeded", "assemblyTimeout"}
    BY <1>2 DEF ReserveOverflows, GraceExpires, AssemblyExpires
  <2>2. /\ fault'[e] = r /\ fault'[Peer(e)] = fault[Peer(e)]
        /\ tx'[Peer(e)] = tx[Peer(e)] /\ rx'[Peer(e)] = rx[Peer(e)]
        /\ UNCHANGED <<sessionVars, wire, dropped, unsure>>
    BY <1>1, <2>1 DEF Degrade, Typed, linkVars, relayVars
  <2>3. GoesOn(e) /\ GoesOn(Peer(e))
    BY <2>1, <2>2 DEF GoesOn, Live, sessionVars
  <2>4. OnlyLossMakesGaps'
    <3>1. ASSUME NEW x \in Ends
          PROVE  \/ fault'[x] = fault[x] /\ (dropped[x] => dropped'[x])
                 \/ fault'[x] \notin {"futureAck", "messageGap", "metadataMismatch",
                                      "physicalGap", "fragmentGap"}
      BY <1>1, <2>1, <2>2
    <3> QED BY <1>1, <3>1, OnlyLossKept
  <2> QED BY <2>2, <2>3, <2>4, TakenGaps
<1>3. CASE FlushEnds(e) \/ Disconnect(e) \/ Ignore(e) \/ UNCHANGED vars
  <2>1. /\ UNCHANGED <<sessionVars, tx, rx, fault, dropped, unsure>>
        /\ ~Ignore(e) => wire' = wire
        /\ Ignore(e) => wire[e] # <<>> /\ Taken(e)
    BY <1>3 DEF FlushEnds, Disconnect, Ignore, vars, adapterVars, linkVars, relayVars
  <2>2. GoesOn(e) /\ GoesOn(Peer(e)) /\ (Live(e)' => Live(e))
    BY <2>1 DEF GoesOn, Live, sessionVars
  <2>3. OnlyLossMakesGaps'
    BY <1>1, <2>1, OnlyLossKept
  <2>4. Ignore(e) /\ Live(e)' =>
            Head(wire[e]).type \notin {"frame", "ack"} \/ Head(wire[e]).gen # gen[e]
    BY <2>2 DEF Ignore
  <2> QED BY <2>1, <2>2, <2>3, <2>4, TakenGaps
<1> QED BY <1>2, <1>3

\* The sender e is put back to where its peer has been, or stays where it is.
LEMMA BackGaps ==
    ASSUME IInv, GapInv, NEW e \in Ends, NEW a \in Nat,
           UNCHANGED <<sessionVars, fault, rx, dropped>>,
           tx'[Peer(e)] = tx[Peer(e)], unsure'[Peer(e)] = unsure[Peer(e)],
           \/ wire' = wire
           \/ wire[e] # <<>> /\ Taken(e) /\ Head(wire[e]).type = "ack"
           \/ /\ e = Host /\ FlushBuffered(Host) /\ Unheard
              /\ Live(e) => NextSeq(e)' = LastSeq(Out(e), a) + 1,
           Live(e) => a <= Len(delivered[Peer(e)][gen[e]]),
           Live(e) => \/ NextSeq(e)' = LastSeq(Out(e), a) + 1
                      \/ NextSeq(e)' = NextSeq(e) /\ unsure'[e] = unsure[e],
           AnsweredAt(Peer(e))'
    PROVE  GapInv'
<1> DEFINE y == Peer(e)
<1>1. /\ y \in Ends /\ y # e /\ Peer(y) = e /\ \A x \in Ends : x = e \/ x = y
      /\ Host \in Ends /\ Mobile \in Ends
      /\ Typed /\ Contiguous /\ Pending /\ OnlyLossMakesGaps
      /\ wire[e] \in Seq(Payloads) /\ wire \in [Ends -> Seq(Payloads)]
      /\ rx[e].expected \in Nat
      /\ AssemblerAt(e) /\ SmoothAt(e) /\ CoversAt(e) /\ AnsweredAt(e)
      /\ AssemblerAt(y) /\ SmoothAt(y) /\ CoversAt(y)
  BY Around
<1>2. /\ gen' = gen /\ reserved' = reserved /\ delivered' = delivered
      /\ fault' = fault /\ rx' = rx /\ dropped' = dropped
  BY DEF sessionVars
<1>3. /\ \/ wire'[e] = wire[e]
         \/ wire[e] # <<>> /\ wire'[e] = Tail(wire[e]) /\ Head(wire[e]).type = "ack"
      /\ \A g, n : Keeps(wire[y], wire'[y], g, n, n)
      /\ \A g, d : AckUnderWay(wire[y], g, d) => AckUnderWay(wire'[y], g, d)
  <2>1. CASE wire' = wire \/ (wire[e] # <<>> /\ Taken(e) /\ Head(wire[e]).type = "ack")
    <3>1. wire'[y] = wire[y]
      BY <1>1, <2>1 DEF Taken
    <3> QED BY <1>1, <2>1, <3>1 DEF Taken, Keeps
  <2>2. CASE e = Host /\ FlushBuffered(Host)
    <3>1. y = Mobile
      BY <2>2, TwoEnds
    <3>2. /\ wire[y] \in Seq(Payloads) /\ buffered \in Seq(Payloads)
          /\ wire'[y] = wire[y] \o buffered /\ wire'[e] = wire[e]
          /\ \A j \in 1..Len(buffered) : buffered[j].type = "opened"
      BY <2>2, <3>1, Waiting
    <3>3. PICK w, v, b : w = wire[y] /\ v = wire'[y] /\ b = buffered
      OBVIOUS
    <3>4. /\ \A g, n : Keeps(w, v, g, n, n)
          /\ \A g, d : AckUnderWay(w, g, d) => AckUnderWay(v, g, d)
      BY <3>2, <3>3, AfterFlushing
    <3> QED BY <3>2, <3>3, <3>4
  <2> QED BY <2>1, <2>2
<1>4. \A x \in Ends : Live(x)' = Live(x) /\ Both(x)' = Both(x) /\ In(x)' = In(x) /\ Out(x)' = Out(x)
  BY <1>2 DEF Live, Both, In, Out
<1>5. NextSeq(y)' = NextSeq(y)
  BY <1>1, <1>2, NextSeqKept
<1>6. /\ Keeps(wire[e], wire'[e], gen[e], rx[e].expected, rx[e].expected)
      /\ FrameUnderWay(wire[e], gen[e]) => FrameUnderWay(wire'[e], gen[e])
  <2>1. CASE wire'[e] = wire[e]
    BY <2>1 DEF Keeps
  <2>2. ASSUME wire[e] # <<>>, wire'[e] = Tail(wire[e]), Head(wire[e]).type = "ack"
        PROVE  /\ Keeps(wire[e], wire'[e], gen[e], rx[e].expected, rx[e].expected)
               /\ FrameUnderWay(wire[e], gen[e]) => FrameUnderWay(wire'[e], gen[e])
    <3>1. ~FrameOf(Head(wire[e]), gen[e]) /\ rx[e].expected <= rx[e].expected
      BY <1>1, <2>2 DEF FrameOf
    <3>2. Keeps(wire[e], Tail(wire[e]), gen[e], rx[e].expected, rx[e].expected)
      BY <1>1, <2>2, <3>1, AfterTaking DEF Keeps
    <3>3. FrameUnderWay(wire[e], gen[e]) => FrameUnderWay(Tail(wire[e]), gen[e])
      BY <1>1, <2>2, <3>1, UnderWayAfterTaking
    <3> QED BY <2>2, <3>2, <3>3
  <2> QED BY <1>3, <2>1, <2>2
<1> HIDE DEF y
<1>7. Contiguous'
  BY <1>1, <1>2, NumbersKept
<1>8. AssemblerAt(e)' /\ AssemblerAt(y)'
  BY <1>1, <1>2, <1>4, AssemblerKept
<1>9. SmoothAt(e)' /\ CoversAt(e)'
  <2>1. unsure'[y] = unsure[y]
    BY DEF y
  <2> QED BY <1>1, <1>2, <1>4, <1>5, <1>6, <2>1, FlowKept DEF y
<1>10. SmoothAt(y)'
  <2> SUFFICES ASSUME Live(y)', ~dropped'[y] PROVE Smooth(wire'[y], gen[y], rx[y].expected)
    BY <1>2 DEF SmoothAt, Smooth, FrameOf
  <2>1. Smooth(wire[y], gen[y], rx[y].expected)
    BY <1>1, <1>2, <1>4 DEF SmoothAt
  <2> QED BY <1>3, <2>1 DEF Keeps
<1>11. CoversAt(y)'
  <2> SUFFICES ASSUME Both(y)', ~dropped'[y] \/ ~unsure'[e]
               PROVE  Covers(wire'[y], gen[y], rx[y].expected, NextSeq(e)')
    BY <1>1, <1>2 DEF CoversAt, Covers, FrameOf
  <2>1. Both(y) /\ Live(e) /\ gen[y] = gen[e] /\ gen[e] # 0
    BY <1>1, <1>4 DEF Both, Live
  <2>2. CASE NextSeq(e)' = LastSeq(Out(e), a) + 1
    <3>1. Len(In(y)) \in Nat /\ a \in 0..Len(In(y))
      BY <1>1, <2>1, Values DEF In, y
    <3>2. NextSeq(e)' <= rx[y].expected
      BY <1>1, <2>1, <2>2, <3>1, BackIsCovered
    <3> QED BY <3>2 DEF Covers
  <2>3. CASE NextSeq(e)' = NextSeq(e) /\ unsure'[e] = unsure[e]
    <3>1. Covers(wire[y], gen[y], rx[y].expected, NextSeq(e))
      BY <1>1, <1>2, <2>1, <2>3 DEF CoversAt
    <3>2. NextSeq(e) \in Nat
      BY <1>1, <2>1, NextFrameNumber
    <3> QED BY <1>3, <2>3, <3>1, <3>2 DEF Keeps
  <2> QED BY <2>1, <2>2, <2>3
<1>12. AnsweredAt(e)'
  <2>1. PICK d : d = Len(In(e))
    OBVIOUS
  <2>2. /\ Len(In(e))' = d
        /\ d <= tx[y].acked => d <= tx'[y].acked
        /\ d <= rx[e].ackDue => d <= rx'[e].ackDue
        /\ AckUnderWay(wire[y], gen[e], d) => AckUnderWay(wire'[y], gen[e], d)
        /\ tx[y].unsent <= Len(Out(y)) => tx'[y].unsent <= Len(Out(y)')
    BY <1>1, <1>2, <1>3, <1>4, <2>1 DEF y
  <2>3. unsure'[y] = unsure[y]
    BY DEF y
  <2> QED BY <1>1, <1>2, <1>4, <1>6, <2>1, <2>2, <2>3, AnswerKept DEF y
<1>13. Pending'
  <2>1. ASSUME gen[Mobile] # gen[Host], Len(delivered[Mobile][gen[Host]]) = 0, Live(Host),
               Host = e, NextSeq(e)' = LastSeq(Out(e), a) + 1
        PROVE  NextSeq(Host)' <= 1
    <3>1. Peer(e) = Mobile
      BY <2>1, TwoEnds
    <3>2. a = 0
      BY <2>1, <3>1
    <3> QED BY <2>1, <3>2 DEF LastSeq
  <2>2. CASE wire' = wire \/ (wire[e] # <<>> /\ Taken(e) /\ Head(wire[e]).type = "ack")
    <3>1. \/ wire'[Mobile] = wire[Mobile]
          \/ wire[Mobile] # <<>> /\ wire'[Mobile] = Tail(wire[Mobile])
      BY <1>1, <2>2 DEF Taken
    <3>2. ASSUME NEW c \in Nat, Opened(wire[Mobile], c, gen[Host]), Live(Host)'
          PROVE  NextSeq(Host)' = NextSeq(Host) \/ NextSeq(Host)' <= 1
      <4>1. CASE Host = e
        <5>1. Len(delivered[Mobile][gen[Host]]) = 0 /\ gen[Mobile] # gen[Host]
          BY <3>2, PendingIsUnheard
        <5> QED BY <1>1, <1>4, <2>1, <3>2, <4>1, <5>1
      <4>2. CASE Host = y
        BY <1>5, <4>2
      <4> QED BY <1>1, <4>1, <4>2
    <3> QED BY <1>1, <1>2, <1>4, <3>1, <3>2, PendingKept
  <2>3. CASE /\ e = Host /\ FlushBuffered(Host) /\ Unheard
             /\ Live(e) => NextSeq(e)' = LastSeq(Out(e), a) + 1
    <3>1. ASSUME Live(Host)', gen[Mobile] < gen[Host] PROVE NextSeq(Host)' <= 1
      <4>1. Live(Host) /\ gen[Host] # 0
        BY <1>1, <1>4, <3>1 DEF Live
      <4>2. gen[Host] > gen[Mobile] /\ gen[Mobile] # gen[Host] /\ gen[Host] \in Generations
        <5>1. gen[Host] \in Generations /\ gen[Host] \in Nat /\ gen[Mobile] \in Nat
          BY <1>1, <4>1, Values
        <5> QED BY <3>1, <5>1
      <4>3. delivered[Mobile][gen[Host]] = <<>>
        BY <1>1, <4>2 DEF IInv, CoreInv, Generational
      <4>4. Len(delivered[Mobile][gen[Host]]) = 0
        BY <4>3, EmptySeq
      <4> QED BY <2>1, <2>3, <4>1, <4>2, <4>4
    <3> QED BY <1>1, <1>2, <2>3, <3>1, PendingFlushed
  <2> QED BY <2>2, <2>3
<1>14. OnlyLossMakesGaps'
  BY <1>1, <1>2, OnlyLossKept
<1>15. AnsweredAt(y)'
  BY DEF y
<1> QED BY <1>7, <1>8, <1>9, <1>10, <1>11, <1>12, <1>13, <1>14, <1>15, GapsHold DEF y

LEMMA AckGaps ==
    ASSUME IInv, IInv', GapInv, NEW e \in Ends, AckArrives(e)
    PROVE  GapInv'
<1> DEFINE y == Peer(e)
           t == tx[e]
<1>1. /\ y \in Ends /\ y # e /\ Peer(y) = e /\ Typed /\ Contiguous
      /\ wire[e] \in Seq(Payloads) /\ wire \in [Ends -> Seq(Payloads)]
      /\ AnsweredAt(y)
  BY Around
<1>2. PICK a : a = Head(wire[e]).upTo
  OBVIOUS
<1>3. /\ wire[e] # <<>> /\ Taken(e) /\ Live(e) /\ gen[e] # 0
      /\ Head(wire[e]).type = "ack" /\ Head(wire[e]).gen = gen[e]
      /\ UNCHANGED <<sessionVars, relayVars>>
  BY DEF AckArrives, ForMe, Arrives, Live
<1>4. a \in Nat /\ a <= Len(delivered[y][gen[e]])
  <2>1. Head(wire[e]) \in Good(e) /\ Head(wire[e]) \in Payloads
    BY <1>3, Locally, HeadIsGood DEF CoreInv
  <2> QED BY <1>2, <1>3, <2>1 DEF Good, Payloads, Frames, Acks, Controls
<1>5. /\ t \in TxStates /\ t.acked \in Nat /\ t.unsent \in Nat \ {0} /\ t.frame \in Nat
      /\ gen[e] \in Generations /\ Len(Out(e)) \in Nat
      /\ Len(delivered[y][gen[e]]) \in Nat
      /\ Len(delivered[y][gen[e]]) <= Len(Out(e))
  BY <1>1, <1>3, Values, DeliveredWasReserved DEF TxStates
<1>6. /\ tx'[y] = tx[y] /\ rx' = rx /\ fault' = fault
      /\ t.acked <= tx'[e].acked /\ a <= tx'[e].acked
      /\ \/ tx'[e].unsent = t.unsent /\ tx'[e].frame = t.frame
         \/ tx'[e].unsent = a + 1 /\ tx'[e].frame = 0
  <2> DEFINE n == IF t.unsent <= a THEN a + 1 ELSE t.unsent
             f == IF t.unsent <= a THEN 0 ELSE t.frame
             left == t.bytes - (LastSeq(Out(e), a) - LastSeq(Out(e), t.acked))
  <2>1. \/ a <= t.acked /\ tx' = tx /\ rx' = rx /\ fault' = fault
        \/ /\ a > t.acked /\ rx' = rx /\ fault' = fault
           /\ tx' = [tx EXCEPT ![e] = Released(t, a, n, f, left)]
        \/ Degrade(e, "futureAck")
    BY <1>2 DEF AckArrives, adapterVars, Released
  <2>2. ~Degrade(e, "futureAck")
    <3>1. fault'[e] # "futureAck" /\ fault \in [Ends -> Faults]
      BY <1>1 DEF IInv, CoreInv, Acknowledging, Typed
    <3> QED BY <3>1 DEF Degrade
  <2>3. CASE a <= t.acked /\ tx' = tx /\ rx' = rx /\ fault' = fault
    BY <1>5, <2>3
  <2>4. CASE /\ a > t.acked /\ rx' = rx /\ fault' = fault
             /\ tx' = [tx EXCEPT ![e] = Released(t, a, n, f, left)]
    <3>1. tx'[e] = Released(t, a, n, f, left) /\ tx'[y] = tx[y]
      BY <1>1, <2>4 DEF Typed
    <3>2. /\ Released(t, a, n, f, left).acked = a /\ Released(t, a, n, f, left).unsent = n
          /\ Released(t, a, n, f, left).frame = f
      <4> HIDE DEF n, f, left, t
      <4> QED BY <1>5, Zenon DEF TxStates, Released
    <3>3. (n = t.unsent /\ f = t.frame) \/ (n = a + 1 /\ f = 0)
      OBVIOUS
    <3> HIDE DEF n, f, left, t
    <3> QED BY <1>4, <1>5, <2>4, <3>1, <3>2, <3>3
  <2> QED BY <2>1, <2>2, <2>3, <2>4
<1>7. Out(e)' = Out(e) /\ Out(y)' = Out(y) /\ In(y)' = In(y) /\ gen' = gen /\ reserved' = reserved
      /\ Both(y)' = Both(y) /\ dropped' = dropped /\ unsure' = unsure
  BY <1>3, <1>6 DEF Out, In, sessionVars, Both, Live, relayVars
<1>8. \/ NextSeq(e)' = LastSeq(Out(e), a) + 1
      \/ NextSeq(e)' = NextSeq(e) /\ unsure'[e] = unsure[e]
  <2>1. NextSeq(e)' = LastSeq(Out(e), tx'[e].unsent - 1) + 1 + tx'[e].frame
    BY <1>7 DEF NextSeq, LastSeq
  <2>2. CASE tx'[e].unsent = t.unsent /\ tx'[e].frame = t.frame
    BY <1>7, <2>1, <2>2 DEF NextSeq
  <2>3. CASE tx'[e].unsent = a + 1 /\ tx'[e].frame = 0
    <3>1. tx'[e].unsent - 1 = a
      BY <1>4, <2>3
    <3>2. LastSeq(Out(e), a) \in Nat
      <4>1. a \in 0..Len(Out(e)) /\ Out(e) \in Seq(Messages)
        BY <1>1, <1>3, <1>4, <1>5, Values
      <4> QED BY <4>1, LastSeqs
    <3> QED BY <2>1, <2>3, <3>1, <3>2
  <2> QED BY <1>6, <2>2, <2>3
<1>9. AnsweredAt(y)'
  <2>1. PICK d : d = Len(In(y))
    OBVIOUS
  <2> HIDE DEF y
  <2>2. ASSUME Both(y)', Both(y)
        PROVE  /\ Len(In(y))' = d
               /\ d <= tx[e].acked => d <= tx'[e].acked
               /\ d <= rx[y].ackDue => d <= rx'[y].ackDue
               /\ AckUnderWay(wire[e], gen[y], d) =>
                    AckUnderWay(wire'[e], gen[y], d) \/ d <= tx'[e].acked
               /\ FrameUnderWay(wire[y], gen[y]) => FrameUnderWay(wire'[y], gen[y])
               /\ tx[e].unsent <= Len(Out(e)) =>
                    tx'[e].unsent <= Len(Out(e)') \/ d <= tx'[e].acked
    <3>1. gen[y] = gen[e] /\ d \in Nat /\ d <= Len(Out(e))
      BY <1>1, <1>5, <2>1, <2>2 DEF Both, In
    <3>2. tx'[e].acked \in Nat /\ tx'[e].unsent \in Nat
      BY <1>1 DEF IInv, CoreInv, Typed, TxStates
    <3>3. d <= tx[e].acked => d <= tx'[e].acked
      BY <1>5, <1>6, <3>1, <3>2
    <3>4. AckUnderWay(wire[e], gen[y], d) =>
                    AckUnderWay(wire'[e], gen[y], d) \/ d <= tx'[e].acked
      <4>1. wire'[e] = Tail(wire[e])
        BY <1>1, <1>3 DEF Taken
      <4>2. CASE d <= a
        BY <1>4, <1>6, <3>1, <3>2, <4>2
      <4>3. CASE ~(d <= a)
        BY <1>1, <1>2, <1>3, <4>1, <4>3, UnderWayAfterTaking
      <4> QED BY <4>2, <4>3
    <3>5. tx[e].unsent <= Len(Out(e)) =>
                    tx'[e].unsent <= Len(Out(e)') \/ d <= tx'[e].acked
      <4> SUFFICES ASSUME tx[e].unsent <= Len(Out(e)), ~(d <= tx'[e].acked)
                   PROVE  tx'[e].unsent <= Len(Out(e))
        BY <1>7
      <4>1. CASE tx'[e].unsent = a + 1
        <5>1. a < d
          BY <1>4, <1>6, <3>1, <3>2
        <5> QED BY <1>4, <1>5, <3>1, <4>1, <5>1
      <4> QED BY <1>6, <4>1
    <3>6. wire'[y] = wire[y] /\ rx'[y] = rx[y]
      BY <1>1, <1>3, <1>6 DEF Taken
    <3> QED BY <1>7, <2>1, <3>3, <3>4, <3>5, <3>6
  <2>3. (Live(y)' => Live(y)) /\ (Live(e)' => Live(e)) /\ unsure'[e] = unsure[e]
    BY <1>6, <1>7 DEF Live
  <2> QED BY <1>1, <1>7, <2>1, <2>2, <2>3, AnswerKept
<1> QED BY <1>3, <1>4, <1>6, <1>7, <1>8, <1>9, BackGaps

LEMMA ReadyGaps ==
    ASSUME IInv, IInv', GapInv, Unheard, NEW e \in Ends, SendReady(e)
    PROVE  GapInv'
<1> DEFINE y == Peer(e)
           a == tx[e].acked
<1>1. /\ y \in Ends /\ y # e /\ Peer(y) = e /\ Typed /\ Contiguous /\ AnsweredAt(y)
      /\ LocalInv(e) /\ tx[e] \in TxStates /\ a \in Nat
  BY Around, Values DEF TxStates
<1>2. /\ UNCHANGED <<sessionVars, rx, fault, dropped>>
      /\ FlushBuffered(e)
      /\ unsure' = [unsure EXCEPT ![e] = FALSE]
      /\ Live(e) => tx' = [tx EXCEPT ![e] = Rewound(tx[e])]
      /\ ~Live(e) => tx' = tx
  BY DEF SendReady, Rewound
<1>3. tx'[y] = tx[y] /\ unsure'[y] = unsure[y] /\ unsure'[e] = FALSE
  BY <1>1, <1>2 DEF Typed
<1>4. Out(e)' = Out(e) /\ In(y)' = In(y) /\ gen' = gen /\ reserved' = reserved
      /\ Both(y)' = Both(y) /\ Live(e)' = Live(e)
  BY <1>2 DEF Out, In, sessionVars, Both, Live
<1>5. ASSUME Live(e)
      PROVE  /\ tx'[e].acked = a /\ tx'[e].unsent = a + 1 /\ tx'[e].frame = 0
             /\ a <= Len(delivered[y][gen[e]]) /\ a <= Len(Out(e)) /\ Len(Out(e)) \in Nat
             /\ Len(delivered[y][gen[e]]) <= Len(Out(e))
             /\ Len(delivered[y][gen[e]]) \in Nat
             /\ NextSeq(e)' = LastSeq(Out(e), a) + 1
  <2>1. tx'[e] = Rewound(tx[e])
    BY <1>1, <1>2, <1>5 DEF Typed
  <2>2. tx'[e].acked = a /\ tx'[e].unsent = a + 1 /\ tx'[e].frame = 0
    BY <1>1, <2>1, TxRewound
  <2>3. /\ a <= Len(delivered[y][gen[e]]) /\ gen[e] # 0
    BY <1>1, <1>5 DEF LocalInv, Live
  <2>4. a <= Len(Out(e)) /\ Len(delivered[y][gen[e]]) <= Len(Out(e))
    BY <2>3, DeliveredWasReserved
  <2>5. Len(Out(e)) \in Nat /\ Len(delivered[y][gen[e]]) \in Nat /\ Out(e) \in Seq(Messages)
    BY <1>1, <2>3, Values
  <2>6. NextSeq(e)' = LastSeq(Out(e), tx'[e].unsent - 1) + 1 + tx'[e].frame
    BY <1>4 DEF NextSeq, LastSeq
  <2>7. LastSeq(Out(e), a) \in Nat /\ (a + 1) - 1 = a
    <3>1. a \in 0..Len(Out(e))
      BY <1>1, <2>4, <2>5
    <3> QED BY <1>1, <2>5, <3>1, LastSeqs
  <2>8. NextSeq(e)' = LastSeq(Out(e), a) + 1
    BY <2>2, <2>6, <2>7
  <2> QED BY <2>2, <2>3, <2>4, <2>5, <2>8
<1> HIDE DEF y, a
<1>6. AnsweredAt(y)'
  <2> SUFFICES ASSUME Both(y)'
               PROVE  \/ Len(In(y))' <= tx'[e].acked
                      \/ tx'[e].unsent <= Len(Out(e))'
    BY <1>1 DEF AnsweredAt
  <2>1. Live(e) /\ gen[y] = gen[e]
    BY <1>1, <1>4 DEF Both
  <2>2. In(y)' = delivered[y][gen[e]]
    BY <1>4, <2>1 DEF In
  <2> QED BY <1>1, <1>4, <1>5, <2>1, <2>2
<1>7. \/ wire' = wire
      \/ /\ e = Host /\ FlushBuffered(Host) /\ Unheard
         /\ Live(e) => NextSeq(e)' = LastSeq(Out(e), a) + 1
  <2>1. CASE e = Host
    BY <1>2, <1>5, <2>1
  <2>2. CASE e # Host
    BY <1>2, <2>2 DEF FlushBuffered
  <2> QED BY <2>1, <2>2
<1> QED BY <1>1, <1>2, <1>3, <1>5, <1>6, <1>7, BackGaps DEF y

\* A payload is put on the wire of the other end: a frame is the next one of its sender.
LEMMA PutGaps ==
    ASSUME IInv, IInv', GapInv, NEW e \in Ends, NEW p \in Payloads, Put(e, p),
           UNCHANGED <<gen, reserved, delivered, fault, dropped, unsure>>,
           tx'[Peer(e)] = tx[Peer(e)], rx'[Peer(e)] = rx[Peer(e)],
           rx'[e].expected = rx[e].expected, rx'[e].staged = rx[e].staged,
           rx'[e].count = rx[e].count,
           rx'[e].ackDue = rx[e].ackDue
              \/ (p.type = "ack" /\ p.gen = gen[e] /\ p.upTo = rx[e].ackDue),
           tx'[e].acked = tx[e].acked,
           p.type # "opened",
           \/ p.type # "frame" /\ tx'[e] = tx[e]
           \/ /\ p.type = "frame" /\ p.gen = gen[e] /\ Live(e)
              /\ p.seq = NextSeq(e) /\ NextSeq(e)' <= p.seq + 1
    PROVE  GapInv'
<1> DEFINE y == Peer(e)
           w == wire[Peer(e)]
<1>1. /\ y \in Ends /\ y # e /\ Peer(y) = e /\ \A x \in Ends : x = e \/ x = y
      /\ Host \in Ends /\ Mobile \in Ends
      /\ Typed /\ Contiguous /\ Pending /\ OnlyLossMakesGaps
      /\ w \in Seq(Payloads) /\ wire \in [Ends -> Seq(Payloads)]
      /\ rx[y].expected \in Nat
      /\ AssemblerAt(e) /\ SmoothAt(e) /\ CoversAt(e) /\ AnsweredAt(e)
      /\ AssemblerAt(y) /\ SmoothAt(y) /\ CoversAt(y) /\ AnsweredAt(y)
  BY Around
<1>2. /\ gen' = gen /\ reserved' = reserved /\ delivered' = delivered
      /\ fault' = fault /\ dropped' = dropped /\ unsure' = unsure
  OBVIOUS
<1>3. wire'[e] = wire[e] /\ wire'[y] = Append(w, p)
  BY <1>1 DEF Put
<1>4. \A x \in Ends : Live(x)' = Live(x) /\ Both(x)' = Both(x) /\ In(x)' = In(x) /\ Out(x)' = Out(x)
  BY <1>2 DEF Live, Both, In, Out
<1>5. NextSeq(y)' = NextSeq(y) /\ (p.type # "frame" => NextSeq(e)' = NextSeq(e))
  BY <1>1, <1>2, NextSeqKept
<1>6. Live(e) => NextSeq(e) \in Nat /\ NextSeq(e)' \in Nat
  <2>1. Live(e) => NextSeq(e) \in Nat
    BY <1>1, NextFrameTyped
  <2>2. (IInv /\ Contiguous => \A x \in Ends : Live(x) => NextSeq(x) \in Nat)'
    BY NextFrameTyped, PTL
  <2>3. Contiguous'
    BY <1>1, <1>2, NumbersKept
  <2> QED BY <1>4, <2>1, <2>2, <2>3
<1> HIDE DEF y, w
<1>7. Contiguous'
  BY <1>1, <1>2, NumbersKept
<1>8. AssemblerAt(e)' /\ AssemblerAt(y)'
  <2>1. /\ rx'[e].expected = rx[e].expected /\ rx'[e].staged = rx[e].staged
        /\ rx'[e].count = rx[e].count /\ rx'[y] = rx[y]
    BY DEF y
  <2> QED BY <1>1, <1>2, <1>4, <2>1, AssemblerKept
<1>9. SmoothAt(e)' /\ CoversAt(e)'
  <2>1. Keeps(wire[e], wire'[e], gen[e], rx[e].expected, rx'[e].expected)
    BY <1>3 DEF Keeps
  <2> QED BY <1>1, <1>2, <1>4, <1>5, <2>1, FlowKept DEF y
<1>10. \A g, q : /\ q \in Nat /\ Covers(w, g, rx[y].expected, q)
                        => Covers(Append(w, p), g, rx[y].expected, q)
                 /\ q \in Nat /\ FrameOf(p, g) /\ q <= p.seq + 1
                        => Covers(Append(w, p), g, rx[y].expected, q)
  <2> TAKE g, q
  <2>1. CASE q \in Nat
    BY <1>1, <2>1, AfterPutting
  <2>2. CASE q \notin Nat
    BY <2>2
  <2> QED BY <2>1, <2>2
<1>11. SmoothAt(y)'
  <2> SUFFICES ASSUME Live(y), ~dropped[y]
               PROVE  Smooth(Append(w, p), gen[y], rx[y].expected)
    BY <1>1, <1>2, <1>3, <1>4 DEF SmoothAt, y
  <2>1. Smooth(w, gen[y], rx[y].expected)
    BY <1>1 DEF SmoothAt, w, y
  <2>2. FrameOf(p, gen[y]) => Covers(w, gen[y], rx[y].expected, p.seq)
    <3> SUFFICES ASSUME FrameOf(p, gen[y]) PROVE Covers(w, gen[y], rx[y].expected, p.seq)
      OBVIOUS
    <3>1. gen[y] = gen[e] /\ Live(e) /\ p.seq = NextSeq(e)
      BY DEF FrameOf
    <3>2. Both(y)
      BY <1>1, <3>1 DEF Both
    <3> QED BY <1>1, <3>1, <3>2 DEF CoversAt, w, y
  <2> QED BY <1>1, <2>1, <2>2, AfterPutting
<1>12. CoversAt(y)'
  <2> SUFFICES ASSUME Both(y), ~dropped[y] \/ ~unsure[e]
               PROVE  Covers(Append(w, p), gen[y], rx[y].expected, NextSeq(e)')
    BY <1>1, <1>2, <1>3, <1>4 DEF CoversAt, y
  <2>1. Live(e) /\ gen[y] = gen[e]
    BY <1>1 DEF Both
  <2>2. Covers(w, gen[y], rx[y].expected, NextSeq(e))
    BY <1>1 DEF CoversAt, w, y
  <2>3. CASE p.type # "frame"
    BY <1>5, <1>6, <1>10, <2>1, <2>2, <2>3
  <2>4. CASE p.type = "frame"
    BY <1>6, <1>10, <2>1, <2>4 DEF FrameOf
  <2> QED BY <2>3, <2>4
<1>13. AnsweredAt(e)'
  <2>1. PICK d : d = Len(In(e))
    OBVIOUS
  <2>2. CASE p.type = "ack" /\ p.gen = gen[e] /\ p.upTo = rx[e].ackDue /\ d <= rx[e].ackDue
    <3>1. AckUnderWay(wire'[y], gen[e], d)
      <4>1. 1 \in Nat
        OBVIOUS
      <4> QED BY <1>1, <1>3, <2>2, <4>1, AfterPutting
    <3> QED BY <1>1, <1>2, <1>4, <2>1, <3>1 DEF AnsweredAt, y
  <2>3. CASE d <= rx[e].ackDue => d <= rx'[e].ackDue
    <3>1. AckUnderWay(w, gen[e], d) => AckUnderWay(Append(w, p), gen[e], d)
      <4>1. 1 \in Nat
        OBVIOUS
      <4> QED BY <1>1, <4>1, AfterPutting
    <3>2. /\ Len(In(e))' = d
          /\ d <= tx[y].acked => d <= tx'[y].acked
          /\ AckUnderWay(wire[y], gen[e], d) => AckUnderWay(wire'[y], gen[e], d)
          /\ FrameUnderWay(wire[e], gen[e]) => FrameUnderWay(wire'[e], gen[e])
          /\ tx[y].unsent <= Len(Out(y)) => tx'[y].unsent <= Len(Out(y)')
      BY <1>1, <1>3, <1>4, <2>1, <3>1 DEF w, y
    <3> QED BY <1>1, <1>2, <1>4, <2>1, <2>3, <3>2, AnswerKept DEF y
  <2> QED BY <2>2, <2>3
<1>14. AnsweredAt(y)'
  <2>1. PICK d : d = Len(In(y))
    OBVIOUS
  <2>2. CASE FrameOf(p, gen[y])
    <3>1. FrameUnderWay(wire'[y], gen[y])
      BY <1>1, <1>3, <2>2, AfterPutting
    <3> QED BY <1>2, <3>1 DEF AnsweredAt
  <2>3. CASE p.type # "frame"
    <3>1. FrameUnderWay(w, gen[y]) => FrameUnderWay(Append(w, p), gen[y])
      BY <1>1, AfterPutting
    <3>2. /\ Len(In(y))' = d
          /\ d <= tx[e].acked => d <= tx'[e].acked
          /\ d <= rx[y].ackDue => d <= rx'[y].ackDue
          /\ AckUnderWay(wire[e], gen[y], d) => AckUnderWay(wire'[e], gen[y], d)
          /\ FrameUnderWay(wire[y], gen[y]) => FrameUnderWay(wire'[y], gen[y])
          /\ tx[e].unsent <= Len(Out(e)) => tx'[e].unsent <= Len(Out(e)')
      BY <1>1, <1>3, <1>4, <2>1, <2>3, <3>1 DEF w, y
    <3> QED BY <1>1, <1>2, <1>4, <2>1, <3>2, AnswerKept
  <2>4. CASE p.type = "frame" /\ ~FrameOf(p, gen[y])
    <3>1. gen[y] # gen[e]
      BY <2>4 DEF FrameOf
    <3>2. ~Both(y)'
      BY <1>1, <1>2, <3>1 DEF Both
    <3> QED BY <3>2 DEF AnsweredAt
  <2> QED BY <2>2, <2>3, <2>4
<1>15. OnlyLossMakesGaps'
  BY <1>1, <1>2, OnlyLossKept
<1>16. CASE y = Host
  <2>1. wire'[Mobile] = wire[Mobile] /\ NextSeq(Host)' = NextSeq(Host) /\ Live(Host)' = Live(Host)
    BY <1>1, <1>3, <1>4, <1>5, <1>16, TwoEnds
  <2>2. Pending'
    BY <1>1, <1>2, <2>1, PendingKept
  <2> QED BY <1>7, <1>8, <1>9, <1>11, <1>12, <1>13, <1>14, <1>15, <2>2, GapsHold DEF y
<1>17. CASE y = Mobile
  <2>0. e = Host
    BY <1>1, <1>17, TwoEnds
  <2>1. Pending'
    <3> SUFFICES ASSUME NEW c \in Nat, NEW g \in Generations, Opened(Append(w, p), c, g)
                 PROVE  /\ Clear(Append(w, p), c, g)
                        /\ gen[Host] = g /\ Live(Host)
                             => Covers(Append(w, p), g, 1, NextSeq(Host)')
      <4>1. /\ wire'[Mobile] = Append(w, p) /\ gen'[Host] = gen[Host]
            /\ Live(Host)' = Live(Host)
        BY <1>1, <1>2, <1>3, <1>4, <1>17
      <4> QED BY <4>1, Zenon DEF Pending
    <3>1. /\ Len(w) \in Nat /\ Len(Append(w, p)) = Len(w) + 1 /\ Append(w, p)[Len(w) + 1] = p
          /\ \A i \in 1..Len(w) : Append(w, p)[i] = w[i]
      BY <1>1, Appended
    <3>2. Opened(w, c, g)
      <4>1. c # Len(w) + 1
        BY <3>1 DEF Opened
      <4>2. c \in 1..Len(w)
        BY <3>1, <4>1 DEF Opened
      <4> QED BY <3>1, <4>2 DEF Opened
    <3>3. /\ Clear(w, c, g)
          /\ gen[Host] = g /\ Live(Host) => Covers(w, g, 1, NextSeq(Host))
      BY <1>1, <1>17, <3>2 DEF Pending, w, y
    <3>4. FrameOf(p, g) => Covers(w, g, 1, p.seq)
      BY <2>0, <3>3 DEF FrameOf
    <3>5. Clear(Append(w, p), c, g)
      <4>1. Smooth(Append(w, p), g, 1)
        <5>1. 1 \in Nat /\ Smooth(w, g, 1)
          BY <3>3 DEF Clear
        <5> QED BY <1>1, <3>4, <5>1, AfterPutting
      <4>2. ASSUME NEW k \in 1..Len(Append(w, p)), FrameOf(Append(w, p)[k], g) PROVE k > c
        <5>1. CASE k = Len(w) + 1
          BY <3>1, <3>2, <5>1 DEF Opened
        <5>2. CASE k # Len(w) + 1
          <6>1. k \in 1..Len(w) /\ FrameOf(w[k], g)
            BY <3>1, <4>2, <5>2
          <6> QED BY <3>3, <6>1 DEF Clear
        <5> QED BY <5>1, <5>2
      <4> QED BY <4>1, <4>2 DEF Clear
    <3>6. ASSUME gen[Host] = g, Live(Host) PROVE Covers(Append(w, p), g, 1, NextSeq(Host)')
      <4>1. NextSeq(e) \in Nat /\ NextSeq(e)' \in Nat /\ Covers(w, g, 1, NextSeq(e))
        BY <1>6, <2>0, <3>3, <3>6
      <4>2. CASE p.type # "frame"
        BY <1>1, <1>5, <2>0, <4>1, <4>2, AfterPutting
      <4>3. CASE p.type = "frame"
        <5>1. FrameOf(p, g) /\ NextSeq(e)' <= p.seq + 1
          BY <2>0, <3>6, <4>3 DEF FrameOf
        <5> QED BY <1>1, <2>0, <4>1, <5>1, AfterPutting
      <4> QED BY <4>2, <4>3
    <3> QED BY <3>5, <3>6
  <2> QED BY <1>7, <1>8, <1>9, <1>11, <1>12, <1>13, <1>14, <1>15, <2>1, GapsHold DEF y
<1> QED BY <1>1, <1>16, <1>17 DEF Ends

LEMMA SendAckGaps ==
    ASSUME IInv, IInv', GapInv, NEW e \in Ends, SendAck(e)
    PROVE  GapInv'
<1>1. /\ Typed /\ LocalInv(e) /\ Peer(e) \in Ends /\ Peer(e) # e /\ rx[e] \in RxStates
      /\ Live(e) /\ gen[e] # 0
  BY Around DEF SendAck, Live
<1>2. PICK p : p = [type |-> "ack", gen |-> gen[e], upTo |-> rx[e].ackDue]
  OBVIOUS
<1>3. p \in Payloads /\ p.type = "ack" /\ p.gen = gen[e] /\ p.upTo = rx[e].ackDue
  <2>1. gen[e] \in Generations /\ rx[e].ackDue \in Nat
    BY <1>1, Values DEF RxStates
  <2> QED BY <1>2, <2>1 DEF Payloads, Acks
<1>4. /\ Put(e, p) /\ UNCHANGED <<gen, reserved, delivered, fault, dropped, unsure>>
      /\ tx' = tx
  BY <1>2 DEF SendAck, sessionVars, relayVars
<1>5. /\ rx'[Peer(e)] = rx[Peer(e)]
      /\ rx'[e].expected = rx[e].expected /\ rx'[e].staged = rx[e].staged
      /\ rx'[e].count = rx[e].count
  BY <1>1 DEF SendAck, Typed, RxStates
<1> QED BY <1>3, <1>4, <1>5, PutGaps

\* The next frame is sent: the one after it follows on it.
LEMMA SendFrameGaps ==
    ASSUME IInv, IInv', GapInv, NEW e \in Ends, SendFrame(e)
    PROVE  GapInv'
<1> DEFINE t == tx[e]
           m == Out(e)[t.unsent]
<1>1. /\ Typed /\ Contiguous /\ Live(e) /\ Peer(e) \in Ends /\ rx' = rx
  BY Around DEF SendFrame
<1>2. PICK p : p = FrameAt(e)
  OBVIOUS
<1>3. /\ p \in Payloads /\ p.type = "frame" /\ p.gen = gen[e] /\ p.seq = m.first + t.frame
      /\ tx'[Peer(e)] = tx[Peer(e)] /\ tx'[e].acked = t.acked
      /\ t.frame + 1 < m.count => tx'[e].unsent = t.unsent /\ tx'[e].frame = t.frame + 1
      /\ ~(t.frame + 1 < m.count) => tx'[e].unsent = t.unsent + 1 /\ tx'[e].frame = 0
      /\ t.unsent <= Len(Out(e)) /\ t.frame \in Nat /\ t.unsent \in Nat
      /\ t.frame < m.count
  BY <1>2, FrameSent DEF Payloads
<1>4. /\ Put(e, p) /\ UNCHANGED <<gen, reserved, delivered, fault, dropped, unsure>>
  BY <1>2 DEF SendFrame, sessionVars, relayVars
<1>5. /\ NextSeq(e) \in Nat /\ m.first + t.frame = NextSeq(e) /\ m.count \in Nat
      /\ LastSeq(Out(e), t.unsent) = LastSeq(Out(e), t.unsent - 1) + m.count
      /\ LastSeq(Out(e), t.unsent - 1) \in Nat
  BY <1>1, <1>3, NextFrameNumber
<1>6. NextSeq(e)' = LastSeq(Out(e), tx'[e].unsent - 1) + 1 + tx'[e].frame
  BY <1>4 DEF NextSeq, LastSeq, Out
<1>7. NextSeq(e) = LastSeq(Out(e), t.unsent - 1) + 1 + t.frame
  BY DEF NextSeq
<1>8. NextSeq(e)' <= p.seq + 1
  <2>1. CASE t.frame + 1 < m.count
    <3>1. tx'[e].unsent = t.unsent /\ tx'[e].frame = t.frame + 1
      BY <1>3, <2>1
    <3>2. NextSeq(e)' = LastSeq(Out(e), t.unsent - 1) + 1 + (t.frame + 1)
      BY <1>6, <3>1
    <3>3. p.seq = NextSeq(e) /\ t.frame \in Nat
      BY <1>3, <1>5
    <3> QED BY ONLY <1>5, <1>7, <3>2, <3>3
  <2>2. CASE ~(t.frame + 1 < m.count)
    <3>1. tx'[e].unsent - 1 = t.unsent /\ tx'[e].frame = 0
      BY <1>3, <2>2
    <3>2. NextSeq(e)' = LastSeq(Out(e), t.unsent) + 1 + 0
      BY <1>6, <3>1
    <3>3. m.count = t.frame + 1
      BY <1>3, <1>5, <2>2
    <3>4. p.seq = NextSeq(e) /\ t.frame \in Nat
      BY <1>3, <1>5
    <3> QED BY ONLY <1>5, <1>7, <3>2, <3>3, <3>4
  <2> QED BY <2>1, <2>2
<1> QED BY <1>1, <1>3, <1>4, <1>5, <1>8, PutGaps

LEMMA AskBridgeGaps ==
    ASSUME IInv, IInv', GapInv, AskBridge
    PROVE  GapInv'
<1>1. Typed /\ Mobile \in Ends
  BY Around, TwoEnds
<1>2. PICK p : p = [type |-> "open", gen |-> asked + 1]
  OBVIOUS
<1>3. /\ asked' = asked + 1 /\ asked < MaxGeneration /\ Put(Mobile, p)
      /\ UNCHANGED <<gen, reserved, delivered, fault, dropped, unsure>> /\ tx' = tx /\ rx' = rx
  BY <1>2 DEF AskBridge, adapterVars, relayVars
<1>4. p \in Payloads /\ p.type = "open"
  <2>1. asked + 1 \in Generations
    BY <1>1, <1>3, RelayAssumption DEF Typed, Generations
  <2> QED BY <1>2, <2>1 DEF Payloads, Controls
<1> QED BY <1>1, <1>3, <1>4, PutGaps

\* A message is numbered on from the last one, and nothing of what was numbered changes.
LEMMA ReserveGaps ==
    ASSUME IInv, IInv', GapInv, NEW e \in Ends, Reserve(e)
    PROVE  GapInv'
<1> DEFINE y == Peer(e)
<1>1. /\ y \in Ends /\ y # e /\ Peer(y) = e /\ \A x \in Ends : x = e \/ x = y
      /\ Host \in Ends /\ Mobile \in Ends
      /\ Typed /\ Contiguous /\ Pending /\ OnlyLossMakesGaps
      /\ AssemblerAt(e) /\ SmoothAt(e) /\ CoversAt(e) /\ AnsweredAt(e)
      /\ AssemblerAt(y) /\ SmoothAt(y) /\ CoversAt(y) /\ AnsweredAt(y)
  BY Around
<1>2. Live(e) /\ gen[e] # 0
  BY DEF Reserve, Live
<1>3. gen[e] \in Generations /\ Out(e) \in Seq(Messages) /\ Len(Out(e)) \in Nat
  BY <1>1, <1>2, Values
<1>4. PICK l, n, m, r, b : Reservation(e, l, n, m, r, b)
  BY Reserves
<1>5. /\ l = LastSeq(Out(e), Len(Out(e))) /\ m.first = l + 1
      /\ Len(r) = Len(Out(e)) + 1 /\ r[Len(Out(e)) + 1] = m
      /\ \A i \in 1..Len(Out(e)) : r[i] = Out(e)[i]
      /\ \A i \in 0..Len(Out(e)) : LastSeq(r, i) = LastSeq(Out(e), i)
      /\ reserved'[e][gen[e]] = r
      /\ \A x \in Ends, g \in Generations :
            x # e \/ g # gen[e] => reserved'[x][g] = reserved[x][g]
      /\ reserved'[y] = reserved[y] /\ tx'[y] = tx[y]
      /\ tx'[e].acked = tx[e].acked /\ tx'[e].unsent = tx[e].unsent /\ tx'[e].frame = tx[e].frame
      /\ gen' = gen /\ delivered' = delivered /\ rx' = rx /\ fault' = fault /\ wire' = wire
      /\ dropped' = dropped /\ unsure' = unsure
  BY <1>4 DEF Reservation
<1>6. /\ \A x \in Ends : Live(x)' = Live(x) /\ Both(x)' = Both(x) /\ In(x)' = In(x)
      /\ Out(y)' = Out(y) /\ NextSeq(y)' = NextSeq(y) /\ Out(e)' = r
  BY <1>5 DEF Live, Both, In, Out, NextSeq, LastSeq
<1>7. NextSeq(e)' = NextSeq(e)
  <2>1. NextSeq(e)' = LastSeq(r, tx[e].unsent - 1) + 1 + tx[e].frame
    BY <1>5, <1>6 DEF NextSeq, LastSeq
  <2>2. tx[e].unsent - 1 \in 0..Len(Out(e))
    <3>1. tx[e].unsent <= Len(Out(e)) + 1 /\ tx[e].unsent \in Nat \ {0}
      BY <1>1, <1>2, Locally, Values DEF LocalInv, TxStates
    <3> QED BY <1>3, <3>1
  <2>3. LastSeq(r, tx[e].unsent - 1) = LastSeq(Out(e), tx[e].unsent - 1)
    BY <1>5, <2>2
  <2> QED BY <2>1, <2>3 DEF NextSeq
<1> HIDE DEF y
<1>8. Contiguous'
  <2> SUFFICES ASSUME NEW x \in Ends, NEW g \in Generations, NEW k \in 1..Len(reserved'[x][g])
               PROVE  reserved'[x][g][k].first = LastSeq(reserved'[x][g], k - 1) + 1
    BY DEF Contiguous, LastSeq
  <2>1. CASE x # e \/ g # gen[e]
    <3>1. reserved'[x][g] = reserved[x][g]
      BY <1>5, <2>1
    <3> QED BY <1>1, <3>1 DEF Contiguous
  <2>2. CASE x = e /\ g = gen[e]
    <3>1. reserved'[x][g] = r /\ k \in 1..Len(r)
      BY <1>5, <2>2
    <3>2. k - 1 \in 0..Len(Out(e)) /\ LastSeq(r, k - 1) = LastSeq(Out(e), k - 1)
      <4>1. k - 1 \in 0..Len(Out(e))
        BY <1>3, <1>5, <3>1
      <4> QED BY <1>5, <4>1
    <3>3. CASE k \in 1..Len(Out(e))
      <4>1. Out(e)[k].first = LastSeq(Out(e), k - 1) + 1
        BY <1>1, <1>3, <3>3 DEF Contiguous, Out
      <4> QED BY <1>5, <3>1, <3>2, <3>3, <4>1
    <3>4. CASE k = Len(Out(e)) + 1
      <4>1. k - 1 = Len(Out(e)) /\ r[k] = m
        BY <1>3, <1>5, <3>4
      <4> QED BY <1>5, <3>1, <3>2, <4>1
    <3> QED BY <1>3, <1>5, <3>1, <3>3, <3>4
  <2> QED BY <2>1, <2>2
<1>9. AssemblerAt(e)'
  BY <1>1, <1>5, <1>6 DEF AssemblerAt, Linked, LastSeq, y
<1>10. AssemblerAt(y)'
  <2> SUFFICES ASSUME Live(y) PROVE Linked(reserved'[e][gen[y]], Len(In(y)), rx[y])
    BY <1>1, <1>5, <1>6 DEF AssemblerAt, Linked, LastSeq
  <2>1. Linked(reserved[e][gen[y]], Len(In(y)), rx[y])
    BY <1>1 DEF AssemblerAt
  <2>2. gen[y] \in Generations
    BY <1>1, Values DEF Live
  <2>3. CASE gen[y] # gen[e]
    BY <1>1, <1>5, <2>1, <2>2, <2>3
  <2>4. CASE gen[y] = gen[e]
    <3>1. Len(In(y)) \in Nat /\ Len(In(y)) <= Len(Out(e))
      <4>1. /\ Len(In(y)) \in Nat /\ Len(In(y)) <= Len(reserved[Peer(y)][gen[y]])
        BY <1>1, AssemblerNumber
      <4> QED BY <1>1, <2>4, <4>1 DEF Out
    <3>2. PICK i : i = Len(In(y))
      OBVIOUS
    <3>3. Linked(Out(e), i, rx[y]) /\ reserved'[e][gen[y]] = r
      BY <1>5, <2>1, <2>4, <3>2 DEF Out
    <3>4. LastSeq(r, i) = LastSeq(Out(e), i)
      BY <1>3, <1>5, <3>1, <3>2
    <3>5. i < Len(Out(e)) => i < Len(r) /\ r[i + 1] = Out(e)[i + 1]
      BY <1>3, <1>5, <3>1, <3>2
    <3> QED BY <3>2, <3>3, <3>4, <3>5 DEF Linked
  <2> QED BY <2>3, <2>4
<1>11. SmoothAt(e)' /\ CoversAt(e)'
  <2>1. Keeps(wire[e], wire'[e], gen[e], rx[e].expected, rx'[e].expected)
    BY <1>5 DEF Keeps
  <2> QED BY <1>1, <1>5, <1>6, <2>1, FlowKept DEF y
<1>12. SmoothAt(y)' /\ CoversAt(y)'
  <2>1. Keeps(wire[y], wire'[y], gen[y], rx[y].expected, rx'[y].expected)
    BY <1>5 DEF Keeps
  <2> QED BY <1>1, <1>5, <1>6, <1>7, <2>1, FlowKept
<1>13. AnsweredAt(e)'
  <2>1. PICK d : d = Len(In(e))
    OBVIOUS
  <2>2. /\ Len(In(e))' = d
        /\ d <= tx[y].acked => d <= tx'[y].acked
        /\ d <= rx[e].ackDue => d <= rx'[e].ackDue
        /\ AckUnderWay(wire[y], gen[e], d) => AckUnderWay(wire'[y], gen[e], d)
        /\ FrameUnderWay(wire[e], gen[e]) => FrameUnderWay(wire'[e], gen[e])
        /\ tx[y].unsent <= Len(Out(y)) => tx'[y].unsent <= Len(Out(y)')
    BY <1>1, <1>5, <1>6, <2>1
  <2> QED BY <1>1, <1>5, <1>6, <2>1, <2>2, AnswerKept DEF y
<1>14. AnsweredAt(y)'
  <2>1. PICK d : d = Len(In(y))
    OBVIOUS
  <2>2. tx[e].unsent <= Len(Out(e)) => tx'[e].unsent <= Len(Out(e)')
    <3>1. tx[e].unsent \in Nat
      BY <1>1, Values DEF TxStates
    <3> QED BY <1>3, <1>5, <1>6, <3>1
  <2>3. /\ Len(In(y))' = d
        /\ d <= tx[e].acked => d <= tx'[e].acked
        /\ d <= rx[y].ackDue => d <= rx'[y].ackDue
        /\ AckUnderWay(wire[e], gen[y], d) => AckUnderWay(wire'[e], gen[y], d)
        /\ FrameUnderWay(wire[y], gen[y]) => FrameUnderWay(wire'[y], gen[y])
    BY <1>1, <1>5, <1>6, <2>1
  <2> QED BY <1>1, <1>5, <1>6, <2>1, <2>2, <2>3, AnswerKept
<1>15. Pending'
  <2>1. NextSeq(Host)' = NextSeq(Host) /\ wire'[Mobile] = wire[Mobile]
    BY <1>1, <1>5, <1>6, <1>7
  <2> QED BY <1>1, <1>5, <1>6, <2>1, PendingKept
<1>16. OnlyLossMakesGaps'
  BY <1>1, <1>5, OnlyLossKept
<1> QED BY <1>8, <1>9, <1>10, <1>11, <1>12, <1>13, <1>14, <1>15, <1>16, GapsHold DEF y
-----------------------------------------------------------------------------
(* Bridges. *)

\* What a new adapter begins with, and what it leaves of the other end.
LEMMA Fresh ==
    ASSUME IInv, GapInv, NEW e \in Ends, NEW g \in Generations, gen[e] < g,
           Renewed(e, g), UNCHANGED <<reserved, delivered>>
    PROVE  /\ gen'[e] = g /\ rx'[e].expected = 1 /\ tx'[e].acked = 0 /\ dropped'[e] = FALSE
           /\ AssemblerAt(e)' /\ NextSeq(e)' = 1 /\ Len(In(e))' = 0
           /\ Len(reserved[e][g]) = 0 /\ Len(delivered[Peer(e)][g]) = 0
           /\ gen'[Peer(e)] = gen[Peer(e)] /\ Live(Peer(e))' = Live(Peer(e))
           /\ rx'[Peer(e)] = rx[Peer(e)] /\ tx'[Peer(e)] = tx[Peer(e)]
           /\ dropped'[Peer(e)] = dropped[Peer(e)]
           /\ AssemblerAt(Peer(e))' /\ NextSeq(Peer(e))' = NextSeq(Peer(e))
           /\ OnlyLossMakesGaps'
<1> DEFINE y == Peer(e)
<1>1. /\ y \in Ends /\ y # e /\ Peer(y) = e /\ \A x \in Ends : x = e \/ x = y
      /\ Typed /\ Generational /\ DeliveredIsSentPrefix /\ OnlyLossMakesGaps /\ AssemblerAt(y)
  BY Around DEF IInv, CoreInv
<1>2. /\ gen'[e] = g /\ gen'[y] = gen[y]
      /\ tx'[e] = FreshTx /\ tx'[y] = tx[y] /\ rx'[e] = FreshRx /\ rx'[y] = rx[y]
      /\ fault'[e] = "none" /\ fault'[y] = fault[y]
      /\ dropped'[e] = FALSE /\ dropped'[y] = dropped[y]
      /\ reserved' = reserved /\ delivered' = delivered
  BY <1>1 DEF Renewed, Typed
<1>3. /\ FreshTx.acked = 0 /\ FreshTx.unsent = 1 /\ FreshTx.frame = 0
      /\ FreshRx.expected = 1 /\ FreshRx.staged = 0
  BY DEF FreshTx, FreshRx
<1>4. g > gen[e]
  BY <1>1, RelayAssumption DEF Typed, Generations
<1>5. Len(reserved[e][g]) = 0 /\ Len(delivered[e][g]) = 0
  BY <1>1, <1>4, EmptySeq DEF Generational
<1>6. Len(delivered[y][g]) = 0
  <2>1. Len(delivered[y][g]) <= Len(reserved[e][g]) /\ Len(delivered[y][g]) \in Nat
    <3>1. delivered[y][g] \in Seq(Messages)
      BY <1>1 DEF Typed
    <3> QED BY <1>1, <3>1, LenProperties DEF DeliveredIsSentPrefix
  <2> QED BY <1>5, <2>1
<1>7. Live(y)' = Live(y) /\ In(e)' = delivered[e][g] /\ In(y)' = In(y)
  BY <1>2 DEF Live, In
<1>8. AssemblerAt(e)'
  <2>1. Linked(reserved[y][g], 0, FreshRx)
    BY <1>3 DEF Linked, LastSeq
  <2> QED BY <1>2, <1>5, <1>7, <2>1 DEF AssemblerAt, Linked, LastSeq, y
<1>9. AssemblerAt(y)'
  BY <1>1, <1>2, <1>7 DEF AssemblerAt, Linked, LastSeq
<1>10. NextSeq(e)' = 1 /\ NextSeq(y)' = NextSeq(y)
  BY <1>2, <1>3 DEF NextSeq, LastSeq, Out
<1>11. OnlyLossMakesGaps'
  <2>1. \A x \in Ends : \/ fault'[x] = fault[x] /\ (dropped[x] => dropped'[x])
                        \/ fault'[x] = "none"
    BY <1>1, <1>2
  <2>2. "none" \notin {"futureAck", "messageGap", "metadataMismatch",
                       "physicalGap", "fragmentGap"}
    OBVIOUS
  <2> QED BY <1>1, <2>1, <2>2, OnlyLossKept
<1> QED BY <1>2, <1>3, <1>5, <1>6, <1>7, <1>8, <1>9, <1>10, <1>11

\* Of a generation that has not begun at its sender nothing travels.
LEMMA NothingYet ==
    ASSUME IInv, NEW x \in Ends, NEW g \in Generations, gen[Peer(x)] < g,
           NEW k \in 1..Len(wire[x])
    PROVE  ~FrameOf(wire[x][k], g)
<1>1. Typed /\ WireGood /\ Peer(x) \in Ends
  BY Locally, TwoEnds DEF CoreInv
<1>2. wire[x][k] \in Good(x)
  <2>1. wire[x] \in Seq(Good(x))
    BY <1>1 DEF WireGood
  <2> QED BY <2>1, ElementOfSeq
<1> SUFFICES ASSUME wire[x][k].type = "frame", wire[x][k].gen = g PROVE FALSE
  BY DEF FrameOf
<1>3. g <= gen[Peer(x)]
  BY <1>2 DEF Good, GoodFrame
<1>4. gen[Peer(x)] \in Nat /\ g \in Nat
  BY <1>1, RelayAssumption DEF Typed, Generations
<1> QED BY <1>3, <1>4

\* The desktop announces a bridge: nothing of it travels yet.
LEMMA BridgeAttachedGaps ==
    ASSUME IInv, IInv', GapInv, BridgeAttached
    PROVE  GapInv'
<1> DEFINE w == wire[Mobile]
<1>1. /\ Host \in Ends /\ Mobile \in Ends /\ Peer(Host) = Mobile /\ Peer(Mobile) = Host
      /\ Host # Mobile /\ Typed /\ WireGood /\ Announcing /\ Generational
  BY Locally, TwoEnds DEF CoreInv
<1>2. /\ Contiguous /\ Pending /\ w \in Seq(Payloads) /\ rx[Mobile].expected \in Nat
      /\ SmoothAt(Mobile) /\ wire \in [Ends -> Seq(Payloads)]
  BY <1>1, Around
<1>3. PICK g : g = attaching
  OBVIOUS
<1>4. PICK p : p = [type |-> "opened", gen |-> g]
  OBVIOUS
<1>5. /\ g # 0 /\ Renewed(Host, g) /\ UNCHANGED <<asked, reserved, delivered>>
      /\ wire' = wire \/ Put(Host, p)
  BY <1>3, <1>4 DEF BridgeAttached
<1>6. /\ g \in Generations /\ gen[Host] < g /\ gen[Mobile] <= gen[Host]
      /\ gen[Host] \in Nat /\ gen[Mobile] \in Nat /\ g \in Nat
  <2>1. g \in Generations /\ g \in Nat
    <3>1. g \in 0..MaxGeneration /\ MaxGeneration \in Nat
      BY <1>1, <1>3, RelayAssumption DEF Typed
    <3> QED BY <1>5, <3>1 DEF Generations
  <2>2. gen[Host] < g /\ gen[Mobile] <= gen[Host]
    BY <1>1, <1>3, <1>5 DEF Announcing, Generational
  <2>3. gen[Host] \in Nat /\ gen[Mobile] \in Nat
    BY <1>1, RelayAssumption DEF Typed
  <2> QED BY <2>1, <2>2, <2>3
<1>7. /\ gen'[Host] = g /\ rx'[Host].expected = 1
      /\ AssemblerAt(Host)' /\ NextSeq(Host)' = 1
      /\ gen'[Mobile] = gen[Mobile] /\ Live(Mobile)' = Live(Mobile) /\ rx'[Mobile] = rx[Mobile]
      /\ dropped'[Mobile] = dropped[Mobile] /\ AssemblerAt(Mobile)' /\ OnlyLossMakesGaps'
  BY <1>1, <1>5, <1>6, Fresh
<1>8. p \in Payloads /\ p.type = "opened" /\ p.gen = g
  BY <1>4, <1>6 DEF Payloads, Controls
<1>9. /\ wire'[Host] = wire[Host]
      /\ wire'[Mobile] = w \/ wire'[Mobile] = Append(w, p)
  BY <1>1, <1>2, <1>5 DEF Put
<1>10. ~Both(Host)' /\ ~Both(Mobile)'
  BY <1>1, <1>6, <1>7 DEF Both
<1>11. CoversAt(Host)' /\ AnsweredAt(Host)' /\ CoversAt(Mobile)' /\ AnsweredAt(Mobile)'
  BY <1>10 DEF CoversAt, AnsweredAt
<1>12. SmoothAt(Host)'
  <2>1. gen[Peer(Host)] < g
    BY <1>1, <1>6
  <2>2. \A k \in 1..Len(wire[Host]) : ~FrameOf(wire[Host][k], g)
    BY <1>1, <1>6, <2>1, NothingYet
  <2> QED BY <1>7, <1>9, <2>2 DEF SmoothAt, Smooth, FrameOf
<1> HIDE DEF w
<1>13. \A h, n : n \in Nat /\ Smooth(w, h, n) => Smooth(Append(w, p), h, n)
  <2> SUFFICES ASSUME NEW h, NEW n \in Nat, Smooth(w, h, n) PROVE Smooth(Append(w, p), h, n)
    OBVIOUS
  <2>1. ~FrameOf(p, h)
    BY <1>8 DEF FrameOf
  <2> QED BY <1>2, <1>8, <2>1, AfterPutting
<1>14. SmoothAt(Mobile)'
  <2> SUFFICES ASSUME Live(Mobile), ~dropped[Mobile]
               PROVE  Smooth(wire'[Mobile], gen[Mobile], rx[Mobile].expected)
    BY <1>7 DEF SmoothAt, Smooth, FrameOf
  <2>1. Smooth(w, gen[Mobile], rx[Mobile].expected)
    BY <1>2 DEF SmoothAt, w
  <2> QED BY <1>2, <1>9, <1>13, <2>1
<1>15. Pending'
  <2> SUFFICES ASSUME NEW c \in Nat, NEW h \in Generations, Opened(wire'[Mobile], c, h)
               PROVE  /\ Clear(wire'[Mobile], c, h)
                      /\ Covers(wire'[Mobile], h, 1, NextSeq(Host)')
    BY Zenon DEF Pending
  <2>1. Covers(wire'[Mobile], h, 1, NextSeq(Host)')
    BY <1>7 DEF Covers
  <2>2. Len(w) \in Nat /\ Len(Append(w, p)) = Len(w) + 1 /\ Append(w, p)[Len(w) + 1] = p
        /\ \A i \in 1..Len(w) : Append(w, p)[i] = w[i]
    BY <1>2, <1>8, Appended
  <2>3. CASE Opened(w, c, h)
    <3>1. Clear(w, c, h) /\ c \in 1..Len(w)
      BY <1>2, <2>3 DEF Pending, Opened, w
    <3>2. CASE wire'[Mobile] = w
      BY <2>1, <3>1, <3>2
    <3>3. CASE wire'[Mobile] = Append(w, p)
      <4>1. Smooth(Append(w, p), h, 1)
        <5>1. 1 \in Nat
          OBVIOUS
        <5> QED BY <1>13, <3>1, <5>1 DEF Clear
      <4>2. ASSUME NEW k \in 1..Len(Append(w, p)), FrameOf(Append(w, p)[k], h) PROVE k > c
        <5>1. k # Len(w) + 1
          BY <1>8, <2>2, <4>2 DEF FrameOf
        <5>2. k \in 1..Len(w) /\ FrameOf(w[k], h)
          BY <2>2, <4>2, <5>1
        <5> QED BY <3>1, <5>2 DEF Clear
      <4> QED BY <2>1, <3>3, <4>1, <4>2 DEF Clear
    <3> QED BY <1>9, <3>2, <3>3
  <2>4. CASE ~Opened(w, c, h)
    <3>1. wire'[Mobile] = Append(w, p)
      BY <1>9, <2>4
    <3>2. c = Len(w) + 1 /\ h = g
      <4>1. c \notin 1..Len(w)
        BY <2>2, <2>4, <3>1 DEF Opened
      <4>2. c = Len(w) + 1
        BY <2>2, <3>1, <4>1 DEF Opened
      <4> QED BY <1>8, <2>2, <3>1, <4>2 DEF Opened
    <3>3. \A k \in 1..Len(w) : ~FrameOf(w[k], g)
      BY <1>1, <1>6, NothingYet DEF w
    <3>4. ASSUME NEW k \in 1..Len(Append(w, p)) PROVE ~FrameOf(Append(w, p)[k], g)
      <4>1. CASE k = Len(w) + 1
        BY <1>8, <2>2, <4>1 DEF FrameOf
      <4>2. CASE k # Len(w) + 1
        BY <2>2, <3>3, <4>2
      <4> QED BY <4>1, <4>2
    <3> QED BY <2>1, <3>1, <3>2, <3>4 DEF Clear, Smooth
  <2> QED BY <2>3, <2>4
<1>16. Contiguous'
  BY <1>2, <1>5, NumbersKept
<1> QED BY <1>1, <1>7, <1>11, <1>12, <1>14, <1>15, <1>16, GapsHold

\* The phone opens a bridge: every frame of it that travels follows the announcement just
\* taken.
LEMMA BridgeOpenedGaps ==
    ASSUME IInv, IInv', GapInv, BridgeOpened
    PROVE  GapInv'
<1> DEFINE w == wire[Mobile]
           g == Head(wire[Mobile]).gen
<1>1. /\ Host \in Ends /\ Mobile \in Ends /\ Peer(Host) = Mobile /\ Peer(Mobile) = Host
      /\ Host # Mobile /\ Typed /\ WireGood
  BY Locally, TwoEnds DEF CoreInv
<1>2. /\ Contiguous /\ Pending /\ w \in Seq(Payloads) /\ OnlyLossMakesGaps
      /\ SmoothAt(Host) /\ wire \in [Ends -> Seq(Payloads)] /\ rx[Host] \in RxStates
  BY <1>1, Around
<1>3. /\ w # <<>> /\ Head(w).type = "opened" /\ Taken(Mobile)
      /\ UNCHANGED <<asked, reserved, delivered, ready, matches, losses>>
  BY DEF BridgeOpened, Arrives
<1>4. g \in Generations /\ gen[Mobile] < g /\ g <= gen[Host] /\ gen[Host] <= asked
  BY <1>1, <1>3, ControlTaken, Locally DEF GoodControl, CoreInv, Generational, IsControl
<1>5. wire'[Mobile] = Tail(w) /\ wire'[Host] = wire[Host]
  BY <1>1, <1>2, <1>3 DEF Taken
<1>10. Renewed(Mobile, g) /\ unsure' = [unsure EXCEPT ![Mobile] = FALSE]
  BY DEF BridgeOpened
<1> HIDE DEF g, w
<1>13. /\ gen'[Mobile] = g /\ rx'[Mobile].expected = 1 /\ tx'[Mobile].acked = 0
       /\ AssemblerAt(Mobile)' /\ NextSeq(Mobile)' = 1 /\ Len(In(Mobile))' = 0
       /\ Len(delivered[Host][g]) = 0
       /\ gen'[Host] = gen[Host] /\ Live(Host)' = Live(Host)
       /\ rx'[Host] = rx[Host] /\ dropped'[Host] = dropped[Host]
       /\ AssemblerAt(Host)' /\ NextSeq(Host)' = NextSeq(Host) /\ OnlyLossMakesGaps'
  <2>1. /\ Mobile \in Ends /\ g \in Generations /\ gen[Mobile] < g
        /\ Renewed(Mobile, g) /\ UNCHANGED <<reserved, delivered>> /\ Peer(Mobile) = Host
    BY <1>1, <1>3, <1>4, <1>10
  <2>2. PICK h : h = g
    OBVIOUS
  <2>3. /\ gen'[Mobile] = h /\ rx'[Mobile].expected = 1 /\ tx'[Mobile].acked = 0
        /\ AssemblerAt(Mobile)' /\ NextSeq(Mobile)' = 1 /\ Len(In(Mobile))' = 0
        /\ Len(delivered[Host][h]) = 0
        /\ gen'[Host] = gen[Host] /\ Live(Host)' = Live(Host)
        /\ rx'[Host] = rx[Host] /\ dropped'[Host] = dropped[Host]
        /\ AssemblerAt(Host)' /\ NextSeq(Host)' = NextSeq(Host) /\ OnlyLossMakesGaps'
    BY <2>1, <2>2, Fresh
  <2> QED BY <2>2, <2>3
<1>14. Opened(w, 1, g) /\ Head(w) = w[1] /\ Len(w) \in Nat
  BY <1>2, <1>3, HeadAndTail DEF Opened, g, w
<1>15. /\ Clear(w, 1, g)
       /\ gen[Host] = g /\ Live(Host) => Covers(w, g, 1, NextSeq(Host))
  <2>1. 1 \in Nat
    OBVIOUS
  <2> QED BY <1>2, <1>4, <1>14, <2>1 DEF Pending, w
<1>16. /\ Smooth(Tail(w), g, 1)
       /\ \A q \in Nat : Covers(w, g, 1, q) => Covers(Tail(w), g, 1, q)
  <2>1. ~FrameOf(Head(w), g)
    BY <1>3 DEF FrameOf
  <2>2. 1 \in Nat /\ 1 <= 1 /\ Smooth(w, g, 1)
    BY <1>15 DEF Clear
  <2> QED BY <1>2, <1>3, <2>1, <2>2, AfterTaking
<1>17. SmoothAt(Mobile)'
  BY <1>5, <1>13, <1>16 DEF SmoothAt
<1>18. CoversAt(Mobile)'
  <2> SUFFICES ASSUME Live(Host), gen[Host] = g
               PROVE  Covers(Tail(w), g, 1, NextSeq(Host))
    BY <1>1, <1>5, <1>13 DEF CoversAt, Both
  <2>1. NextSeq(Host) \in Nat
    BY <1>1, <1>2, NextFrameTyped
  <2> QED BY <1>15, <1>16, <2>1
<1>19. AnsweredAt(Mobile)'
  <2>1. Len(In(Mobile))' <= tx'[Host].acked
    <3>1. tx'[Host].acked \in Nat
      BY <1>1 DEF IInv, CoreInv, Typed, TxStates
    <3> QED BY <1>13, <3>1
  <2> QED BY <1>1, <2>1 DEF AnsweredAt
<1>20. SmoothAt(Host)'
  BY <1>2, <1>5, <1>13 DEF SmoothAt, Smooth, FrameOf
<1>21. CoversAt(Host)'
  <2>1. 1 <= rx[Host].expected
    BY <1>2 DEF RxStates
  <2> QED BY <1>1, <1>13, <2>1 DEF CoversAt, Covers
<1>22. AnsweredAt(Host)'
  <2> SUFFICES ASSUME Both(Host)' PROVE Len(In(Host))' <= tx'[Mobile].acked
    BY <1>1 DEF AnsweredAt
  <2>1. gen[Host] = g
    BY <1>1, <1>13 DEF Both
  <2>2. Len(In(Host))' = 0
    BY <1>3, <1>13, <2>1 DEF In
  <2> QED BY <1>13, <2>2
<1>23. Pending'
  BY <1>2, <1>3, <1>5, <1>13, PendingKept DEF w
<1>24. Contiguous'
  BY <1>2, <1>3, NumbersKept
<1> QED BY <1>1, <1>13, <1>17, <1>18, <1>19, <1>20, <1>21, <1>22, <1>23, <1>24, GapsHold

\* The desktop disposes of its bridge; no payload of the bridge asked for is meant for it.
LEMMA OpenBridgeGaps ==
    ASSUME IInv, IInv', GapInv, OpenBridge
    PROVE  GapInv'
<1>1. /\ Typed /\ OnlyLossMakesGaps /\ Host \in Ends /\ Peer(Host) \in Ends /\ Peer(Host) # Host
      /\ \A x \in Ends : x = Host \/ x = Peer(Host)
  BY TwoEnds, Around
<1>2. /\ wire[Host] # <<>> /\ Taken(Host) /\ Degrade(Host, "disposed")
      /\ UNCHANGED <<sessionVars, dropped, unsure>>
  BY DEF OpenBridge, Arrives
<1>3. /\ fault'[Host] = "disposed" /\ fault'[Peer(Host)] = fault[Peer(Host)]
      /\ tx'[Peer(Host)] = tx[Peer(Host)] /\ rx'[Peer(Host)] = rx[Peer(Host)]
  BY <1>1, <1>2 DEF Degrade, Typed
<1>4. GoesOn(Host) /\ GoesOn(Peer(Host)) /\ ~Live(Host)'
  BY <1>2, <1>3 DEF GoesOn, Live, sessionVars
<1>5. OnlyLossMakesGaps'
  <2>1. ASSUME NEW x \in Ends
        PROVE  \/ fault'[x] = fault[x] /\ (dropped[x] => dropped'[x])
               \/ fault'[x] \notin {"futureAck", "messageGap", "metadataMismatch",
                                    "physicalGap", "fragmentGap"}
    BY <1>1, <1>2, <1>3
  <2> QED BY <1>1, <2>1, OnlyLossKept
<1> QED BY <1>1, <1>2, <1>4, <1>5, TakenGaps

LEMMA AsideGaps ==
    ASSUME IInv, IInv', GapInv, OpenRefused \/ AttachFails \/ BufferExpires \/ OpenedLate
    PROVE  GapInv'
<1>1. Host \in Ends /\ Mobile \in Ends /\ Peer(Host) \in Ends /\ Peer(Mobile) \in Ends
  BY TwoEnds
<1>2. UNCHANGED <<sessionVars, tx, rx, fault, dropped, unsure>>
  BY DEF OpenRefused, AttachFails, BufferExpires, OpenedLate, adapterVars, relayVars
<1>3. \A x \in Ends : GoesOn(x)
  BY <1>2 DEF GoesOn, Live, sessionVars
<1>4. OnlyLossMakesGaps'
  BY <1>2, OnlyLossKept DEF GapInv
<1>5. CASE OpenRefused
  <2>1. /\ wire[Host] # <<>> /\ Taken(Host)
        /\ Head(wire[Host]).type \notin {"frame", "ack"}
    BY <1>5 DEF OpenRefused, Arrives
  <2> QED BY <1>1, <1>2, <1>3, <1>4, <2>1, TakenGaps
<1>6. CASE OpenedLate
  <2>1. /\ wire[Mobile] # <<>> /\ Taken(Mobile)
        /\ Head(wire[Mobile]).type \notin {"frame", "ack"}
    BY <1>6 DEF OpenedLate, Arrives
  <2> QED BY <1>1, <1>2, <1>3, <1>4, <2>1, TakenGaps
<1>7. CASE AttachFails \/ BufferExpires
  <2>1. wire' = wire
    BY <1>7 DEF AttachFails, BufferExpires
  <2> QED BY <1>1, <1>2, <1>3, <1>4, <2>1, TakenGaps
<1> QED BY <1>5, <1>6, <1>7

-----------------------------------------------------------------------------
(* No frame of a bridge travels before its announcement: the announcement  *)
(* waits only while the transport takes nothing.                           *)

LEMMA UnheardKept ==
    ASSUME Unheard, buffered' = buffered,
           \A i \in 1..Len(wire'[Mobile]) : wire'[Mobile][i].type = "frame" =>
              \E k \in 1..Len(wire[Mobile]) : wire[Mobile][k] = wire'[Mobile][i]
    PROVE  Unheard'
BY DEF Unheard, FrameOf

LEMMA UnheardAfterTaking ==
    ASSUME IInv, Unheard, buffered' = buffered,
           wire' = wire \/ \E e \in Ends : wire[e] # <<>> /\ Taken(e)
    PROVE  Unheard'
<1>1. WireGood /\ Mobile \in Ends
  BY Locally, TwoEnds DEF CoreInv
<1>2. CASE wire' = wire
  BY <1>2 DEF Unheard, FrameOf
<1>3. ASSUME NEW e \in Ends, wire[e] # <<>>, Taken(e) PROVE Unheard'
  <2>1. CASE e # Mobile
    <3>1. wire'[Mobile] = wire[Mobile]
      BY <1>1, <1>3, <2>1 DEF Taken, WireGood
    <3> QED BY <3>1 DEF Unheard, FrameOf
  <2>2. CASE e = Mobile
    <3>1. /\ Len(wire[e]) \in Nat /\ Len(Tail(wire[e])) = Len(wire[e]) - 1
          /\ \A i \in 1..Len(Tail(wire[e])) : Tail(wire[e])[i] = wire[e][i + 1]
          /\ wire'[e] = Tail(wire[e])
      BY <1>1, <1>3, HeadAndTail DEF WireGood, Taken
    <3>2. ASSUME NEW i \in 1..Len(Tail(wire[e]))
          PROVE  \E k \in 1..Len(wire[e]) : wire[e][k] = Tail(wire[e])[i]
      <4>1. i + 1 \in 1..Len(wire[e])
        BY <3>1
      <4> QED BY <3>1, <4>1
    <3> QED BY <2>2, <3>1, <3>2, UnheardKept
  <2> QED BY <2>1, <2>2
<1> QED BY <1>2, <1>3

LEMMA NothingWaits ==
    ASSUME buffered' = <<>>
    PROVE  Unheard'
BY EmptySeq DEF Unheard

LEMMA NothingAtFirst == Init => Unheard
BY EmptySeq DEF Init, Unheard

LEMMA UnheardAfterPutting ==
    ASSUME IInv, Unheard, buffered' = buffered, NEW e \in Ends, ready[e], NEW p, Put(e, p)
    PROVE  Unheard'
<1>1. WireGood /\ Announcing /\ Mobile \in Ends /\ Host \in Ends
      /\ Host # Mobile /\ Peer(Mobile) = Host
  BY Locally, TwoEnds DEF CoreInv
<1>2. CASE e = Host
  <2>1. buffered = <<>>
    BY <1>1, <1>2 DEF Announcing
  <2> QED BY <2>1, NothingWaits
<1>3. CASE e = Mobile
  <2>1. wire'[Mobile] = wire[Mobile]
    BY <1>1, <1>3 DEF Put, WireGood
  <2> QED BY <2>1 DEF Unheard, FrameOf
<1> QED BY <1>2, <1>3 DEF Ends

LEMMA UnheardAttached ==
    ASSUME IInv, Unheard, BridgeAttached
    PROVE  Unheard'
<1>1. /\ Typed /\ WireGood /\ Announcing /\ Mobile \in Ends /\ Host \in Ends
      /\ Peer(Mobile) = Host
  BY Locally, TwoEnds DEF CoreInv
<1>2. CASE ready[Host]
  <2>1. buffered = <<>> /\ buffered' = buffered
    BY <1>1, <1>2 DEF Announcing, BridgeAttached
  <2> QED BY <2>1, NothingWaits
<1>3. CASE ~ready[Host]
  <2>1. PICK g, p : g = attaching /\ p = [type |-> "opened", gen |-> g]
    OBVIOUS
  <2>2. g # 0 /\ wire' = wire /\ buffered' = Append(buffered, p)
    BY <1>3, <2>1 DEF BridgeAttached
  <2>3. g \in Generations /\ gen[Host] < g
    <3>1. g \in 0..MaxGeneration /\ MaxGeneration \in Nat
      BY <1>1, <2>1, RelayAssumption DEF Typed
    <3> QED BY <1>1, <2>1, <2>2, <3>1 DEF Generations, Announcing
  <2>4. p \in Controls /\ p.gen = g
    BY <2>1, <2>3 DEF Controls
  <2>5. PICK b, c : b = buffered /\ c = buffered'
    OBVIOUS
  <2>6. /\ Len(c) = Len(b) + 1 /\ Len(b) \in Nat /\ c[Len(b) + 1] = p
        /\ \A i \in 1..Len(b) : c[i] = b[i]
    BY <1>1, <2>2, <2>4, <2>5, Appended DEF Typed
  <2>7. ASSUME NEW j \in 1..Len(c), NEW k \in 1..Len(wire[Mobile])
        PROVE  ~FrameOf(wire[Mobile][k], c[j].gen)
    <3>1. CASE j = Len(b) + 1
      <4>1. c[j].gen = g /\ gen[Peer(Mobile)] < g
        BY <1>1, <2>3, <2>4, <2>6, <3>1
      <4> QED BY <1>1, <2>3, <4>1, NothingYet
    <3>2. CASE j # Len(b) + 1
      <4>1. j \in 1..Len(b) /\ c[j] = b[j]
        BY <2>6, <3>2
      <4> QED BY <2>5, <4>1 DEF Unheard
    <3> QED BY <3>1, <3>2
  <2> QED BY <2>2, <2>5, <2>7 DEF Unheard, FrameOf
<1> QED BY <1>2, <1>3

LEMMA NextUnheard == IInv /\ Unheard /\ [Next]_vars => Unheard'
<1> SUFFICES ASSUME IInv, Unheard, [Next]_vars PROVE Unheard'
  OBVIOUS
<1>1. ASSUME NEW e \in Ends, Step(e) PROVE Unheard'
  <2>1. CASE \/ Reserve(e) \/ ReserveOverflows(e) \/ FlushEnds(e)
             \/ GraceExpires(e) \/ AssemblyExpires(e)
    <3>1. UNCHANGED linkVars
      BY <2>1 DEF Reserve, ReserveOverflows, FlushEnds, GraceExpires, AssemblyExpires
    <3>2. wire' = wire /\ buffered' = buffered
      BY <3>1 DEF linkVars, relayVars
    <3> QED BY <3>2, UnheardAfterTaking
  <2>2. CASE \/ Ignore(e) \/ AckArrives(e) \/ DuplicateArrives(e) \/ FaultArrives(e)
             \/ FragmentArrives(e) \/ MessageArrives(e) \/ DeliveryFails(e)
    <3>1. wire[e] # <<>> /\ Taken(e) /\ UNCHANGED relayVars
      BY <2>2 DEF Ignore, AckArrives, DuplicateArrives, FaultArrives, FragmentArrives,
                  MessageArrives, DeliveryFails, NextFrame, ForMe, Arrives
    <3>2. buffered' = buffered
      BY <3>1 DEF relayVars
    <3> QED BY <3>1, <3>2, UnheardAfterTaking
  <2>3. CASE Disconnect(e) \/ Lose(e)
    <3>1. buffered' = buffered /\ (wire' = wire \/ (wire[e] # <<>> /\ Taken(e)))
      BY <2>3 DEF Disconnect, Lose
    <3> QED BY <3>1, UnheardAfterTaking
  <2>4. CASE SendAck(e) \/ SendFrame(e)
    <3>1. PICK p : Put(e, p) /\ ready[e] /\ UNCHANGED relayVars
      BY <2>4 DEF SendAck, SendFrame
    <3>2. buffered' = buffered
      BY <3>1 DEF relayVars
    <3> QED BY <3>1, <3>2, UnheardAfterPutting
  <2>5. CASE SendReady(e)
    <3>1. buffered' = <<>> \/ (wire' = wire /\ buffered' = buffered)
      BY <2>5 DEF SendReady, FlushBuffered
    <3> QED BY <3>1, NothingWaits, UnheardAfterTaking
  <2> QED BY <1>1, <2>1, <2>2, <2>3, <2>4, <2>5 DEF Step
<1>2. CASE AskBridge
  <2>1. PICK p : Put(Mobile, p) /\ ready[Mobile] /\ UNCHANGED relayVars
    BY <1>2 DEF AskBridge
  <2>2. buffered' = buffered /\ Mobile \in Ends
    BY <2>1, TwoEnds DEF relayVars
  <2> QED BY <2>1, <2>2, UnheardAfterPutting
<1>3. CASE OpenBridge \/ OpenRefused \/ BridgeOpened \/ OpenedLate
  <2>1. buffered' = buffered /\ \E e \in Ends : wire[e] # <<>> /\ Taken(e)
    BY <1>3, TwoEnds DEF OpenBridge, OpenRefused, BridgeOpened, OpenedLate, Arrives, relayVars
  <2> QED BY <2>1, UnheardAfterTaking
<1>4. CASE BridgeAttached
  BY <1>4, UnheardAttached
<1>5. CASE AttachFails
  BY <1>5, UnheardAfterTaking DEF AttachFails
<1>6. CASE BufferExpires
  BY <1>6, NothingWaits DEF BufferExpires
<1>7. CASE UNCHANGED vars
  BY <1>7, UnheardAfterTaking DEF vars, linkVars, relayVars
<1> QED BY <1>1, <1>2, <1>3, <1>4, <1>5, <1>6, <1>7 DEF Next

-----------------------------------------------------------------------------
(* The invariant of gaps, and what follows from it. *)

LEMMA InitGaps == Init => GapInv
<1> SUFFICES ASSUME Init PROVE GapInv
  OBVIOUS
<1>1. Host \in Ends /\ Mobile \in Ends
  BY TwoEnds
<1>2. \A x \in Ends : ~Live(x) /\ fault[x] = "none"
  BY DEF Init, Live
<1>3. \A x \in Ends : LinkAt(x)
  BY <1>2 DEF LinkAt, AssemblerAt, SmoothAt, CoversAt, AnsweredAt, Both
<1>4. Contiguous
  BY EmptySeq DEF Init, Contiguous
<1>5. Pending
  <2>1. Len(wire[Mobile]) = 0
    BY <1>1 DEF Init
  <2> QED BY <2>1 DEF Pending, Opened
<1>6. OnlyLossMakesGaps
  BY <1>2 DEF OnlyLossMakesGaps
<1> QED BY <1>3, <1>4, <1>5, <1>6 DEF GapInv

LEMMA NextGaps == IInv /\ IInv' /\ Unheard /\ GapInv /\ [Next]_vars => GapInv'
<1> SUFFICES ASSUME IInv, IInv', Unheard, GapInv, [Next]_vars PROVE GapInv'
  OBVIOUS
<1>1. CASE UNCHANGED vars
  BY <1>1, TwoEnds, StillGaps
<1>2. ASSUME NEW e \in Ends, Step(e) PROVE GapInv'
  <2>1. CASE Reserve(e)
    BY <2>1, ReserveGaps
  <2>2. CASE \/ ReserveOverflows(e) \/ GraceExpires(e) \/ AssemblyExpires(e)
             \/ FlushEnds(e) \/ Disconnect(e) \/ Ignore(e)
    BY <2>2, StillGaps
  <2>3. CASE SendAck(e)
    BY <2>3, SendAckGaps
  <2>4. CASE SendFrame(e)
    BY <2>4, SendFrameGaps
  <2>5. CASE AckArrives(e)
    BY <2>5, AckGaps
  <2>6. CASE DuplicateArrives(e)
    BY <2>6, DuplicateGaps
  <2>7. CASE FaultArrives(e) \/ DeliveryFails(e)
    BY <2>7, FaultGaps
  <2>8. CASE FragmentArrives(e)
    BY <2>8, FragmentGaps
  <2>9. CASE MessageArrives(e)
    BY <2>9, MessageGaps
  <2>10. CASE SendReady(e)
    BY <2>10, ReadyGaps
  <2>11. CASE Lose(e)
    BY <2>11, LoseGaps
  <2> QED BY <1>2, <2>1, <2>2, <2>3, <2>4, <2>5, <2>6, <2>7, <2>8, <2>9, <2>10, <2>11 DEF Step
<1>3. CASE AskBridge
  BY <1>3, AskBridgeGaps
<1>4. CASE OpenBridge
  BY <1>4, OpenBridgeGaps
<1>5. CASE BridgeAttached
  BY <1>5, BridgeAttachedGaps
<1>6. CASE OpenRefused \/ AttachFails \/ BufferExpires \/ OpenedLate
  BY <1>6, AsideGaps
<1>7. CASE BridgeOpened
  BY <1>7, BridgeOpenedGaps
<1> QED BY <1>1, <1>2, <1>3, <1>4, <1>5, <1>6, <1>7 DEF Next

LEMMA GapInvariance == Spec => []GapInv
<1>1. IInv /\ [Next]_vars => IInv'
  BY NextInv
<1>2. Init => Unheard
  BY NothingAtFirst
<1> QED BY <1>1, <1>2, InitInv, InitGaps, NextUnheard, NextGaps, Invariance, PTL DEF Spec

\* When nothing travels, is due or remains to be sent, an announcement or an acknowledgement
\* has seen to it that the other end was given everything and said so.
LEMMA QuietIsDone == IInv /\ GapInv => QuiescentIsComplete
<1> SUFFICES ASSUME IInv, GapInv, NEW e \in Ends,
                    gen[Host] = gen[Mobile], Live(Host), Live(Mobile),
                    \A x \in Ends : wire[x] = <<>> /\ ~flushing[x] /\ ready[x],
                    ~unsure[e]
             PROVE  tx[e].acked = Len(Out(e))
  BY DEF QuiescentIsComplete
<1> DEFINE y == Peer(e)
           n == Len(In(y))
           s == Out(e)
<1>1. /\ y \in Ends /\ y # e /\ Peer(y) = e /\ Typed /\ Contiguous
      /\ AssemblerAt(y) /\ CoversAt(y) /\ AnsweredAt(y)
  BY Around
<1>2. /\ Live(e) /\ Live(y) /\ gen[y] = gen[e] /\ gen[e] # 0 /\ gen[e] \in Generations
      /\ reserved[e][gen[y]] = s /\ Both(y)
  <2>1. Live(e) /\ Live(y) /\ gen[y] = gen[e]
    BY <1>1, TwoEnds DEF Ends
  <2> QED BY <1>1, <2>1, Values DEF Live, Both, Out
<1>3. wire[y] = <<>> /\ wire[e] = <<>> /\ rx[y].ackDue = 0 /\ tx[e].unsent > Len(s)
  BY <1>1, <1>2 DEF IInv, NothingStuck
<1>4. /\ s \in Seq(Messages) /\ Len(s) \in Nat /\ n \in Nat /\ n <= Len(s)
      /\ rx[y].expected \in Nat
      /\ n < Len(s) => rx[y].expected <= LastSeq(s, n + 1)
  BY <1>1, <1>2, AssemblerNumber
<1>5. NextSeq(e) = LastSeq(s, Len(s)) + 1
  BY <1>1, <1>2, <1>3, NextFrameNumber
<1>6. NextSeq(e) <= rx[y].expected
  <2>1. Covers(wire[y], gen[y], rx[y].expected, NextSeq(e))
    BY <1>1, <1>2 DEF CoversAt
  <2> QED BY <1>3, <2>1 DEF Covers
<1>7. n = Len(s)
  <2> SUFFICES ASSUME n < Len(s) PROVE FALSE
    BY <1>4
  <2>1. Numbered
    BY DEF IInv, CoreInv
  <2>2. n + 1 \in 0..Len(s) /\ Len(s) \in 0..Len(s) /\ n + 1 <= Len(s)
    BY <1>4
  <2>3. LastSeq(s, n + 1) <= LastSeq(s, Len(s))
    BY <1>2, <2>1, <2>2 DEF Numbered
  <2> HIDE DEF s, n
  <2>4. LastSeq(s, n + 1) \in Nat /\ LastSeq(s, Len(s)) \in Nat
    BY <1>4, <2>2, LastSeqs
  <2>5. rx[y].expected <= LastSeq(s, n + 1) /\ rx[y].expected \in Nat
    BY <1>4
  <2> QED BY ONLY <1>5, <1>6, <2>3, <2>4, <2>5
<1>8. tx[e].acked \in Nat /\ tx[e].acked <= Len(s)
  BY <1>2, DeliveredWasReserved
<1>9. n <= tx[e].acked \/ n <= 0
  <2>1. \/ n <= tx[e].acked
        \/ n <= rx[y].ackDue
        \/ AckUnderWay(wire[e], gen[y], n)
        \/ FrameUnderWay(wire[y], gen[y])
        \/ tx[e].unsent <= Len(s)
    BY <1>1, <1>2 DEF AnsweredAt
  <2>2. ~AckUnderWay(wire[e], gen[y], n) /\ ~FrameUnderWay(wire[y], gen[y])
    BY <1>3 DEF AckUnderWay, FrameUnderWay
  <2>3. ~(tx[e].unsent <= Len(s))
    <3>1. tx[e].unsent \in Nat
      BY <1>1, Values DEF TxStates
    <3> QED BY <1>3, <1>4, <3>1
  <2> QED BY <1>3, <2>1, <2>2, <2>3
<1> QED BY <1>4, <1>7, <1>8, <1>9

\* Between two ends that run this code the only gap a receiver ever sees is one the relay
\* made by losing a payload, and no acknowledgement, message or metadata is out of place: an
\* announcement at any moment, which makes the sender go back and send again, makes none.
THEOREM OnlyLoss == Spec => []OnlyLossMakesGaps
BY GapInvariance, PTL DEF GapInv

\* Whenever both loops have ended and nothing travels, and nothing was lost since the last
\* announcement, everything was delivered and acknowledged.
THEOREM QuietIsComplete == Spec => []QuiescentIsComplete
BY GapInvariance, Invariance, QuietIsDone, PTL
=============================================================================
