-------------------------- MODULE ExactlyOnceLink --------------------------
(***************************************************************************)
(* What the acknowledged relay session promises to the RPC channels above  *)
(* it: per bridge generation two reliable channels, one in each direction. *)
(* Neither fragments, frames, acknowledgements nor the relay exist here.   *)
(***************************************************************************)
EXTENDS Integers, Sequences

CONSTANTS Host, Mobile, MaxGeneration, Sizes

Ends == {Host, Mobile}
Peer(e) == IF e = Host THEN Mobile ELSE Host
Generations == 1..MaxGeneration

\* A message is told from the others by where it begins in the stream of its channel.
After(s) == IF s = <<>> THEN 1 ELSE s[Len(s)].first + s[Len(s)].count

VARIABLES sent,      \* per end and generation: what its channel was asked to send
          got,       \* per end and generation: what its channel was given
          current    \* per end: the generation it is in, 0 before the first

vars == <<sent, got, current>>

Init ==
    /\ sent = [e \in Ends |-> [g \in Generations |-> <<>>]]
    /\ got = [e \in Ends |-> [g \in Generations |-> <<>>]]
    /\ current = [e \in Ends |-> 0]

Send(e) ==
    /\ current[e] # 0
    /\ \E n \in Sizes :
        sent' = [sent EXCEPT ![e][current[e]] = Append(@, [first |-> After(@), count |-> n])]
    /\ UNCHANGED <<got, current>>

\* The next message of the other end in this generation, and no other.
Deliver(e) ==
    /\ current[e] # 0
    /\ LET g == current[e]
           k == Len(got[e][g]) + 1
       IN  /\ k <= Len(sent[Peer(e)][g])
           /\ got' = [got EXCEPT ![e][g] = Append(@, sent[Peer(e)][g][k])]
    /\ UNCHANGED <<sent, current>>

\* A later bridge: nothing of the earlier one is sent or given any more.
Renew(e) ==
    /\ \E g \in Generations :
        /\ g > current[e]
        /\ current' = [current EXCEPT ![e] = g]
    /\ UNCHANGED <<sent, got>>

Next == \E e \in Ends : Send(e) \/ Deliver(e) \/ Renew(e)

Spec == Init /\ [][Next]_vars

=============================================================================
