------------------------ MODULE InterruptLifecycle ------------------------
(***************************************************************************)
(* What the human-in-the-loop interface promises of one thread, without    *)
(* rows, runs or workers: the thread waits for at most one interrupt, an   *)
(* interrupt is claimed only while the thread waits for it and nobody has  *)
(* resolved it, and it is resolved only by whoever holds the claim.        *)
(***************************************************************************)
EXTENDS Naturals

CONSTANTS Interrupts, NoInterrupt

VARIABLES waiting,    \* [phase |-> ..., interrupt |-> ...]
          resolved    \* the interrupts resolved so far

Waiting == [phase : {"none", "pending", "claimed"},
            interrupt : Interrupts \cup {NoInterrupt}]

LifecycleTypeOK == waiting \in Waiting /\ resolved \subseteq Interrupts

Nobody == [phase |-> "none", interrupt |-> NoInterrupt]
Pending(i) == [phase |-> "pending", interrupt |-> i]
ClaimedFor(i) == [phase |-> "claimed", interrupt |-> i]

Init == waiting = Nobody /\ resolved = {}

\* A node yields, or a failed resume gives its claim back.
Ask(i) == waiting' = Pending(i) /\ UNCHANGED resolved

Claim(i) == /\ waiting = Pending(i)
            /\ i \notin resolved
            /\ waiting' = ClaimedFor(i)
            /\ UNCHANGED resolved

Resolve(i) == /\ waiting = ClaimedFor(i)
              /\ waiting' = Nobody
              /\ resolved' = resolved \cup {i}

\* The thread moves on without the answer: a plain run or resume went over it.
MoveOn == waiting' = Nobody /\ UNCHANGED resolved

Next == \/ \E i \in Interrupts : Ask(i) \/ Claim(i) \/ Resolve(i)
        \/ MoveOn

Spec == Init /\ [][Next]_<<waiting, resolved>>
=============================================================================
