----------------------------- MODULE EndAction -----------------------------
(***************************************************************************)
(* What the end of a window promises, without threads, semaphore or slot.  *)
(* While a window is open its end can be claimed, once; a claimed end is   *)
(* queued for the control thread, which acts on it at most once; when the  *)
(* action is over the window is open again (cyclic) or spent for good.     *)
(* There is room for one queued end: queuing a second, or finishing the    *)
(* removal of an earlier one, drops the end that was waiting.              *)
(***************************************************************************)
CONSTANTS
    Configs,       \* the end actions
    CyclicConfigs  \* those that resume some domain to TRACING

VARIABLE state      \* of each: where its current window is

States == {"open", "claimed", "queued", "acting", "spent"}

TypeOK == state \in [Configs -> States]

Init == state = [c \in Configs |-> "open"]

\* The first region to reach its cap claims the end of the window.
Claim(c) ==
    /\ state[c] = "open"
    /\ state' = [state EXCEPT ![c] = "claimed"]

\* c is queued; an end that was waiting is dropped.
Queued(c) ==
    [e \in Configs |-> IF e = c THEN "queued"
                       ELSE IF state[e] = "queued" THEN "spent" ELSE state[e]]

\* The claimant queues it.
Publish(c) == state[c] = "claimed" /\ state' = Queued(c)

\* The window's deadline claims and queues it at once.
Expire(c) == state[c] = "open" /\ state' = Queued(c)

\* The control thread takes it.
Take(c) ==
    /\ state[c] = "queued"
    /\ state' = [state EXCEPT ![c] = "acting"]

\* The place of the end just taken is cleared, with what was put there since.
Drop(c) ==
    /\ state[c] = "queued"
    /\ \E e \in Configs : state[e] = "acting"
    /\ state' = [state EXCEPT ![c] = "spent"]

\* The action is over.
Reopen(c) ==
    /\ c \in CyclicConfigs
    /\ state[c] = "acting"
    /\ state' = [state EXCEPT ![c] = "open"]

Retire(c) ==
    /\ c \notin CyclicConfigs
    /\ state[c] = "acting"
    /\ state' = [state EXCEPT ![c] = "spent"]

Next ==
    \E c \in Configs :
        \/ Claim(c) \/ Publish(c) \/ Expire(c)
        \/ Take(c) \/ Drop(c) \/ Reopen(c) \/ Retire(c)

Spec == Init /\ [][Next]_state
=============================================================================
