------------------------------ MODULE Lexgions ------------------------------
(***************************************************************************)
(* One thread's regions (lexgion_t) and the stack of their executions      *)
(* (lexgion_record_t): what every domain's callbacks call to begin a       *)
(* region, to end it, to decide whether an execution is traced and to      *)
(* count it (pinsight.c, pinsight.h).  The table, the stack and the        *)
(* counters are thread-local; fired and generation belong to the           *)
(* configuration and are shared with the control thread.                   *)
(*                                                                         *)
(* A region is identified by its code address.  It resolves to one         *)
(* configuration for good (no reload), and Disabled holds the regions      *)
(* whose configuration turns the event off or excludes the processing      *)
(* unit.  first_trace_num and last_trace_num are not kept: nothing reads   *)
(* them.  Operators marked "Faulty" are plausible bugs no action uses.     *)
(***************************************************************************)
EXTENDS Integers, Sequences, FiniteSets

CONSTANTS
    Codes,        \* code addresses of the regions the thread may enter
    Configs,      \* the configurations they resolve to
    ConfigOf,     \* which one
    Cap,          \* max_num_traces of each, or Unlimited
    StartsAt,     \* trace_starts_at of each
    Rate,         \* tracing_rate of each
    TriggerAll,   \* the configurations with window_end_trigger = all
    Disabled,     \* regions that are never to be traced
    MaxLexgions,  \* MAX_NUM_LEXGIONS
    MaxDepth      \* MAX_LEXGION_STACK_DEPTH

Unlimited == -1

ASSUME LexgionsAssumption ==
    /\ ConfigOf \in [Codes -> Configs]
    /\ Cap \in [Configs -> Nat \cup {Unlimited}]
    /\ StartsAt \in [Configs -> Nat]
    /\ Rate \in [Configs -> Nat]
    /\ TriggerAll \subseteq Configs
    /\ Disabled \subseteq Codes
    /\ MaxLexgions \in Nat
    /\ MaxDepth \in Nat

VARIABLES
    seen,        \* the codes in lexgions[], num_lexgions of them
    lexgion,     \* what the table holds of each; zeroes before it is seen
    stack,       \* the records from the bottom to current_record
    fired,       \* end_action.fired of each configuration
    generation   \* end_action.generation of each configuration

tableVars == <<seen, lexgion>>
lexgionVars == <<seen, lexgion, stack, fired, generation>>

Lexgion == [counter : Nat,       \* executions
            traces : Nat,        \* trace_counter
            since : Nat,         \* num_exes_after_last_trace
            gen : Nat,           \* introspect_gen
            bit : BOOLEAN,       \* trace_bit
            resolved : BOOLEAN]  \* trace_config # NULL

\* A record is named by its region and the region's counter (record_id).
Record == [code : Codes, id : Nat]

LexgionsInit ==
    /\ seen = {}
    /\ lexgion = [c \in Codes |->
                    [counter |-> 0, traces |-> 0, since |-> 0, gen |-> 0,
                     bit |-> FALSE, resolved |-> FALSE]]
    /\ stack = <<>>
    /\ fired = [k \in Configs |-> FALSE]
    /\ generation = [k \in Configs |-> 0]

-----------------------------------------------------------------------------
(***************************************************************************)
(* The stack.                                                              *)
(***************************************************************************)
HoldsRecord(c) == \E i \in DOMAIN stack : stack[i].code = c

\* push_lexgion: nothing when the stack is full.
Push(c) ==
    stack' = IF Len(stack) < MaxDepth
             THEN Append(stack, [code |-> c, id |-> lexgion[c].counter + 1])
             ELSE stack

\* Faulty: ends whatever execution is on top (lexgion_end).
EndTop(c) == stack' = SubSeq(stack, 1, Len(stack) - 1)

\* lexgion_end_match: pops down to and including the region's topmost record,
\* nothing if it has none.
EndMatch(c) ==
    IF HoldsRecord(c)
    THEN \E top \in {i \in DOMAIN stack : stack[i].code = c} :
            /\ \A i \in DOMAIN stack : stack[i].code = c => i <= top
            /\ stack' = SubSeq(stack, 1, top - 1)
    ELSE UNCHANGED stack

-----------------------------------------------------------------------------
(***************************************************************************)
(* The table.                                                              *)
(***************************************************************************)
\* A full table gates new regions only.
Tracked(c) == c \in seen \/ Cardinality(seen) < MaxLexgions

\* Whether lexgion_begin returns a record.
Recorded(c) == Tracked(c) /\ Len(stack) < MaxDepth

\* lexgion_begin: an execution is counted even when its push finds no room.
Begin(c) ==
    IF Tracked(c)
    THEN /\ seen' = seen \cup {c}
         /\ lexgion' = [lexgion EXCEPT ![c].counter = @ + 1, ![c].since = @ + 1]
         /\ Push(c)
    ELSE UNCHANGED <<seen, lexgion, stack>>

\* Faulty: a new cycle goes on with the old count.
RenewedAsItWas(c) == [lexgion[c] EXCEPT !.gen = generation[ConfigOf[c]]]

\* The reset of trace_counter when the control thread opened a new cycle.
Renewed(c) ==
    LET k == ConfigOf[c] IN
    IF Cap[k] # Unlimited /\ lexgion[c].gen # generation[k]
    THEN [lexgion[c] EXCEPT !.traces = 0, !.gen = generation[k]]
    ELSE lexgion[c]

\* Faulty: traces one execution more than max_num_traces.
TracedByLateRate(c, l) ==
    LET k == ConfigOf[c] IN
    /\ StartsAt[k] <= l.counter - 1
    /\ Cap[k] # Unlimited => l.traces <= Cap[k]
    /\ l.since >= Rate[k]

\* The rate-based trace bit of the region's entry l.
TracedByRate(c, l) ==
    LET k == ConfigOf[c] IN
    /\ StartsAt[k] <= l.counter - 1
    /\ Cap[k] # Unlimited => l.traces < Cap[k]
    /\ l.since >= Rate[k]

\* lexgion_set_top_trace_bit_domain_event.
SetTraceBit(c) ==
    LET l == IF c \in Disabled THEN lexgion[c] ELSE Renewed(c) IN
    lexgion' = [lexgion EXCEPT ![c] =
                  [l EXCEPT !.resolved = TRUE,
                            !.bit = c \notin Disabled /\ TracedByRate(c, l)]]

\* pinsight_all_seen_lexgions_capped, on the table as this end updates it.
AllSeenCapped ==
    \A c \in seen :
        lexgion'[c].resolved /\ Cap[ConfigOf[c]] # Unlimited
        => lexgion'[c].traces >= Cap[ConfigOf[c]]

\* lexgion_post_trace_update; of pinsight_fire_window_end, the latch.
PostTraceUpdate(c) ==
    LET k == ConfigOf[c] IN
    /\ lexgion' = [lexgion EXCEPT ![c].traces = @ + 1, ![c].since = 0]
    /\ IF /\ Cap[k] # Unlimited
          /\ lexgion'[c].traces >= Cap[k]
          /\ k \in TriggerAll => AllSeenCapped
       THEN fired' = [fired EXCEPT ![k] = TRUE]
       ELSE UNCHANGED fired

-----------------------------------------------------------------------------
\* The table is finite, so that its size can be counted.
LexgionsType ==
    /\ seen \subseteq Codes /\ IsFiniteSet(seen) /\ Cardinality(seen) <= MaxLexgions
    /\ lexgion \in [Codes -> Lexgion]
    /\ stack \in Seq(Record) /\ Len(stack) <= MaxDepth
    /\ fired \in [Configs -> BOOLEAN]
    /\ generation \in [Configs -> Nat]

=============================================================================
