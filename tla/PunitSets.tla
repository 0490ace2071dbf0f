------------------------------ MODULE PunitSets ------------------------------
(***************************************************************************)
(* Sets of processing units as the configuration keeps them (bitset.c): a  *)
(* BitSet of nbits holds the ids 0 .. nbits, in words.  A set is modelled  *)
(* by the ids whose bit is set, and the text of a range list, "0,2-4", by  *)
(* the sequence of its ranges; how they are written is left out.           *)
(***************************************************************************)
EXTENDS Integers, FiniteSets, SequencesExt

CONSTANTS
    Bits,      \* nbits, 1024 in every set of the configuration
    WordBits   \* BITS_PER_WORD

ASSUME PunitSetsAssumption == Bits \in Nat /\ WordBits \in Nat \ {0}

\* The list is [lo, hi] records; lo = hi for a single id.
RangeLists == Seq([lo : Nat, hi : Nat])

\* bitset_parse_ranges: the ids up to the first range that is upside down or
\* reaches beyond nbits, and whether there was none.
ParseRanges(spec) ==
    FoldLeft(LAMBDA acc, r :
                IF ~acc.ok \/ r.hi < r.lo \/ r.hi > Bits THEN [acc EXCEPT !.ok = FALSE]
                ELSE [acc EXCEPT !.ids = @ \cup (r.lo .. r.hi)],
             [ok |-> TRUE, ids |-> {}], spec)

\* bitset_equal compares (nbits + 63) / 64 words: if nbits is a multiple of
\* the word's size the id nbits, in a word of its own, is not among them.
Equal(a, b) ==
    LET compared == IF Bits < WordBits THEN 0 .. Bits
                    ELSE 0 .. WordBits * ((Bits + WordBits - 1) \div WordBits) - 1
    IN a \cap compared = b \cap compared

\* bitset_next_set, and bitset_first_set as that of -1.
NextSet(ids, prev) ==
    IF \E i \in ids : i > prev THEN Min({i \in ids : i > prev}) ELSE -1

\* bitset_to_rangestring: the longest runs of adjacent ids.
RangeString(ids) ==
    {r \in [lo : ids, hi : ids] :
        /\ r.lo .. r.hi \subseteq ids
        /\ r.lo - 1 \notin ids /\ NextSet(ids, r.hi) # r.hi + 1}

=============================================================================
