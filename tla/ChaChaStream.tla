---------------------------- MODULE ChaChaStream ----------------------------
(***************************************************************************)
(* The random keys of the GPU threads (src/kernels/chacha_rng.h): a round  *)
(* of the worker brings a key of its own from the host, every thread has a *)
(* stream of it, and a draw takes half of a block.  The cipher is not      *)
(* computed: a block is named by the state it comes from.                  *)
(***************************************************************************)
EXTENDS Integers, FiniteSets

CONSTANTS
  WordBase,   \* values of a word (2^32)
  Words,      \* words of a block (16)
  DrawWords,  \* words of a draw (8)
  Threads,    \* the threads' numbers, below WordBase * WordBase
  MaxRounds   \* bound: rounds

StreamFits ==
  /\ WordBase \in Nat \ {0} /\ Words \in Nat /\ MaxRounds \in Nat
  /\ DrawWords \in 1 .. Words /\ Words % DrawWords = 0
  /\ Threads \subseteq 0 .. WordBase * WordBase - 1

VARIABLES
  rounds,     \* rounds begun; the round's number stands for its key
  states,     \* a thread's state: counter and stream, two words each
  words,      \* the state whose block it has
  offset,     \* words of it used
  drawn,      \* history: the words drawn
  begun,      \* history: blocks each thread has made in this round
  total       \* history: all draws

vars == <<rounds, states, words, offset, drawn, begun, total>>

\* What no generator has yet.
NoBlock == [key |-> 0, low |-> 0, high |-> 0, stream |-> 0, streamHigh |-> 0]

\* ChaChaRng: nothing is left of any block.
Seeded(t) ==
  [key |-> rounds', low |-> 0, high |-> 0, stream |-> t % WordBase, streamHigh |-> t \div WordBase]
BeginRound ==
  /\ rounds < MaxRounds /\ rounds' = rounds + 1
  /\ states' = [t \in Threads |-> Seeded(t)] /\ words' = [t \in Threads |-> NoBlock]
  /\ offset' = [t \in Threads |-> Words] /\ begun' = [t \in Threads |-> 0]
  /\ UNCHANGED <<drawn, total>>

Init ==
  /\ rounds = 0 /\ drawn = {} /\ total = 0
  /\ states = [t \in Threads |-> NoBlock] /\ words = [t \in Threads |-> NoBlock]
  /\ offset = [t \in Threads |-> Words] /\ begun = [t \in Threads |-> 0]

\* if (++state[12] == 0) ++state[13];
Counted(s) ==
  IF s.low + 1 = WordBase THEN [s EXCEPT !.low = 0, !.high = (@ + 1) % WordBase]
                          ELSE [s EXCEPT !.low = @ + 1]

Take(t, from, at) ==
  /\ drawn' = drawn \cup {[block |-> from, word |-> w] : w \in at .. at + DrawWords - 1}
  /\ offset' = [offset EXCEPT ![t] = at + DrawWords]
  /\ total' = total + 1

\* next32, with a new block when the last one is used up.  The streams are followed
\* for as long as their counters do not go round.
Draw(t) ==
  /\ rounds > 0
  /\ IF offset[t] = Words
     THEN /\ begun[t] < WordBase * WordBase /\ begun' = [begun EXCEPT ![t] = @ + 1]
          /\ words' = [words EXCEPT ![t] = states[t]]
          /\ states' = [states EXCEPT ![t] = Counted(@)]
          /\ Take(t, states[t], 0)
     ELSE Take(t, words[t], offset[t]) /\ UNCHANGED <<words, states, begun>>
  /\ UNCHANGED rounds

Finished ==
  /\ rounds = MaxRounds
  /\ \A t \in Threads : offset[t] = Words /\ begun[t] = WordBase * WordBase
  /\ UNCHANGED vars

Next == BeginRound \/ (\E t \in Threads : Draw(t)) \/ Finished

Spec == Init /\ [][Next]_vars

-----------------------------------------------------------------------------
(* Properties. *)

\* No word is ever drawn twice - not by another thread, not in a later round,
\* not where the counter's low word goes round or a block is used up.
DrawsFresh == Cardinality(drawn) = DrawWords * total
=============================================================================
