----------------------------- MODULE HeapStore -----------------------------
(***************************************************************************)
(* What the store of core/memory.c promises the interpreter: words that    *)
(* are their spelling, and pairs that keep their identity and contents     *)
(* until they can no longer be reached.  There are no offsets, no entries, *)
(* no free lists and no collector here: an unreachable pair simply is not  *)
(* part of the state, so a collection must be a step that changes nothing. *)
(***************************************************************************)
EXTENDS Integers

CONSTANTS Vocabulary,\* the words
          PairId,    \* the identities pairs can have
          Unstored   \* values no pair can hold (blob words)

VARIABLES pairs,     \* reachable pair -> [car, cdr]
          hold       \* the values the program holds

vars == <<pairs, hold>>

Nil  == [kind |-> "nil",   at |-> 0]
None == [kind |-> "empty", at |-> 0]
Spelled(n) == [kind |-> "word", at |-> n]
Pair(i)    == [kind |-> "list", at |-> i]

Stored(v) == IF v \in Unstored THEN Nil ELSE v

ReachableFrom(h, p) ==
  {i \in DOMAIN p : \A S \in SUBSET DOMAIN p :
     (/\ \A j \in DOMAIN p : Pair(j) \in h => j \in S
      /\ \A j \in S : \A k \in DOMAIN p : Pair(k) \in {p[j].car, p[j].cdr} => k \in S)
     => i \in S}

\* The state becomes these pairs and these held values, less what the held
\* values no longer reach.
Become(p, h) == /\ hold' = h
                /\ pairs' = [i \in ReachableFrom(h, p) |-> p[i]]

NewWord(n) == Become(pairs, hold \cup {Spelled(n)})

\* A new pair; where the program said so it is also linked after `tails`.
NewPair(car, cdr, tails) ==
  \E i \in PairId \ DOMAIN pairs :
    Become([j \in DOMAIN pairs \cup {i} |->
              IF j = i THEN [car |-> car, cdr |-> cdr]
              ELSE IF j \in tails THEN [pairs[j] EXCEPT !.cdr = Pair(i)]
              ELSE pairs[j]],
           hold \cup {Pair(i)})

SetFirst(i, v) == Become([pairs EXCEPT ![i].car = Stored(v)], hold)
SetRest(i, v)  == Become([pairs EXCEPT ![i].cdr = Stored(v)], hold)
Take(i)        == Become(pairs, hold \cup {pairs[i].car, pairs[i].cdr})
Give(v)        == Become(pairs, hold \cup {v})
Release(v)     == Become(pairs, hold \ {v})

Value == hold \cup {Nil, None}

Init == pairs = [i \in {} |-> {}] /\ hold = {}

Next == \/ \E n \in Vocabulary : NewWord(n)
        \/ \E car, cdr \in Value \ Unstored : NewPair(car, cdr, {})
        \/ \E i \in DOMAIN pairs, v \in Value \ Unstored :
             Pair(i) \in hold /\ NewPair(v, Nil, {i})
        \/ \E i \in DOMAIN pairs, v \in Value : Pair(i) \in hold /\ SetFirst(i, v)
        \/ \E i \in DOMAIN pairs, v \in Value : Pair(i) \in hold /\ SetRest(i, v)
        \/ \E i \in DOMAIN pairs : Pair(i) \in hold /\ Take(i)
        \/ \E v \in Unstored : Give(v)
        \/ \E v \in hold : Release(v)

Spec == Init /\ [][Next]_vars
=============================================================================
