------------------------------- MODULE LruCache -------------------------------
(***************************************************************************)
(* What a cache of least recently used blocks promises: the blocks accessed*)
(* last, capacity of them, and an answer that says whether a block was     *)
(* among them.  TieredSimulator implements it when both tiers are LRU.     *)
(***************************************************************************)
EXTENDS Naturals, Sequences, SequencesExt

CONSTANT Key

VARIABLES
  capacity,  \* blocks the cache holds
  order,     \* blocks held, the one used last at the end
  answers    \* for each access of the running request: the block, was it a hit

Latest(n, s) == SubSeq(s, Len(s) - n + 1, Len(s))

Init ==
  /\ capacity \in Nat \ {0}
  /\ order = <<>>
  /\ answers = <<>>

Access(k) ==
  LET used == Append(RemoveFirst(order, k), k)
  IN  /\ order' = IF Len(used) <= capacity THEN used ELSE Latest(capacity, used)
      /\ answers' = Append(answers, <<k, k \in Range(order)>>)
      /\ UNCHANGED capacity

NewRequest ==
  /\ answers' = <<>>
  /\ UNCHANGED <<capacity, order>>

Next == NewRequest \/ \E k \in Key : Access(k)

Spec == Init /\ [][Next]_<<capacity, order, answers>>
==============================================================================
