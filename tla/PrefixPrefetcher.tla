-------------------------- MODULE PrefixPrefetcher --------------------------
(***************************************************************************)
(* PrefixPrefetcher (storage/prefix_prefetcher.cpp): successor edges       *)
(* between block keys, learnt from the key sequences of requests, kept up  *)
(* to a fixed number and rolled out in insertion order, and the chains     *)
(* predicted from them.                                                    *)
(*                                                                         *)
(* A recording holds mu_ from its first edge to its last; each edge and    *)
(* each turn of the roll-out loop is a step, and predictions, which take   *)
(* the lock too, are state functions of the states in between recordings.  *)
(***************************************************************************)
EXTENDS Naturals, Sequences, FiniteSets, SequencesExt

CONSTANTS
  Key,        \* block keys
  max_edges,  \* as given to the constructor
  MaxLen      \* bound: keys in one recorded sequence

ASSUME PrefetcherAssumption == max_edges \in Nat /\ MaxLen \in Nat

VARIABLES
  successor,  \* successor_: a function on the keys that have an edge
  fifo,       \* fifo_: these keys in insertion order
  todo,       \* keys the running RecordSequence has still to link
  observed    \* history: last successor observed for each key

edgeVars == <<successor, fifo>>
vars == <<edgeVars, todo, observed>>

\* max_edges_: 0 counts as 1.
MaxEdges == IF max_edges = 0 THEN 1 ELSE max_edges

NoEdges == [k \in {} |-> k]

Init ==
  /\ successor = NoEdges /\ fifo = <<>>
  /\ todo = <<>>
  /\ observed = NoEdges

Link(edges, from, to) ==
  [k \in DOMAIN edges \cup {from} |-> IF k = from THEN to ELSE edges[k]]

TooManyEdges == Cardinality(DOMAIN successor) > MaxEdges /\ fifo # <<>>
Recording == Len(todo) >= 2 \/ TooManyEdges

\* Fewer than two keys: no edge, and RecordSequence returns at once.
RecordSequence(keys) ==
  /\ ~Recording
  /\ todo' = keys
  /\ UNCHANGED <<edgeVars, observed>>

\* Mutant: the key is queued again when its edge is overwritten.
NewInFifo_Always(from) == Append(fifo, from)

NewInFifo(from) == IF from \in DOMAIN successor THEN fifo ELSE Append(fifo, from)

InsertEdgeLocked ==
  LET from == todo[1]
      to == todo[2]
  IN  /\ Len(todo) >= 2 /\ ~TooManyEdges
      /\ successor' = Link(successor, from, to)
      /\ fifo' = NewInFifo(from)
      /\ observed' = Link(observed, from, to)
      /\ todo' = Tail(todo)

\* One turn of the loop at the end of InsertEdgeLocked.
RollOut ==
  /\ TooManyEdges
  /\ successor' = [k \in DOMAIN successor \ {Head(fifo)} |-> successor[k]]
  /\ fifo' = Tail(fifo)
  /\ UNCHANGED <<todo, observed>>

KeySequences == UNION {[1..n -> Key] : n \in 0..MaxLen}

Next ==
  \/ \E keys \in KeySequences : RecordSequence(keys)
  \/ InsertEdgeLocked
  \/ RollOut

Spec == Init /\ [][Next]_vars

----------------------------------------------------------------------------
(* Predictions *)

\* Only a return to the head ends the chain.
Wraps(head, chain, k) == k = head

\* The loop of PredictChain: cursor, and whether it has not broken off.
Walk(head, budget) ==
  LET walk[i \in 0..budget] ==
        IF i = 0 THEN [chain |-> <<>>, cursor |-> head, going |-> TRUE]
        ELSE LET w == walk[i - 1]
             IN  IF \/ ~w.going
                    \/ w.cursor \notin DOMAIN successor
                    \/ Wraps(head, w.chain, successor[w.cursor])
                   THEN [w EXCEPT !.going = FALSE]
                   ELSE LET k == successor[w.cursor]
                        IN  [chain |-> Append(w.chain, k), cursor |-> k,
                             going |-> TRUE]
  IN  walk[budget]

PredictChain(head, budget) == Walk(head, budget).chain

AddUnseen(merged, k) == IF k \in Range(merged) THEN merged ELSE Append(merged, k)

\* Mutant: a key that was seen ends the chain of its anchor.
MergeChain_CutAtSeen(merged, chain) ==
  LET fresh == {i \in DOMAIN chain : \A j \in 1..i : chain[j] \notin Range(merged)}
  IN  FoldLeft(AddUnseen, merged, SubSeq(chain, 1, Cardinality(fresh)))

MergeChain(merged, chain) ==
  LET merge[i \in 0..Len(chain)] ==
        IF i = 0 THEN merged ELSE AddUnseen(merge[i - 1], chain[i])
  IN  merge[Len(chain)]

PredictChainMulti(anchors, budget) ==
  LET chains[i \in 0..Len(anchors)] ==
        IF i = 0 THEN <<>>
        ELSE MergeChain(chains[i - 1], PredictChain(anchors[i], budget))
  IN  chains[Len(anchors)]

----------------------------------------------------------------------------
(* Properties *)

EdgeFunctions == UNION {[S -> Key] : S \in SUBSET Key}

\* Types: edges lead from block keys to block keys that were recorded.
TypeOK ==
  /\ successor \in EdgeFunctions
  /\ fifo \in Seq(Key) /\ todo \in Seq(Key)
  /\ observed \in EdgeFunctions

\* The roll-out queue holds each key that has an edge exactly once: a key
\* missing from it keeps its edge for ever, one twice in it loses a newer
\* edge with the older entry.
FifoMatchesEdges ==
  /\ Range(fifo) = DOMAIN successor
  /\ \A i, j \in DOMAIN fifo : fifo[i] = fifo[j] => i = j

\* Between recordings the edges are within the limit, during one at most
\* one above it.
EdgesBounded ==
  /\ Cardinality(DOMAIN successor) <= MaxEdges + 1
  /\ ~Recording => Cardinality(DOMAIN successor) <= MaxEdges

\* An edge that is kept is the newest observation of its key.
LatestObservation ==
  \A k \in DOMAIN successor : k \in DOMAIN observed /\ successor[k] = observed[k]

\* The edge table and its roll-out queue stay in step, within the limit and
\* up to date, at every edge of a recording.
TableSound == FifoMatchesEdges /\ EdgesBounded /\ LatestObservation

\* What PredictChain returns: a path of edges that starts at the head, never
\* contains it, and stops before the budget only where there is no edge or
\* the next one returns to the head.
ChainExact(budget) ==
  \A head \in Key :
    LET chain == PredictChain(head, budget)
        path == <<head>> \o chain
        end == Last(path)
    IN  /\ head \notin Range(chain)
        /\ \A i \in DOMAIN chain :
             path[i] \in DOMAIN successor /\ chain[i] = successor[path[i]]
        /\ Len(chain) <= budget
        /\ Len(chain) < budget =>
             end \notin DOMAIN successor \/ successor[end] = head

\* PredictChainMulti returns the keys of all the chains, each once.
MultiIsUnion(anchors, budget) ==
  LET merged == PredictChainMulti(anchors, budget)
  IN  /\ Range(merged) = UNION {Range(PredictChain(a, budget)) : a \in Range(anchors)}
      /\ IsInjective(merged)
=============================================================================
