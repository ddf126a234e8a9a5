----------------------------- MODULE BlockCache -----------------------------
(***************************************************************************)
(* What the tiered store promises to its callers, whatever the number of   *)
(* tiers, the eviction policy and the quotas: a cache.  A block that is    *)
(* there has the content of the last accepted write of its key, a read     *)
(* returns that content or a miss, and a block may be dropped at any time. *)
(***************************************************************************)
EXTENDS Naturals

CONSTANTS Key, Payload, NoPayload

VARIABLES
  written,  \* content of the last accepted write of each key
  cached,   \* the keys whose block is in the cache
  reply     \* the last answer: a status, and the content of a hit

Init ==
  /\ written = [k \in Key |-> NoPayload]
  /\ cached = {}
  /\ reply = [status |-> "Ok", payload |-> NoPayload]

Put(k, p) ==
  /\ written' = [written EXCEPT ![k] = p]
  /\ cached' = cached \cup {k}
  /\ UNCHANGED reply

Drop(k) ==
  /\ cached' = cached \ {k}
  /\ UNCHANGED <<written, reply>>

Hit(k) ==
  /\ k \in cached
  /\ reply' = [status |-> "Ok", payload |-> written[k]]
  /\ UNCHANGED <<written, cached>>

\* An answer that carries no block.
Empty ==
  /\ reply'.payload = NoPayload
  /\ UNCHANGED <<written, cached>>

Next ==
  \/ \E k \in Key, p \in Payload : Put(k, p)
  \/ \E k \in Key : Drop(k) \/ Hit(k)
  \/ Empty

Spec == Init /\ [][Next]_<<written, cached, reply>>
=============================================================================
