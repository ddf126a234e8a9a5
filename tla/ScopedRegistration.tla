------------------------- MODULE ScopedRegistration -------------------------
(***************************************************************************)
(* ScopedRegistration (datapath/data_path.cpp), the guard that registers a *)
(* buffer when it is constructed and deregisters it when it is destroyed,  *)
(* with move construction and move assignment, over the registrations of   *)
(* MooncakeTransferBackend (adapter/mooncake_transfer_backend.cpp).        *)
(***************************************************************************)
EXTENDS Naturals

CONSTANTS
  Guard,   \* guard objects: the places a guard can live in
  MaxReg   \* bound: registrations made

VARIABLES
  alive,   \* guards that are constructed and not destroyed
  bound,   \* guards whose backend_ is not null
  valid,   \* guards with valid_
  handle,  \* handle_ of each guard: the reg_id of its registration
  live,    \* live_registrations_ of the backend
  made,    \* next_reg_id_, the number of registrations made
  refused  \* history: a deregistration of an id that is not live was tried

vars == <<alive, bound, valid, handle, live, made, refused>>

\* reg_id of a default BufferHandle.
NoReg == 0

Init ==
  /\ alive = {} /\ bound = {} /\ valid = {}
  /\ handle = [g \in Guard |-> NoReg]
  /\ live = {} /\ made = 0
  /\ refused = FALSE

Releases(g) == g \in valid /\ g \in bound

\* DeregisterBuffer as Release calls it.
Deregister(g) ==
  /\ live' = IF Releases(g) THEN live \ {handle[g]} ELSE live
  /\ refused' = (refused \/ (Releases(g) /\ handle[g] \notin live))

Construct(g) ==
  /\ g \notin alive /\ made < MaxReg
  /\ alive' = alive \cup {g} /\ bound' = bound \cup {g}
  /\ valid' = valid \cup {g}
  /\ made' = made + 1
  /\ handle' = [handle EXCEPT ![g] = made']
  /\ live' = live \cup {made'}
  /\ UNCHANGED refused

\* RegisterBuffer fails: the guard is there, but not valid.
ConstructFails(g) ==
  /\ g \notin alive
  /\ alive' = alive \cup {g} /\ bound' = bound \cup {g}
  /\ valid' = valid \ {g}
  /\ handle' = [handle EXCEPT ![g] = NoReg]
  /\ UNCHANGED <<live, made, refused>>

Destroy(g) ==
  /\ g \in alive
  /\ alive' = alive \ {g}
  /\ Deregister(g)
  /\ bound' = bound \ {g} /\ valid' = valid \ {g}
  /\ UNCHANGED <<handle, made>>

\* S with membership of the source h handed on to g.
Moved(S, g, h) == (IF h \in S THEN S \cup {g} ELSE S \ {g}) \ {h}

MoveConstruct(g, h) ==
  /\ g \notin alive /\ h \in alive
  /\ alive' = alive \cup {g}
  /\ bound' = Moved(bound, g, h) /\ valid' = Moved(valid, g, h)
  /\ handle' = [handle EXCEPT ![g] = handle[h]]
  /\ UNCHANGED <<live, made, refused>>

\* operator=: the target's own registration is released first; a guard
\* assigned to itself is left alone.
MoveAssign(g, h) ==
  /\ g \in alive /\ h \in alive /\ g # h
  /\ Deregister(g)
  /\ bound' = Moved(bound, g, h) /\ valid' = Moved(valid, g, h)
  /\ handle' = [handle EXCEPT ![g] = handle[h]]
  /\ UNCHANGED <<alive, made>>

Next ==
  \/ \E g \in Guard : Construct(g) \/ ConstructFails(g) \/ Destroy(g)
  \/ \E g, h \in Guard : MoveConstruct(g, h) \/ MoveAssign(g, h)

Spec == Init /\ [][Next]_vars

----------------------------------------------------------------------------
(* Properties *)

\* Types; only a guard with a backend is valid, only a constructed one has
\* a backend.
TypeOK ==
  /\ alive \subseteq Guard /\ bound \subseteq alive /\ valid \subseteq bound
  /\ handle \in [Guard -> Nat]
  /\ live \subseteq 1..made /\ made \in Nat
  /\ refused \in BOOLEAN

\* Registrations and valid guards are in one-to-one correspondence through
\* every construction, move and destruction: none leaks, none is released
\* under another guard, and deregistration never names a dead id.
Paired ==
  /\ live = {handle[g] : g \in valid}
  /\ \A g, h \in valid : handle[g] = handle[h] => g = h
  /\ refused = FALSE
=============================================================================
