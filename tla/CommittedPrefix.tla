-------------------------- MODULE CommittedPrefix --------------------------
(***************************************************************************)
(* What the KV state contract promises to its callers, without leases,     *)
(* atomics or write tokens.  One holder at a time owns the KV store; under *)
(* one generation the committed prefix grows only by contiguous extensions *)
(* that fit the store, and giving the store back forgets the prefix.       *)
(***************************************************************************)
EXTENDS Naturals

CONSTANTS Slots,      \* whoever may hold the store
          Capacity,   \* positions the store can keep
          NoHolder    \* no slot: the store is free

VARIABLES holder,      \* the slot that owns the store, or NoHolder
          generation,  \* how many times the store was handed out
          prefix       \* positions committed under this generation

vars == <<holder, generation, prefix>>

Init ==
  /\ holder = NoHolder
  /\ generation = 0
  /\ prefix = 0

Acquire(s) ==
  /\ holder = NoHolder
  /\ holder' = s
  /\ generation' = generation + 1
  /\ prefix' = 0

Extend(s) ==
  /\ holder = s
  /\ prefix' \in (prefix + 1) .. Capacity
  /\ UNCHANGED <<holder, generation>>

Release(s) ==
  /\ holder = s
  /\ holder' = NoHolder
  /\ prefix' = 0
  /\ UNCHANGED generation

Next == \E s \in Slots : Acquire(s) \/ Extend(s) \/ Release(s)

Spec == Init /\ [][Next]_vars
=============================================================================
