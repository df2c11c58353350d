----------------------------- MODULE StateLease -----------------------------
(***************************************************************************)
(* src/src/runtime/state.rs: StateController and the StateLease handed out *)
(* by StateController::begin.                                              *)
(*                                                                         *)
(* The controller is shared by every thread that wants to run a request on *)
(* one KV store; its two fields are atomics, so begin is three steps       *)
(* (compare_exchange, fetch_update, and on epoch overflow a store) that    *)
(* interleave with everybody else's.  A lease is only ever used through    *)
(* &mut self, so each of its methods is one step; close writes one atomic. *)
(* A slot is a place that can hold one lease: a thread that keeps a closed *)
(* lease while it begins another owns two slots.                           *)
(*                                                                         *)
(* A call that returns Err without writing anything is no step here.       *)
(***************************************************************************)
EXTENDS Naturals

CONSTANTS Slots,      \* places that may hold a StateLease
          Capacity,   \* StateSpec.capacity, in positions
          EpochMax,   \* u64::MAX in the code
          Positions,  \* the usize arguments callers pass
          NoHolder    \* no slot (for the contract below)

ASSUME CapacityPos == Capacity \in Nat \ {0}
ASSUME EpochMaxNat == EpochMax \in Nat
ASSUME PositionsNat == Positions \subseteq Nat
ASSUME NoHolderNoSlot == NoHolder \notin Slots

Phase == {"Fresh", "Prefill", "Ready", "Decode", "Finished", "Aborted"}

StateWrite == [epoch : Nat, start : Nat, count : Nat, phase : Phase]

\* Option::None for StateLease.pending: no issued write has count 0.
NoWrite == [epoch |-> 0, start |-> 0, count |-> 0, phase |-> "Fresh"]

Lease == [epoch : Nat, phase : Phase, processed : Nat, prompt : Nat,
          pending : StateWrite, closed : BOOLEAN]

FreshLease(e) == [epoch |-> e, phase |-> "Fresh", processed |-> 0,
                  prompt |-> 0, pending |-> NoWrite, closed |-> FALSE]

VARIABLES active,   \* StateController.active
          epoch,    \* StateController.epoch
          stage,    \* where the slot is: no lease, inside begin, or holding one
          lease,    \* the lease in the slot (meaningful when stage is "held")
          issued    \* every StateWrite handed out: it is Copy, callers keep it

vars == <<active, epoch, stage, lease, issued>>

Stage == {"none", "claimed", "exhausted", "held"}

Init ==
  /\ active = FALSE
  /\ epoch = 0
  /\ stage = [s \in Slots |-> "none"]
  /\ lease = [s \in Slots |-> FreshLease(0)]
  /\ issued = {}

Open(s) == stage[s] = "held" /\ ~lease[s].closed

-----------------------------------------------------------------------------
(* StateController::begin *)

\* Mutant: the flag is stored without looking at its old value.
BugClaimUnchecked(s) ==
  /\ stage[s] = "none"
  /\ active' = TRUE
  /\ stage' = [stage EXCEPT ![s] = "claimed"]
  /\ UNCHANGED <<epoch, lease, issued>>

\* compare_exchange(false, true); Busy when it fails.
BeginClaim(s) ==
  /\ stage[s] = "none"
  /\ ~active
  /\ active' = TRUE
  /\ stage' = [stage EXCEPT ![s] = "claimed"]
  /\ UNCHANGED <<epoch, lease, issued>>

\* fetch_update(checked_add(1)), and the lease built from its result.
BeginEpoch(s) ==
  /\ stage[s] = "claimed"
  /\ \/ /\ epoch < EpochMax
        /\ epoch' = epoch + 1
        /\ lease' = [lease EXCEPT ![s] = FreshLease(epoch + 1)]
        /\ stage' = [stage EXCEPT ![s] = "held"]
     \/ /\ epoch = EpochMax
        /\ stage' = [stage EXCEPT ![s] = "exhausted"]
        /\ UNCHANGED <<epoch, lease>>
  /\ UNCHANGED <<active, issued>>

\* Mutant: the counter is tried again instead of giving the claim back.
BugExhaustedRetries(s) ==
  /\ stage[s] = "exhausted"
  /\ stage' = [stage EXCEPT ![s] = "claimed"]
  /\ UNCHANGED <<active, epoch, lease, issued>>

\* The store that undoes the claim before Err(Epoch) is returned.
BeginExhausted(s) ==
  /\ stage[s] = "exhausted"
  /\ active' = FALSE
  /\ stage' = [stage EXCEPT ![s] = "none"]
  /\ UNCHANGED <<epoch, lease, issued>>

-----------------------------------------------------------------------------
(* StateLease *)

\* check_identity against the controller's own identity.
CheckIdentity(s) ==
  /\ stage[s] = "held"
  /\ lease[s].epoch = epoch
  /\ ~lease[s].closed

RequireRead(s, start, end) ==
  /\ ~lease[s].closed
  /\ start <= end
  /\ end <= lease[s].processed

StartPrefill(s, tokens) ==
  /\ stage[s] = "held"
  /\ lease[s].phase = "Fresh"
  /\ tokens # 0
  /\ tokens <= Capacity
  /\ lease' = [lease EXCEPT ![s].prompt = tokens, ![s].phase = "Prefill"]
  /\ UNCHANGED <<active, epoch, stage, issued>>

\* Mutant: the phase's limit is not compared, only the capacity.
BugFitsNoLimit(l, start, count, limit) ==
  /\ ~l.closed /\ l.pending = NoWrite /\ count # 0
  /\ start = l.processed
  /\ start + count <= Capacity

\* Mutant: a second prepare replaces the pending write.
BugFitsOverPending(l, start, count, limit) ==
  /\ ~l.closed /\ count # 0
  /\ start = l.processed
  /\ start + count <= limit
  /\ start + count <= Capacity

\* Mutant: the start of the write is compared where its end is meant.
BugFitsStart(l, start, count, limit) ==
  /\ ~l.closed /\ l.pending = NoWrite /\ count # 0
  /\ start = l.processed
  /\ start <= limit /\ start <= Capacity

\* The guard of StateLease::prepare, and the write it returns when it holds.
Fits(l, start, count, limit) ==
  /\ ~l.closed
  /\ l.pending = NoWrite
  /\ count # 0
  /\ start = l.processed
  /\ start + count <= limit
  /\ start + count <= Capacity

Prepare(s, start, count, phase) ==
  LET w == [epoch |-> lease[s].epoch, start |-> start, count |-> count,
            phase |-> phase]
  IN  /\ lease' = [lease EXCEPT ![s].phase = phase, ![s].pending = w]
      /\ issued' = issued \cup {w}
      /\ UNCHANGED <<active, epoch, stage>>

PreparePrefillChunk(s, start, count) ==
  /\ stage[s] = "held"
  /\ lease[s].phase = "Prefill"
  /\ Fits(lease[s], start, count, lease[s].prompt)
  /\ Prepare(s, start, count, "Prefill")

\* The phase goes back to Ready when prepare refuses: no step.
PrepareDecode(s, start) ==
  /\ stage[s] = "held"
  /\ lease[s].phase = "Ready"
  /\ Fits(lease[s], start, 1, Capacity)
  /\ Prepare(s, start, 1, "Decode")

\* A caller may present any write it was ever given, to any lease.
CommitAccepts(l, w) ==
  /\ l.pending = w
  /\ w.epoch = l.epoch
  /\ ~l.closed

Committed(l, w) ==
  LET processed == w.start + w.count
  IN  [l EXCEPT !.processed = processed,
                !.pending = NoWrite,
                !.phase = IF l.phase = "Decode" \/ processed = l.prompt
                            THEN "Ready" ELSE l.phase]

Commit(s, w) ==
  /\ stage[s] = "held"
  /\ CommitAccepts(lease[s], w)
  /\ lease' = [lease EXCEPT ![s] = Committed(lease[s], w)]
  /\ UNCHANGED <<active, epoch, stage, issued>>

\* Mutant: closing takes the prompt off the prefix instead of clearing it.
BugClosedAs(l, phase) ==
  [l EXCEPT !.phase = phase, !.processed = @ - l.prompt, !.pending = NoWrite,
            !.closed = TRUE]

ClosedAs(l, phase) ==
  [l EXCEPT !.phase = phase, !.processed = 0, !.pending = NoWrite,
            !.closed = TRUE]

Finish(s) ==
  /\ stage[s] = "held"
  /\ lease[s].phase = "Ready"
  /\ lease[s].pending = NoWrite
  /\ lease' = [lease EXCEPT ![s] = ClosedAs(lease[s], "Finished")]
  /\ active' = FALSE
  /\ UNCHANGED <<epoch, stage, issued>>

\* close returns at once on a closed lease, so a second abort is no step.
Abort(s) ==
  /\ Open(s)
  /\ lease' = [lease EXCEPT ![s] = ClosedAs(lease[s], "Aborted")]
  /\ active' = FALSE
  /\ UNCHANGED <<epoch, stage, issued>>

\* Mutant: the drop of a closed lease clears the flag a second time.
BugDropReleases(s) ==
  /\ stage[s] = "held"
  /\ stage' = [stage EXCEPT ![s] = "none"]
  /\ lease' = [lease EXCEPT ![s] = ClosedAs(lease[s], "Aborted")]
  /\ active' = FALSE
  /\ UNCHANGED <<epoch, issued>>

\* Drop for StateLease: an open lease is aborted first.
Drop(s) ==
  /\ stage[s] = "held"
  /\ stage' = [stage EXCEPT ![s] = "none"]
  /\ IF lease[s].closed
       THEN UNCHANGED <<lease, active>>
       ELSE /\ lease' = [lease EXCEPT ![s] = ClosedAs(lease[s], "Aborted")]
            /\ active' = FALSE
  /\ UNCHANGED <<epoch, issued>>

-----------------------------------------------------------------------------
Next ==
  \E s \in Slots :
    \/ BeginClaim(s)
    \/ BeginEpoch(s)
    \/ BeginExhausted(s)
    \/ \E n \in Positions : StartPrefill(s, n)
    \/ \E from, n \in Positions : PreparePrefillChunk(s, from, n)
    \/ \E from \in Positions : PrepareDecode(s, from)
    \/ \E w \in issued : Commit(s, w)
    \/ Finish(s)
    \/ Abort(s)
    \/ Drop(s)

Spec == Init /\ [][Next]_vars

\* begin does not block, and Rust drops every lease a request holds when the
\* request ends: nothing else is assumed to happen.
Fairness ==
  \A s \in Slots : /\ WF_vars(BeginEpoch(s))
                   /\ WF_vars(BeginExhausted(s))
                   /\ WF_vars(Drop(s))

FairSpec == Spec /\ Fairness

-----------------------------------------------------------------------------
(* Properties *)

\* Type invariant of the controller and of every slot.
TypeOK ==
  /\ active \in BOOLEAN
  /\ epoch \in Nat
  /\ stage \in [Slots -> Stage]
  /\ lease \in [Slots -> Lease]
  /\ issued \subseteq StateWrite

\* A slot that has won the compare_exchange and not given it back yet.
Owns(s) == stage[s] \in {"claimed", "exhausted"} \/ Open(s)

\* The active flag is set exactly while one slot owns the store: two threads
\* racing through begin, finish, abort and drop never both own it, and no
\* path (the overflow path and the drop of a closed lease included) leaves
\* the flag behind or clears it under a later owner.
ExclusiveOwner ==
  /\ active <=> \E s \in Slots : Owns(s)
  /\ \A s, t \in Slots : Owns(s) /\ Owns(t) => s = t

\* The one open lease is the one check_identity accepts, although the epoch
\* is bumped in a step of its own after the flag is taken.
OpenLeaseIsCurrent == \A s \in Slots : Open(s) => CheckIdentity(s)

\* What the phase says about the committed prefix and the pending write: a
\* lease leaves prefill only with its whole prompt committed, a pending write
\* starts where the prefix ends and stays inside prompt (prefill) or capacity
\* (decode), and a closed lease keeps neither.
PrefixOK(l) ==
  /\ l.processed <= Capacity
  /\ l.prompt <= Capacity
  /\ l.closed <=> l.phase \in {"Finished", "Aborted"}
  /\ l.phase \in {"Fresh", "Finished", "Aborted"} =>
       l.processed = 0 /\ l.pending = NoWrite
  /\ l.phase = "Prefill" => l.processed < l.prompt
  /\ l.phase \in {"Ready", "Decode"} => l.prompt \in 1 .. l.processed
  /\ l.phase = "Ready" => l.pending = NoWrite
  /\ l.phase = "Decode" => l.pending # NoWrite
  /\ l.pending # NoWrite =>
       /\ l.pending.epoch = l.epoch
       /\ l.pending.phase = l.phase
       /\ l.pending.start = l.processed
       /\ l.pending.count # 0
       /\ l.pending.start + l.pending.count
            <= (IF l.phase = "Prefill" THEN l.prompt ELSE Capacity)

CommittedPrefixOK == \A s \in Slots : stage[s] = "held" => PrefixOK(lease[s])

\* A write token is never handed out twice, by any lease of the controller:
\* with Commit's equality test this makes every token good for one commit,
\* however long a caller keeps a copy of it.
TokensAreFresh ==
  [][\A s \in Slots :
       lease'[s].pending \notin {NoWrite, lease[s].pending} =>
         lease'[s].pending \notin issued]_vars

\* The KV store always becomes free again: neither the epoch overflow nor any
\* order of aborts, finishes and drops leaves it marked active for ever.
StoreIsReleased == active ~> ~active

\* The contract the rest of the program relies on.
Holder == IF \E s \in Slots : Open(s)
            THEN CHOOSE s \in Slots : Open(s)
            ELSE NoHolder

Prefix == IF \E s \in Slots : Open(s) THEN lease[Holder].processed ELSE 0

Contract == INSTANCE CommittedPrefix
              WITH holder <- Holder, generation <- epoch, prefix <- Prefix

\* The leases implement the committed-prefix contract.
ContractSpec == Contract!Spec
=============================================================================
