-------------------------- MODULE StateLease_proofs --------------------------
(***************************************************************************)
(* Proofs about StateLease for every number of slots, every capacity and   *)
(* every width of the epoch counter.                                       *)
(***************************************************************************)
EXTENDS StateLease, TLAPS

-----------------------------------------------------------------------------
(* The inductive invariant *)

\* A held lease was given its epoch by the controller, and an open one has
\* the controller's current epoch.
EpochsOK ==
  \A s \in Slots : stage[s] = "held" =>
    /\ lease[s].epoch <= epoch
    /\ Open(s) => lease[s].epoch = epoch

\* What is known of a write handed out under epoch e when the lease l of that
\* epoch is open: it is the pending one, or it lies inside the prefix.
TokenOK(w, l) ==
  w.epoch = l.epoch => w = l.pending \/ w.start + w.count <= l.processed

TokensOK ==
  /\ \A w \in issued : w.epoch <= epoch /\ w.count # 0
  /\ \A s \in Slots : Open(s) => \A w \in issued : TokenOK(w, lease[s])

IInv ==
  /\ TypeOK
  /\ ExclusiveOwner
  /\ EpochsOK
  /\ CommittedPrefixOK
  /\ TokensOK

-----------------------------------------------------------------------------
LEMMA NoWriteType == NoWrite \in StateWrite
  BY DEF NoWrite, StateWrite, Phase

LEMMA FreshLeaseType == ASSUME NEW e \in Nat PROVE FreshLease(e) \in Lease
  BY NoWriteType DEF FreshLease, Lease, Phase

LEMMA InitInv == Init => IInv
<1> SUFFICES ASSUME Init PROVE IInv
  OBVIOUS
<1>1. TypeOK
  BY FreshLeaseType DEF Init, TypeOK, Stage
<1>2. \A s \in Slots : stage[s] = "none"
  BY DEF Init
<1>3. QED
  BY <1>1, <1>2 DEF Init, IInv, ExclusiveOwner, Owns, Open, EpochsOK,
     CommittedPrefixOK, TokensOK

-----------------------------------------------------------------------------
(* begin *)

LEMMA BeginClaimInv ==
  ASSUME IInv, NEW s \in Slots, BeginClaim(s) PROVE IInv'
<1> USE DEF IInv
<1>1. TypeOK'
  BY DEF BeginClaim, TypeOK, Stage
<1>2. \A t \in Slots : Open(t)' <=> Open(t)
  BY DEF BeginClaim, Open, TypeOK
<1>3. ExclusiveOwner'
  BY <1>2 DEF BeginClaim, ExclusiveOwner, Owns, TypeOK
<1>4. \A t \in Slots : (stage[t] = "held")' <=> stage[t] = "held"
  BY DEF BeginClaim, TypeOK
<1>5. QED
  BY <1>1, <1>2, <1>3, <1>4
     DEF BeginClaim, EpochsOK, CommittedPrefixOK, TokensOK

LEMMA BeginEpochInv ==
  ASSUME IInv, NEW s \in Slots, BeginEpoch(s) PROVE IInv'
<1> USE DEF IInv
<1>1. CASE epoch < EpochMax /\ epoch' = epoch + 1
           /\ lease' = [lease EXCEPT ![s] = FreshLease(epoch + 1)]
           /\ stage' = [stage EXCEPT ![s] = "held"]
           /\ UNCHANGED <<active, issued>> /\ stage[s] = "claimed"
  <2>1. TypeOK'
    BY <1>1, FreshLeaseType DEF TypeOK, Stage
  <2>2. lease'[s] = FreshLease(epoch + 1) /\ stage'[s] = "held"
    BY <1>1 DEF TypeOK
  <2>3. \A t \in Slots \ {s} : lease'[t] = lease[t] /\ stage'[t] = stage[t]
    BY <1>1 DEF TypeOK
  <2>4. \A t \in Slots : t # s => ~Owns(t)
    BY <1>1 DEF ExclusiveOwner, Owns
  <2>5. \A t \in Slots : t # s => ~Open(t)'
    BY <2>3, <2>4 DEF Owns, Open
  <2>6. ExclusiveOwner'
    BY <1>1, <2>2, <2>3, <2>4, <2>5
       DEF ExclusiveOwner, Owns, Open, FreshLease
  <2>7. EpochsOK'
    BY <1>1, <2>2, <2>3, <2>5 DEF EpochsOK, FreshLease, TypeOK, Lease, Open
  <2>8. CommittedPrefixOK'
    BY <2>2, <2>3, CapacityPos
       DEF CommittedPrefixOK, PrefixOK, FreshLease, NoWrite
  <2>9. TokensOK'
    BY <1>1, <2>2, <2>5
       DEF TokensOK, TokenOK, FreshLease, TypeOK, StateWrite
  <2>10. QED
    BY <2>1, <2>6, <2>7, <2>8, <2>9
<1>2. CASE /\ stage' = [stage EXCEPT ![s] = "exhausted"]
           /\ UNCHANGED <<epoch, lease, active, issued>>
           /\ stage[s] = "claimed"
  <2>1. TypeOK'
    BY <1>2 DEF TypeOK, Stage
  <2>2. \A t \in Slots : (Open(t)' <=> Open(t)) /\ (Owns(t)' <=> Owns(t))
    BY <1>2 DEF Owns, Open, TypeOK
  <2>3. \A t \in Slots : (stage[t] = "held")' <=> stage[t] = "held"
    BY <1>2 DEF TypeOK
  <2>4. QED
    BY <1>2, <2>1, <2>2, <2>3
       DEF ExclusiveOwner, EpochsOK, CommittedPrefixOK, TokensOK
<1>3. QED
  BY <1>1, <1>2 DEF BeginEpoch

LEMMA BeginExhaustedInv ==
  ASSUME IInv, NEW s \in Slots, BeginExhausted(s) PROVE IInv'
<1> USE DEF IInv
<1>1. TypeOK'
  BY DEF BeginExhausted, TypeOK, Stage
<1>2. \A t \in Slots : Open(t)' <=> Open(t)
  BY DEF BeginExhausted, Open, TypeOK
<1>3. \A t \in Slots : t # s => ~Owns(t) /\ ~Owns(t)'
  BY DEF BeginExhausted, Owns, Open, ExclusiveOwner, TypeOK
<1>4. ~Owns(s)'
  BY DEF BeginExhausted, Owns, Open, TypeOK
<1>5. ExclusiveOwner'
  BY <1>3, <1>4 DEF BeginExhausted, ExclusiveOwner
<1>6. \A t \in Slots : (stage[t] = "held")' <=> stage[t] = "held"
  BY DEF BeginExhausted, TypeOK
<1>7. QED
  BY <1>1, <1>2, <1>5, <1>6
     DEF BeginExhausted, EpochsOK, CommittedPrefixOK, TokensOK

-----------------------------------------------------------------------------
(* A step of one held, open lease that keeps it held and open *)

\* What such a step has to show about the lease l it leaves behind and the
\* writes it adds; everything else of the invariant follows.
LEMMA OpenLeaseStep ==
  ASSUME IInv, NEW s \in Slots, Open(s),
         NEW l \in Lease, ~l.closed, l.epoch = lease[s].epoch, PrefixOK(l),
         lease' = [lease EXCEPT ![s] = l],
         issued' \subseteq StateWrite,
         \A w \in issued' : /\ w.epoch <= epoch
                            /\ w.count # 0
                            /\ TokenOK(w, l),
         UNCHANGED <<active, epoch, stage>>
  PROVE  IInv'
<1> USE DEF IInv
<1>1. TypeOK'
  BY DEF TypeOK
<1>2. lease'[s] = l /\ \A t \in Slots \ {s} : lease'[t] = lease[t]
  BY DEF TypeOK
<1>3. \A t \in Slots : (Open(t)' <=> Open(t)) /\ (Owns(t)' <=> Owns(t))
  BY <1>2 DEF Open, Owns
<1>4. \A t \in Slots : Open(t) => t = s
  BY DEF ExclusiveOwner, Owns
<1>5. ExclusiveOwner'
  BY <1>3 DEF ExclusiveOwner
<1>6. EpochsOK'
  BY <1>2, <1>3 DEF EpochsOK
<1>7. CommittedPrefixOK'
  BY <1>2 DEF CommittedPrefixOK
<1>8. TokensOK'
  BY <1>2, <1>3, <1>4 DEF TokensOK
<1>9. QED
  BY <1>1, <1>5, <1>6, <1>7, <1>8

LEMMA StartPrefillInv ==
  ASSUME IInv, NEW s \in Slots, NEW n \in Positions, StartPrefill(s, n)
  PROVE  IInv'
<1> USE DEF IInv
<1> DEFINE l == [lease[s] EXCEPT !.prompt = n, !.phase = "Prefill"]
<1>1. lease[s] \in Lease /\ n \in Nat
  BY PositionsNat DEF TypeOK
<1>2. /\ stage[s] = "held" /\ lease[s].phase = "Fresh" /\ n # 0
      /\ n <= Capacity /\ UNCHANGED <<active, epoch, stage, issued>>
  BY DEF StartPrefill
<1>3. PrefixOK(lease[s]) /\ Open(s)
  BY <1>2 DEF CommittedPrefixOK, PrefixOK, Open
<1>4. l \in Lease /\ ~l.closed /\ l.epoch = lease[s].epoch
      /\ l.pending = lease[s].pending /\ l.processed = lease[s].processed
      /\ l.phase = "Prefill" /\ l.prompt = n
  BY <1>1, <1>3 DEF Lease, Phase, Open
<1>5. PrefixOK(l)
  BY <1>1, <1>2, <1>3, <1>4, CapacityPos DEF PrefixOK, Lease
<1>6. lease' = [lease EXCEPT ![s] = l]
  BY <1>1 DEF StartPrefill, TypeOK, Lease
<1>7. \A w \in issued : w.epoch <= epoch /\ w.count # 0 /\ TokenOK(w, l)
  BY <1>3, <1>4 DEF TokensOK, TokenOK
<1> HIDE DEF l
<1>8. QED
  BY <1>2, <1>3, <1>4, <1>5, <1>6, <1>7, OpenLeaseStep DEF TypeOK

\* Prepare, from a lease with no pending write whose prefix the write extends.
LEMMA PrepareInv ==
  ASSUME IInv, NEW s \in Slots, Open(s), NEW from \in Nat, NEW n \in Nat,
         NEW p \in {"Prefill", "Decode"},
         lease[s].phase = (IF p = "Prefill" THEN "Prefill" ELSE "Ready"),
         Fits(lease[s], from, n,
              IF p = "Prefill" THEN lease[s].prompt ELSE Capacity),
         Prepare(s, from, n, p)
  PROVE  IInv'
<1> USE DEF IInv
<1> DEFINE w0 == [epoch |-> lease[s].epoch, start |-> from, count |-> n,
                  phase |-> p]
           l == [lease[s] EXCEPT !.phase = p, !.pending = w0]
<1>1. lease[s] \in Lease /\ PrefixOK(lease[s]) /\ lease[s].epoch = epoch
  BY DEF TypeOK, CommittedPrefixOK, Open, EpochsOK
<1>2. w0 \in StateWrite /\ w0 # NoWrite
  BY <1>1 DEF StateWrite, Lease, Phase, Fits, NoWrite
<1>3. l \in Lease /\ ~l.closed /\ l.epoch = lease[s].epoch
      /\ l.pending = w0 /\ l.processed = lease[s].processed
      /\ l.phase = p /\ l.prompt = lease[s].prompt /\ l.closed = lease[s].closed
  BY <1>1, <1>2 DEF Lease, Phase, Open
<1>4. PrefixOK(l)
  BY <1>1, <1>2, <1>3, CapacityPos DEF PrefixOK, Lease, Fits
<1>5. lease' = [lease EXCEPT ![s] = l] /\ issued' = issued \cup {w0}
      /\ UNCHANGED <<active, epoch, stage>>
  BY <1>1 DEF Prepare, TypeOK, Lease
<1>6. \A w \in issued : TokenOK(w, l) /\ w.epoch <= epoch /\ w.count # 0
  <2> SUFFICES ASSUME NEW w \in issued PROVE TokenOK(w, l)
    BY DEF TokensOK
  <2>1. w.count # 0 /\ TokenOK(w, lease[s]) /\ w \in StateWrite
    BY DEF TokensOK, TypeOK
  <2>2. w # NoWrite
    BY <2>1 DEF NoWrite
  <2>3. QED
    BY <2>1, <2>2, <1>3 DEF TokenOK, Fits
<1>7. TokenOK(w0, l) /\ w0.epoch <= epoch /\ w0.count # 0
  BY <1>1, <1>3 DEF TokenOK, Fits, TypeOK
<1>8. issued' \subseteq StateWrite
  BY <1>2, <1>5 DEF TypeOK
<1> HIDE DEF l, w0
<1>9. QED
  BY <1>3, <1>4, <1>5, <1>6, <1>7, <1>8, OpenLeaseStep

LEMMA PreparePrefillChunkInv ==
  ASSUME IInv, NEW s \in Slots, NEW from \in Positions, NEW n \in Positions,
         PreparePrefillChunk(s, from, n)
  PROVE  IInv'
  BY PrepareInv, PositionsNat DEF PreparePrefillChunk, Open, Fits

LEMMA PrepareDecodeInv ==
  ASSUME IInv, NEW s \in Slots, NEW from \in Positions, PrepareDecode(s, from)
  PROVE  IInv'
  BY PrepareInv, PositionsNat DEF PrepareDecode, Open, Fits

LEMMA CommitInv ==
  ASSUME IInv, NEW s \in Slots, NEW w \in issued, Commit(s, w)
  PROVE  IInv'
<1> USE DEF IInv
<1> DEFINE l == Committed(lease[s], w)
<1>1. /\ lease[s] \in Lease /\ w \in StateWrite /\ w.count # 0
      /\ stage[s] = "held" /\ lease[s].pending = w /\ ~lease[s].closed
      /\ PrefixOK(lease[s]) /\ Open(s)
  BY DEF TypeOK, TokensOK, Commit, CommitAccepts, CommittedPrefixOK, Open
<1>2. w # NoWrite /\ w.start + w.count \in Nat
  BY <1>1 DEF NoWrite, StateWrite
<1>3. /\ l \in Lease /\ ~l.closed /\ l.epoch = lease[s].epoch
      /\ l.closed = lease[s].closed
      /\ l.processed = w.start + w.count /\ l.pending = NoWrite
      /\ l.prompt = lease[s].prompt
      /\ l.phase = IF lease[s].phase = "Decode" \/ w.start + w.count = lease[s].prompt
                     THEN "Ready" ELSE lease[s].phase
  BY <1>1, <1>2, NoWriteType DEF Committed, Lease, Phase
<1>4. lease[s].phase \in {"Prefill", "Decode"}
  BY <1>1, <1>2 DEF PrefixOK, Lease, Phase
<1>5. PrefixOK(l)
  <2>1. CASE lease[s].phase = "Decode"
    BY <2>1, <1>1, <1>2, <1>3, CapacityPos DEF PrefixOK, Lease, StateWrite
  <2>2. CASE lease[s].phase = "Prefill"
    BY <2>2, <1>1, <1>2, <1>3, CapacityPos DEF PrefixOK, Lease, StateWrite
  <2>3. QED
    BY <2>1, <2>2, <1>4
<1>6. lease' = [lease EXCEPT ![s] = l]
      /\ UNCHANGED <<active, epoch, stage, issued>>
  BY DEF Commit
<1>7. \A v \in issued : TokenOK(v, l) /\ v.epoch <= epoch /\ v.count # 0
  <2> SUFFICES ASSUME NEW v \in issued PROVE TokenOK(v, l)
    BY DEF TokensOK
  <2>1. TokenOK(v, lease[s]) /\ v \in StateWrite
    BY <1>1 DEF TokensOK, TypeOK
  <2>2. w.start = lease[s].processed
    BY <1>1, <1>2 DEF PrefixOK
  <2>3. QED
    BY <2>1, <2>2, <1>1, <1>2, <1>3 DEF TokenOK, Lease, StateWrite
<1> HIDE DEF l
<1>8. QED
  BY <1>1, <1>3, <1>5, <1>6, <1>7, OpenLeaseStep DEF TypeOK

-----------------------------------------------------------------------------
(* Closing a lease: finish, abort and drop *)

LEMMA ClosedLeaseType ==
  ASSUME NEW l \in Lease, NEW p \in {"Finished", "Aborted"}
  PROVE  /\ ClosedAs(l, p) \in Lease
         /\ ClosedAs(l, p).closed
         /\ ClosedAs(l, p).epoch = l.epoch
         /\ PrefixOK(l) => PrefixOK(ClosedAs(l, p))
<1>1. ClosedAs(l, p) \in Lease
  BY NoWriteType DEF ClosedAs, Lease, Phase
<1>2. /\ ClosedAs(l, p).closed = TRUE /\ ClosedAs(l, p).epoch = l.epoch
      /\ ClosedAs(l, p).phase = p /\ ClosedAs(l, p).processed = 0
      /\ ClosedAs(l, p).pending = NoWrite /\ ClosedAs(l, p).prompt = l.prompt
  BY DEF ClosedAs, Lease
<1>3. QED
  BY <1>1, <1>2, CapacityPos DEF PrefixOK

\* The slot may keep the closed lease (finish, abort) or be emptied (drop).
LEMMA CloseInv ==
  ASSUME IInv, NEW s \in Slots, Open(s), NEW p \in {"Finished", "Aborted"},
         lease' = [lease EXCEPT ![s] = ClosedAs(lease[s], p)],
         active' = FALSE,
         \/ stage' = stage
         \/ stage' = [stage EXCEPT ![s] = "none"],
         UNCHANGED <<epoch, issued>>
  PROVE  IInv'
<1> USE DEF IInv
<1>1. lease[s] \in Lease
  BY DEF TypeOK
<1>2. TypeOK'
  BY <1>1, ClosedLeaseType DEF TypeOK, Stage
<1>3. /\ lease'[s] = ClosedAs(lease[s], p) /\ stage'[s] \in {"held", "none"}
      /\ \A t \in Slots \ {s} : lease'[t] = lease[t] /\ stage'[t] = stage[t]
  BY DEF TypeOK, Open
<1>4. \A t \in Slots \ {s} : ~Owns(t)
  BY DEF ExclusiveOwner, Owns
<1>5. \A t \in Slots : ~Owns(t)' /\ ~Open(t)'
  BY <1>1, <1>3, <1>4, ClosedLeaseType DEF Owns, Open
<1>6. ExclusiveOwner'
  BY <1>5 DEF ExclusiveOwner
<1>7. EpochsOK'
  BY <1>1, <1>3, <1>5, ClosedLeaseType DEF EpochsOK, Open
<1>8. CommittedPrefixOK'
  BY <1>1, <1>3, ClosedLeaseType DEF CommittedPrefixOK, Open
<1>9. TokensOK'
  BY <1>5 DEF TokensOK
<1>10. QED
  BY <1>2, <1>6, <1>7, <1>8, <1>9

LEMMA FinishInv ==
  ASSUME IInv, NEW s \in Slots, Finish(s) PROVE IInv'
<1>1. Open(s)
  BY DEF Finish, IInv, CommittedPrefixOK, PrefixOK, Open
<1>2. QED
  BY <1>1, CloseInv DEF Finish

LEMMA AbortInv ==
  ASSUME IInv, NEW s \in Slots, Abort(s) PROVE IInv'
  BY CloseInv DEF Abort

LEMMA DropInv ==
  ASSUME IInv, NEW s \in Slots, Drop(s) PROVE IInv'
<1>1. CASE ~lease[s].closed
  BY <1>1, CloseInv DEF Drop, Open
<1>2. CASE lease[s].closed
  <2> USE DEF IInv
  <2>1. /\ stage[s] = "held" /\ stage' = [stage EXCEPT ![s] = "none"]
        /\ UNCHANGED <<lease, active, epoch, issued>>
    BY <1>2 DEF Drop
  <2>2. TypeOK'
    BY <2>1 DEF TypeOK, Stage
  <2>3. \A t \in Slots : (Open(t)' <=> Open(t)) /\ (Owns(t)' <=> Owns(t))
    BY <1>2, <2>1 DEF Open, Owns, TypeOK
  <2>4. \A t \in Slots : stage'[t] = "held" => stage[t] = "held"
    BY <2>1 DEF TypeOK
  <2>5. ExclusiveOwner'
    BY <2>1, <2>3 DEF ExclusiveOwner
  <2>6. EpochsOK' /\ CommittedPrefixOK' /\ TokensOK'
    BY <2>1, <2>3, <2>4 DEF EpochsOK, CommittedPrefixOK, TokensOK
  <2>7. QED
    BY <2>2, <2>5, <2>6
<1>3. QED
  BY <1>1, <1>2

-----------------------------------------------------------------------------
LEMMA StutterInv == ASSUME IInv, UNCHANGED vars PROVE IInv'
  BY DEF vars, IInv, TypeOK, ExclusiveOwner, Owns, Open, EpochsOK,
         CommittedPrefixOK, TokensOK

LEMMA NextInv == ASSUME IInv, [Next]_vars PROVE IInv'
<1>1. CASE UNCHANGED vars
  BY <1>1, StutterInv
<1>2. CASE Next
  <2> PICK s \in Slots :
        \/ BeginClaim(s)
        \/ BeginEpoch(s)
        \/ BeginExhausted(s)
        \/ \E n \in Positions : StartPrefill(s, n)
        \/ \E from, n \in Positions : PreparePrefillChunk(s, from, n)
        \/ \E from \in Positions : PrepareDecode(s, from)
        \/ \E w \in issued : Commit(s, w)
        \/ Finish(s)
        \/ Abort(s)
        \/ Drop(s)
    BY <1>2 DEF Next
  <2>1. QED
    BY BeginClaimInv, BeginEpochInv, BeginExhaustedInv, StartPrefillInv,
       PreparePrefillChunkInv, PrepareDecodeInv, CommitInv, FinishInv,
       AbortInv, DropInv
<1>3. QED
  BY <1>1, <1>2

LEMMA Invariance == Spec => []IInv
  BY InitInv, NextInv, PTL DEF Spec

\* Type correctness of the controller and every lease.
THEOREM TypeCorrect == Spec => []TypeOK
<1>1. IInv => TypeOK
  BY DEF IInv
<1>2. QED
  BY <1>1, Invariance, PTL

\* At every moment the active flag is set if and only if exactly one slot
\* owns the KV store, for any number of threads racing through begin, finish,
\* abort and drop.
THEOREM Exclusive == Spec => []ExclusiveOwner
<1>1. IInv => ExclusiveOwner
  BY DEF IInv
<1>2. QED
  BY <1>1, Invariance, PTL

\* The open lease always passes check_identity.
THEOREM OpenIsCurrent == Spec => []OpenLeaseIsCurrent
<1>1. IInv => OpenLeaseIsCurrent
  BY DEF IInv, OpenLeaseIsCurrent, EpochsOK, CheckIdentity, Open
<1>2. QED
  BY <1>1, Invariance, PTL

\* Every held lease keeps its committed prefix and its pending write in the
\* relation its phase promises.
THEOREM PrefixCorrect == Spec => []CommittedPrefixOK
<1>1. IInv => CommittedPrefixOK
  BY DEF IInv
<1>2. QED
  BY <1>1, Invariance, PTL
-----------------------------------------------------------------------------
(* Write tokens *)

LEMMA PrepareFresh ==
  ASSUME IInv, NEW s \in Slots, NEW from \in Nat, NEW n \in Nat, NEW p,
         NEW limit, Fits(lease[s], from, n, limit), stage[s] = "held"
  PROVE  [epoch |-> lease[s].epoch, start |-> from, count |-> n, phase |-> p]
           \notin issued
<1> DEFINE w0 == [epoch |-> lease[s].epoch, start |-> from, count |-> n,
                  phase |-> p]
<1>1. SUFFICES ASSUME w0 \in issued PROVE FALSE
  OBVIOUS
<1>2. Open(s)
  BY DEF Fits, Open
<1>3. w0 = lease[s].pending \/ from + n <= lease[s].processed
  BY <1>1, <1>2 DEF IInv, TokensOK, TokenOK
<1>4. n # 0 /\ from = lease[s].processed /\ lease[s].pending = NoWrite
  BY DEF Fits
<1>5. w0 # NoWrite
  BY <1>4 DEF NoWrite
<1>6. QED
  BY <1>3, <1>4, <1>5

LEMMA FreshStep ==
  ASSUME IInv, [Next]_vars
  PROVE  [\A s \in Slots :
            lease'[s].pending \notin {NoWrite, lease[s].pending} =>
              lease'[s].pending \notin issued]_vars
<1> DEFINE Goal(t) == lease'[t].pending \notin {NoWrite, lease[t].pending} =>
                        lease'[t].pending \notin issued
<1> SUFFICES ASSUME Next, NEW t \in Slots PROVE Goal(t)
  OBVIOUS
<1>1. PICK s \in Slots :
        \/ BeginClaim(s)
        \/ BeginEpoch(s)
        \/ BeginExhausted(s)
        \/ \E n \in Positions : StartPrefill(s, n)
        \/ \E from, n \in Positions : PreparePrefillChunk(s, from, n)
        \/ \E from \in Positions : PrepareDecode(s, from)
        \/ \E w \in issued : Commit(s, w)
        \/ Finish(s)
        \/ Abort(s)
        \/ Drop(s)
  BY DEF Next
<1>2. lease \in [Slots -> Lease] /\ lease[t] \in Lease /\ lease[s] \in Lease
  BY DEF IInv, TypeOK
<1>3. CASE BeginClaim(s) \/ BeginExhausted(s)
  BY <1>3 DEF BeginClaim, BeginExhausted
<1>4. CASE BeginEpoch(s)
  BY <1>2, <1>4 DEF BeginEpoch, FreshLease
<1>5. CASE \E n \in Positions : StartPrefill(s, n)
  BY <1>2, <1>5 DEF StartPrefill, Lease
<1>6. ASSUME NEW from \in Positions, NEW n \in Positions,
             PreparePrefillChunk(s, from, n)
      PROVE  Goal(t)
  <2>1. from \in Nat /\ n \in Nat /\ stage[s] = "held"
        /\ Fits(lease[s], from, n, lease[s].prompt)
    BY <1>6, PositionsNat DEF PreparePrefillChunk
  <2>2. [epoch |-> lease[s].epoch, start |-> from, count |-> n,
         phase |-> "Prefill"] \notin issued
    BY <2>1, PrepareFresh
  <2>3. t # s => lease'[t] = lease[t]
    BY <1>2, <1>6 DEF PreparePrefillChunk, Prepare
  <2>4. lease'[s].pending = [epoch |-> lease[s].epoch, start |-> from,
                             count |-> n, phase |-> "Prefill"]
    BY <1>2, <1>6 DEF PreparePrefillChunk, Prepare, Lease
  <2>5. QED
    BY <2>2, <2>3, <2>4
<1>7. ASSUME NEW from \in Positions, PrepareDecode(s, from) PROVE Goal(t)
  <2>1. from \in Nat /\ stage[s] = "held" /\ Fits(lease[s], from, 1, Capacity)
    BY <1>7, PositionsNat DEF PrepareDecode
  <2>2. [epoch |-> lease[s].epoch, start |-> from, count |-> 1,
         phase |-> "Decode"] \notin issued
    BY <2>1, PrepareFresh
  <2>3. t # s => lease'[t] = lease[t]
    BY <1>2, <1>7 DEF PrepareDecode, Prepare
  <2>4. lease'[s].pending = [epoch |-> lease[s].epoch, start |-> from,
                             count |-> 1, phase |-> "Decode"]
    BY <1>2, <1>7 DEF PrepareDecode, Prepare, Lease
  <2>5. QED
    BY <2>2, <2>3, <2>4
<1>8. CASE \E w \in issued : Commit(s, w)
  BY <1>2, <1>8 DEF Commit, Committed, Lease
<1>9. CASE Finish(s) \/ Abort(s) \/ Drop(s)
  <2>1. \A p : ClosedAs(lease[s], p).pending = NoWrite
    BY <1>2 DEF ClosedAs, Lease
  <2>2. \/ lease' = lease
        \/ lease' = [lease EXCEPT ![s] = ClosedAs(lease[s], "Finished")]
        \/ lease' = [lease EXCEPT ![s] = ClosedAs(lease[s], "Aborted")]
    BY <1>9 DEF Finish, Abort, Drop
  <2>3. QED
    BY <1>2, <2>1, <2>2
<1>10. QED
  BY <1>1, <1>3, <1>4, <1>5, <1>6, <1>7, <1>8, <1>9

\* No write token is ever handed out twice, for every run of the contract.
THEOREM TokensNeverReissued == Spec => TokensAreFresh
  BY Invariance, FreshStep, PTL DEF Spec, TokensAreFresh

-----------------------------------------------------------------------------
(* The leases implement the committed-prefix contract *)

LEMMA HolderIs ==
  ASSUME ExclusiveOwner, NEW s \in Slots, Open(s)
  PROVE  Holder = s /\ Prefix = lease[s].processed
<1>1. \A t \in Slots : Open(t) => t = s
  BY DEF ExclusiveOwner, Owns
<1>2. Holder = s
  BY <1>1 DEF Holder
<1>3. QED
  BY <1>2 DEF Prefix

LEMMA HolderNone ==
  ASSUME \A s \in Slots : ~Open(s) PROVE Holder = NoHolder /\ Prefix = 0
  BY DEF Holder, Prefix

\* The same two facts about the next state.
LEMMA HolderIsNext ==
  ASSUME ExclusiveOwner', NEW s \in Slots, Open(s)'
  PROVE  Holder' = s /\ Prefix' = lease'[s].processed
<1>1. \A t \in Slots : Open(t)' => t = s
  BY DEF ExclusiveOwner, Owns
<1>2. Holder' = s
  BY <1>1 DEF Holder
<1>3. QED
  BY <1>2 DEF Prefix

LEMMA HolderNoneNext ==
  ASSUME \A s \in Slots : ~Open(s)' PROVE Holder' = NoHolder /\ Prefix' = 0
  BY DEF Holder, Prefix

LEMMA ContractInit == Init => Contract!Init
<1> SUFFICES ASSUME Init PROVE Contract!Init
  OBVIOUS
<1>1. \A s \in Slots : ~Open(s)
  BY DEF Init, Open
<1>2. QED
  BY <1>1, HolderNone DEF Init, Contract!Init

\* A step that opens or closes no lease and moves no prefix is a stutter.
LEMMA SameHolder ==
  ASSUME IInv, IInv', UNCHANGED epoch,
         \A t \in Slots : /\ Open(t)' <=> Open(t)
                          /\ Open(t) => lease'[t].processed = lease[t].processed
  PROVE  UNCHANGED <<Holder, epoch, Prefix>>
<1>1. CASE \E s \in Slots : Open(s)
  <2> PICK s \in Slots : Open(s)
    BY <1>1
  <2>1. Open(s)' /\ lease'[s].processed = lease[s].processed
    OBVIOUS
  <2>2. QED
    BY <2>1, HolderIs, HolderIsNext DEF IInv
<1>2. CASE \A s \in Slots : ~Open(s)
  BY <1>2, HolderNone, HolderNoneNext
<1>3. QED
  BY <1>1, <1>2

LEMMA CloseReleases ==
  ASSUME IInv, NEW s \in Slots, Open(s), UNCHANGED epoch,
         \A t \in Slots : ~Open(t)'
  PROVE  Contract!Release(s)
  BY HolderIs, HolderNoneNext DEF IInv, Contract!Release

LEMMA ContractStep ==
  ASSUME IInv, IInv', Next PROVE [Contract!Next]_(Contract!vars)
<1>1. PICK s \in Slots :
        \/ BeginClaim(s)
        \/ BeginEpoch(s)
        \/ BeginExhausted(s)
        \/ \E n \in Positions : StartPrefill(s, n)
        \/ \E from, n \in Positions : PreparePrefillChunk(s, from, n)
        \/ \E from \in Positions : PrepareDecode(s, from)
        \/ \E w \in issued : Commit(s, w)
        \/ Finish(s)
        \/ Abort(s)
        \/ Drop(s)
  BY DEF Next
<1>2. /\ lease \in [Slots -> Lease] /\ lease[s] \in Lease
      /\ stage \in [Slots -> Stage]
  BY DEF IInv, TypeOK
<1>3. \A t \in Slots : Owns(s) /\ t # s => ~Owns(t)
  BY DEF IInv, ExclusiveOwner
<1> DEFINE Stutter == UNCHANGED <<Holder, epoch, Prefix>>
<1>4. CASE BeginClaim(s) \/ BeginExhausted(s)
  <2>1. \A t \in Slots : /\ Open(t)' <=> Open(t)
                         /\ lease' = lease /\ epoch' = epoch
    BY <1>2, <1>4 DEF BeginClaim, BeginExhausted, Open
  <2>2. Stutter
    BY <2>1, SameHolder
  <2>3. QED
    BY <2>2 DEF Contract!vars
<1>5. CASE BeginEpoch(s)
  <2>1. CASE epoch = EpochMax
    <3>1. epoch' = epoch /\ lease' = lease
          /\ stage' = [stage EXCEPT ![s] = "exhausted"] /\ stage[s] = "claimed"
      BY <1>5, <2>1, EpochMaxNat DEF BeginEpoch
    <3>2. \A t \in Slots : Open(t)' <=> Open(t)
      BY <1>2, <3>1 DEF Open
    <3>3. Stutter
      BY <3>1, <3>2, SameHolder
    <3>4. QED
      BY <3>3 DEF Contract!vars
  <2>2. CASE epoch # EpochMax
    <3>1. /\ epoch' = epoch + 1 /\ stage[s] = "claimed"
          /\ lease' = [lease EXCEPT ![s] = FreshLease(epoch + 1)]
          /\ stage' = [stage EXCEPT ![s] = "held"]
      BY <1>5, <2>2 DEF BeginEpoch
    <3>2. \A t \in Slots : ~Open(t)
      BY <1>3, <3>1 DEF Owns, Open
    <3>3. Open(s)' /\ lease'[s].processed = 0
      BY <1>2, <3>1 DEF Open, FreshLease
    <3>4. Holder = NoHolder /\ Holder' = s /\ Prefix' = 0
      BY <3>2, <3>3, HolderNone, HolderIsNext DEF IInv
    <3>5. Contract!Acquire(s)
      BY <3>1, <3>4 DEF Contract!Acquire
    <3>6. QED
      BY <3>5 DEF Contract!Next
  <2>3. QED
    BY <2>1, <2>2
<1>6. CASE \/ \E n \in Positions : StartPrefill(s, n)
           \/ \E from, n \in Positions : PreparePrefillChunk(s, from, n)
           \/ \E from \in Positions : PrepareDecode(s, from)
  <2>1. /\ UNCHANGED <<epoch, stage>>
        /\ \E l \in {lease'[s]} :
             /\ lease' = [lease EXCEPT ![s] = l]
             /\ l.closed = lease[s].closed
             /\ l.processed = lease[s].processed
    <3>1. ASSUME NEW n \in Positions, StartPrefill(s, n) PROVE <2>1!2
      BY <1>2, <3>1 DEF StartPrefill, Lease
    <3>2. ASSUME NEW from, NEW n, NEW p, Prepare(s, from, n, p) PROVE <2>1!2
      BY <1>2, <3>2 DEF Prepare, Lease
    <3>3. QED
      BY <1>6, <3>1, <3>2
         DEF StartPrefill, PreparePrefillChunk, PrepareDecode, Prepare
  <2>2. Stutter
    BY <2>1, SameHolder DEF Open
  <2>3. QED
    BY <2>2 DEF Contract!vars
<1>7. ASSUME NEW w \in issued, Commit(s, w) PROVE Contract!Extend(s)
  <2>1. /\ w \in StateWrite /\ w.count # 0 /\ Open(s) /\ lease[s].pending = w
        /\ PrefixOK(lease[s]) /\ UNCHANGED <<epoch, stage>>
    BY <1>7 DEF IInv, TypeOK, TokensOK, Commit, CommitAccepts, Open,
                CommittedPrefixOK
  <2>2. w # NoWrite /\ w.start = lease[s].processed
        /\ w.start + w.count <= Capacity
    BY <2>1, <1>2, CapacityPos DEF PrefixOK, NoWrite, Lease, StateWrite
  <2>3. lease'[s].processed = w.start + w.count /\ ~lease'[s].closed
    BY <1>2, <1>7, <2>1 DEF Commit, Committed, Lease, Open
  <2>4. Open(s)'
    BY <2>1, <2>3 DEF Open
  <2>5. Holder = s /\ Holder' = s /\ Prefix = lease[s].processed
        /\ Prefix' = w.start + w.count
    BY <2>1, <2>3, <2>4, HolderIs, HolderIsNext DEF IInv
  <2>6. Prefix' \in (Prefix + 1) .. Capacity
    BY <1>2, <2>1, <2>2, <2>5, CapacityPos DEF StateWrite, Lease
  <2>7. QED
    BY <2>1, <2>5, <2>6 DEF Contract!Extend
<1>8. CASE Finish(s) \/ Abort(s) \/ (Drop(s) /\ ~lease[s].closed)
  <2>1. Open(s) /\ epoch' = epoch
    BY <1>8 DEF Finish, Abort, Drop, Open, IInv, CommittedPrefixOK, PrefixOK
  <2>2. lease'[s].closed /\ \A t \in Slots \ {s} : lease'[t] = lease[t]
                                                /\ stage'[t] = stage[t]
    <3>1. \A p \in {"Finished", "Aborted"} : ClosedAs(lease[s], p).closed
      BY <1>2, ClosedLeaseType
    <3>2. \E p \in {"Finished", "Aborted"} :
            lease' = [lease EXCEPT ![s] = ClosedAs(lease[s], p)]
      BY <1>8 DEF Finish, Abort, Drop
    <3>3. stage' = stage \/ stage' = [stage EXCEPT ![s] = "none"]
      BY <1>8 DEF Finish, Abort, Drop
    <3>4. QED
      BY <1>2, <3>1, <3>2, <3>3
  <2>3. \A t \in Slots : ~Open(t)'
    BY <1>3, <2>1, <2>2 DEF Open, Owns
  <2>4. Contract!Release(s)
    BY <2>1, <2>3, CloseReleases
  <2>5. QED
    BY <2>4 DEF Contract!Next
<1>9. CASE Drop(s) /\ lease[s].closed
  <2>1. lease' = lease /\ epoch' = epoch /\ stage' = [stage EXCEPT ![s] = "none"]
    BY <1>9 DEF Drop
  <2>2. \A t \in Slots : Open(t)' <=> Open(t)
    BY <1>2, <1>9, <2>1 DEF Open
  <2>3. Stutter
    BY <2>1, <2>2, SameHolder
  <2>4. QED
    BY <2>3 DEF Contract!vars
<1>10. QED
  BY <1>1, <1>4, <1>5, <1>6, <1>7, <1>8, <1>9 DEF Contract!Next

\* Every behaviour of the leases is a behaviour of the committed-prefix
\* contract: one holder, contiguous growth within capacity, nothing kept
\* across a release.
THEOREM LeasesImplementContract == Spec => ContractSpec
<1>1. IInv /\ IInv' /\ [Next]_vars => [Contract!Next]_(Contract!vars)
  <2> SUFFICES ASSUME IInv, IInv', [Next]_vars
               PROVE  [Contract!Next]_(Contract!vars)
    OBVIOUS
  <2>1. CASE UNCHANGED vars
    <3>1. \A t \in Slots : (Open(t)' <=> Open(t)) /\ lease' = lease
      BY <2>1 DEF vars, Open
    <3>2. UNCHANGED <<Holder, epoch, Prefix>>
      BY <2>1, <3>1, SameHolder DEF vars
    <3>3. QED
      BY <3>2 DEF Contract!vars
  <2>2. QED
    BY <2>1, ContractStep
<1>2. QED
  BY <1>1, ContractInit, Invariance, PTL DEF Spec, ContractSpec, Contract!Spec
=============================================================================
