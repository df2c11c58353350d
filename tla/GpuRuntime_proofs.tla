--------------------------- MODULE GpuRuntime_proofs ---------------------------
(***************************************************************************)
(* Proofs about GpuRuntime for every number of threads and runtimes, every *)
(* capacity, chunk size and bound on the calls.                            *)
(*                                                                         *)
(* The leases are not proved about again: every step of the runtime is     *)
(* shown to be a step of StateLease or to leave the leases alone, and what *)
(* StateLease_proofs shows is used by name through the instance LP.        *)
(***************************************************************************)
EXTENDS GpuRuntime, TLAPS

LP == INSTANCE StateLease_proofs
       WITH Slots <- Threads, NoHolder <- Nobody, Positions <- 0 .. Capacity

-----------------------------------------------------------------------------
(* The inductive invariant *)

\* The program points at which a call holds the gate, holds the cache's lock
\* and is bound to its model.
InGate  == Pc \ {"idle", "gate"}
InKv    == {"epoch", "exhausted", "start", "chunk", "gpu", "seqlen"}
IsBound == {"forward", "chunk", "gpu", "seqlen", "sample", "wrapup", "reset",
            "unbind"}
InLease == IsBound \cup {"start", "drop"}

\* Who holds what can be read off the program counters.
LockOK(t) == LET c == call[t] IN
    /\ c.pc # "idle" => c.rt \in Runtimes
    /\ \A r \in Runtimes : gate[r] = t <=> c.pc \in InGate /\ c.rt = r
    /\ \A r \in Runtimes : bound[r] = t <=> c.pc \in IsBound /\ c.rt = r
    /\ kv.holder = t <=> c.pc \in InKv
    /\ stage[t] = "claimed"   <=> c.pc = "epoch"
    /\ stage[t] = "exhausted" <=> c.pc = "exhausted"
    /\ stage[t] = "held"      <=> c.pc \in InLease

LocksOK == \A t \in Threads : LockOK(t)

\* The context check has been passed.
Admitted(c) == c.limit > 0 /\ c.prompt + c.limit - 1 <= Capacity

\* What a running pass and its lease know of each other: the rows that are
\* left end where the streamed text ends.
PassOK(c, l) ==
  /\ ~l.closed /\ c.error = "none" /\ l.prompt = c.prompt
  /\ c.from = l.processed
  /\ c.from + c.left = c.prompt + c.text
  /\ c.text > 0 => c.left <= 1
  /\ c.pc = "forward" => c.left > 0 /\ (c.text = 0 => c.from = 0)
  /\ c.pc # "gpu" =>
       /\ l.pending = L!NoWrite
       /\ l.phase = IF c.text = 0 /\ c.left > 0 THEN "Prefill" ELSE "Ready"
  /\ c.pc = "gpu" =>
       /\ c.left > 0
       /\ l.pending \in issued
       /\ l.pending.start = c.from /\ l.pending.count = Rows(c)
       /\ l.phase = IF c.text = 0 THEN "Prefill" ELSE "Decode"

RequestOK(c, l) ==
  /\ c.pc \in {"gate", "check"} => c.prompt > 0
  /\ c.pc \in {"gate", "check", "tryreset", "begin", "epoch", "exhausted",
               "start"} =>
       c.text = 0 /\ c.from = 0 /\ c.error = "none"
  /\ c.pc \notin {"idle", "unbind", "drop", "leave"} => c.result = "none"
  /\ c.pc \in {"begin", "epoch", "exhausted", "start", "forward", "chunk",
               "gpu", "seqlen", "sample"} =>
       c.prompt > 0 /\ Admitted(c) /\ c.text < c.limit
  /\ c.pc = "start" => l.phase = "Fresh"
  /\ c.pc \in {"forward", "chunk", "gpu"} => PassOK(c, l)
  /\ c.pc \in {"seqlen", "sample", "wrapup"} /\ c.error = "none" =>
       l.phase = "Ready" /\ l.pending = L!NoWrite
  /\ c.pc \in {"seqlen", "sample"} /\ c.error = "none" =>
       l.processed = c.prompt + c.text /\ l.prompt = c.prompt
  /\ c.pc = "reset" => l.closed
  /\ c.error # "none" /\ c.pc # "idle" =>
       /\ c.pc \in {"seqlen", "sample", "wrapup", "unbind", "drop", "leave"}
       /\ c.result \in {"none", "Panic", c.error}

EachRequestOK == \A t \in Threads : RequestOK(call[t], lease[t])

\* With one runtime the gate keeps everybody else away from the extent.
OneRuntime == \A r, s \in Runtimes : r = s

SharedOK ==
  OneRuntime =>
    /\ NeverBusy
    /\ \A t \in Threads :
         L!Open(t) /\ call[t].pc \notin InKv /\ "kv" \notin poisoned
           => kv.seqLen = lease[t].processed

IInv == TypeOK /\ LP!IInv /\ LocksOK /\ EachRequestOK /\ SharedOK
-----------------------------------------------------------------------------
(* The leases under the runtime *)

LEMMA LeaseParameters ==
  /\ Capacity \in Nat \ {0} /\ EpochMax \in Nat /\ 0 .. Capacity \subseteq Nat
  /\ Nobody \notin Threads
BY SizesPos, NumbersNat, NobodyNoThread

\* What a step of t may do to the leases.
LeaseStep(t) ==
  \/ L!BeginClaim(t)
  \/ L!BeginEpoch(t)
  \/ L!BeginExhausted(t)
  \/ \E n \in 0 .. Capacity : L!StartPrefill(t, n)
  \/ \E from, n \in 0 .. Capacity : L!PreparePrefillChunk(t, from, n)
  \/ \E from \in 0 .. Capacity : L!PrepareDecode(t, from)
  \/ \E w \in issued : L!Commit(t, w)
  \/ L!Finish(t)
  \/ L!Abort(t)
  \/ L!Drop(t)
  \/ UNCHANGED leaseVars

LEMMA LeaseInit == L!Init => LP!IInv
<1>1. L!Init => LP!Init
  BY DEF L!Init, LP!Init, L!FreshLease, LP!FreshLease, L!NoWrite, LP!NoWrite
<1>2. QED
  BY <1>1, LP!InitInv, LeaseParameters

LEMMA LeaseTypes == LP!IInv => L!TypeOK
  BY DEF LP!IInv, LP!TypeOK, L!TypeOK, LP!Stage, L!Stage, LP!Lease, L!Lease,
         LP!Phase, L!Phase, LP!StateWrite, L!StateWrite

LEMMA LeaseStepIsNext ==
  ASSUME NEW t \in Threads, LeaseStep(t)
  PROVE  [L!Next]_(L!vars)
  BY DEF LeaseStep, L!Next, L!vars, leaseVars

LEMMA SameNext == L!Next => LP!Next
<1>1. ASSUME NEW t \in Threads
      PROVE  /\ L!BeginClaim(t) => LP!BeginClaim(t)
             /\ L!BeginEpoch(t) => LP!BeginEpoch(t)
             /\ L!BeginExhausted(t) => LP!BeginExhausted(t)
  BY DEF L!BeginClaim, LP!BeginClaim, L!BeginEpoch, LP!BeginEpoch,
         L!BeginExhausted, LP!BeginExhausted, L!FreshLease, LP!FreshLease,
         L!NoWrite, LP!NoWrite
<1>2. ASSUME NEW t \in Threads, NEW n
      PROVE  L!StartPrefill(t, n) => LP!StartPrefill(t, n)
  BY DEF L!StartPrefill, LP!StartPrefill
<1>3. ASSUME NEW t \in Threads, NEW from, NEW n
      PROVE  /\ L!PreparePrefillChunk(t, from, n)
                  => LP!PreparePrefillChunk(t, from, n)
             /\ L!PrepareDecode(t, from) => LP!PrepareDecode(t, from)
  BY DEF L!PreparePrefillChunk, LP!PreparePrefillChunk, L!PrepareDecode,
         LP!PrepareDecode, L!Fits, LP!Fits, L!Prepare, LP!Prepare,
         L!NoWrite, LP!NoWrite
<1>4. ASSUME NEW t \in Threads, NEW w
      PROVE  L!Commit(t, w) => LP!Commit(t, w)
  BY DEF L!Commit, LP!Commit, L!CommitAccepts, LP!CommitAccepts,
         L!Committed, LP!Committed, L!NoWrite, LP!NoWrite
<1>5. ASSUME NEW t \in Threads
      PROVE  /\ L!Finish(t) => LP!Finish(t)
             /\ L!Abort(t) => LP!Abort(t)
             /\ L!Drop(t) => LP!Drop(t)
  BY DEF L!Finish, LP!Finish, L!Abort, LP!Abort, L!Drop, LP!Drop,
         L!ClosedAs, LP!ClosedAs, L!NoWrite, LP!NoWrite, L!Open, LP!Open
<1>6. QED
  BY <1>1, <1>2, <1>3, <1>4, <1>5 DEF L!Next, LP!Next

LEMMA LeaseStepInv ==
  ASSUME LP!IInv, NEW t \in Threads, LeaseStep(t)
  PROVE  /\ LP!IInv'
         /\ \A u \in Threads \ {t} : lease'[u] = lease[u] /\ stage'[u] = stage[u]
         /\ issued \subseteq issued'
<1>1. LP!IInv'
  BY LeaseStepIsNext, SameNext, LP!NextInv, LeaseParameters
     DEF L!vars, LP!vars
<1>2. lease \in [Threads -> L!Lease] /\ stage \in [Threads -> L!Stage]
  BY LeaseTypes DEF L!TypeOK
<1>3. QED
  BY <1>1, <1>2
     DEF LeaseStep, leaseVars, L!BeginClaim, L!BeginEpoch, L!BeginExhausted,
         L!StartPrefill, L!PreparePrefillChunk, L!PrepareDecode, L!Prepare,
         L!Commit, L!Finish, L!Abort, L!Drop
-----------------------------------------------------------------------------
(* What every step of one thread has to show *)

CallType == [pc : Pc, rt : Runtimes \cup {Nobody}, prompt : Nat, limit : Nat,
             from : Nat, left : Nat, text : Nat, error : Error,
             result : Result]

\* A step of t moves t's program counter, and takes or gives back for t only.
Frame(t) ==
  /\ call' \in [Threads -> CallType]
  /\ \A u \in Threads \ {t} : call'[u] = call[u]
  /\ gate' \in [Runtimes -> Threads \cup {Nobody}]
  /\ bound' \in [Runtimes -> Threads \cup {Nobody}]
  /\ \A r \in Runtimes :
       /\ gate'[r] # gate[r] => {gate'[r], gate[r]} \subseteq {t, Nobody}
       /\ bound'[r] # bound[r] => {bound'[r], bound[r]} \subseteq {t, Nobody}
  /\ kv' \in [holder : Threads \cup {Nobody}, seqLen : 0 .. Capacity]
  /\ kv'.holder # kv.holder => {kv'.holder, kv.holder} \subseteq {t, Nobody}
  /\ poisoned \subseteq poisoned' /\ poisoned' \subseteq Runtimes \cup {"kv"}
  /\ calls' \in 0 .. Calls

LEMMA CallTyping == TypeOK => call \in [Threads -> CallType]
  BY DEF TypeOK, CallType

\* Two calls of one runtime are never both past its gate.
LEMMA Alone ==
  ASSUME LocksOK, OneRuntime, NEW t \in Threads, NEW u \in Threads,
         call[t].pc \in InGate, call[u].pc \in InGate
  PROVE  t = u
<1>1. /\ call[t].rt \in Runtimes /\ gate[call[t].rt] = t
      /\ call[u].rt \in Runtimes /\ gate[call[u].rt] = u
  BY DEF LocksOK, LockOK, InGate
<1>2. QED
  BY <1>1 DEF OneRuntime

LEMMA OpenInLease ==
  ASSUME LocksOK, NEW t \in Threads, L!Open(t)
  PROVE  call[t].pc \in InLease /\ call[t].pc \in InGate
<1>1. stage[t] = "held"
  BY DEF L!Open
<1>2. call[t].pc \in InLease
  BY <1>1 DEF LocksOK, LockOK
<1>3. QED
  BY <1>2 DEF InLease, IsBound, InGate, Pc

\* The part of SharedOK about the extent of t, with and without a new extent.
ExtentKept(t) ==
  /\ kv'.seqLen = kv.seqLen
  /\ L!Open(t)' /\ call'[t].pc \notin InKv /\ "kv" \notin poisoned' =>
       /\ L!Open(t) /\ call[t].pc \notin InKv
       /\ lease'[t].processed = lease[t].processed

ExtentSet(t) ==
  /\ call[t].pc \in InGate
  /\ L!Open(t)' => kv'.seqLen = lease'[t].processed

NoBusy(t) == call'[t].result = "Busy" => call'[t].rt = Nobody

LEMMA StepInv ==
  ASSUME IInv, NEW t \in Threads, Frame(t), LeaseStep(t), LockOK(t)',
         RequestOK(call[t], lease[t])',
         OneRuntime => NoBusy(t) /\ (ExtentKept(t) \/ ExtentSet(t))
  PROVE  IInv'
<1> USE DEF IInv
<1>1. /\ LP!IInv'
      /\ \A u \in Threads \ {t} : lease'[u] = lease[u] /\ stage'[u] = stage[u]
      /\ issued \subseteq issued'
  BY LeaseStepInv
<1>2. L!TypeOK'
  BY <1>1, LeaseTypes, PTL
<1>3. TypeOK'
  BY <1>2 DEF TypeOK, Frame, CallType
<1>4. LocksOK'
  <2> SUFFICES ASSUME NEW u \in Threads, u # t PROVE LockOK(u)'
    BY DEF LocksOK
  <2>1. LockOK(u) /\ Nobody # u /\ call'[u] = call[u] /\ stage'[u] = stage[u]
    BY <1>1, NobodyNoThread DEF LocksOK, Frame
  <2>2. /\ \A r \in Runtimes : (gate'[r] = u <=> gate[r] = u)
                               /\ (bound'[r] = u <=> bound[r] = u)
        /\ kv'.holder = u <=> kv.holder = u
    BY <2>1 DEF Frame
  <2>3. QED
    BY <2>1, <2>2 DEF LockOK
<1>5. EachRequestOK'
  <2> SUFFICES ASSUME NEW u \in Threads, u # t
               PROVE  RequestOK(call[u], lease[u])'
    BY DEF EachRequestOK
  <2>1. RequestOK(call[u], lease[u]) /\ call'[u] = call[u]
        /\ lease'[u] = lease[u] /\ issued \subseteq issued'
    BY <1>1 DEF EachRequestOK, Frame
  <2>2. PassOK(call[u], lease[u]) => PassOK(call[u], lease[u])'
    BY <2>1 DEF PassOK, Rows
  <2>3. QED
    BY <2>1, <2>2 DEF RequestOK
<1>6. SharedOK'
  <2> SUFFICES ASSUME OneRuntime
               PROVE  /\ NeverBusy'
                      /\ \A u \in Threads :
                           L!Open(u)' /\ call'[u].pc \notin InKv
                             /\ "kv" \notin poisoned'
                               => kv'.seqLen = lease'[u].processed
    BY DEF SharedOK, OneRuntime
  <2>1. NeverBusy'
    BY DEF NeverBusy, SharedOK, NoBusy, Frame
  <2>2. ASSUME NEW u \in Threads, L!Open(u)', call'[u].pc \notin InKv,
               "kv" \notin poisoned'
        PROVE  kv'.seqLen = lease'[u].processed
    <3>1. "kv" \notin poisoned
      BY <2>2 DEF Frame
    <3>2. CASE u = t
      BY <2>2, <3>1, <3>2 DEF SharedOK, ExtentKept, ExtentSet
    <3>3. CASE u # t
      <4>1. lease'[u] = lease[u] /\ call'[u] = call[u] /\ L!Open(u)
        BY <1>1, <2>2, <3>3 DEF Frame, L!Open
      <4>2. call[u].pc \in InGate
        BY <4>1, OpenInLease
      <4>3. kv'.seqLen = kv.seqLen
        BY <3>3, <4>2, Alone DEF ExtentKept, ExtentSet
      <4>4. QED
        BY <2>2, <3>1, <4>1, <4>3 DEF SharedOK
    <3>4. QED
      BY <3>2, <3>3
  <2>3. QED
    BY <2>1, <2>2
<1>7. QED
  BY <1>1, <1>3, <1>4, <1>5, <1>6
-----------------------------------------------------------------------------
(* The actions *)

\* What Goto, Answer and Fail change of the call of t.
Others(t) ==
  /\ call' \in [Threads -> CallType]
  /\ \A u \in Threads \ {t} : call'[u] = call[u]

SameRequest(c, d) ==
  d.rt = c.rt /\ d.prompt = c.prompt /\ d.limit = c.limit

SamePass(c, d) == d.from = c.from /\ d.left = c.left /\ d.text = c.text

LEMMA GotoCall ==
  ASSUME call \in [Threads -> CallType], NEW t \in Threads, NEW pc \in Pc,
         Goto(t, pc)
  PROVE  /\ Others(t) /\ SameRequest(call[t], call'[t])
         /\ SamePass(call[t], call'[t])
         /\ call'[t].pc = pc /\ call'[t].error = call[t].error
         /\ call'[t].result = call[t].result
  BY DEF Goto, CallType, Others, SameRequest, SamePass

LEMMA AnswerCall ==
  ASSUME call \in [Threads -> CallType], NEW t \in Threads, NEW pc \in Pc,
         NEW r \in Result, Answer(t, pc, r)
  PROVE  /\ Others(t) /\ SameRequest(call[t], call'[t])
         /\ SamePass(call[t], call'[t])
         /\ call'[t].pc = pc /\ call'[t].error = call[t].error
         /\ call'[t].result = r
  BY DEF Answer, CallType, Others, SameRequest, SamePass

LEMMA FailCall ==
  ASSUME call \in [Threads -> CallType], NEW t \in Threads, NEW pc \in Pc,
         NEW e \in Error \ {"none"}, Fail(t, pc, e)
  PROVE  /\ Others(t) /\ SameRequest(call[t], call'[t])
         /\ SamePass(call[t], call'[t])
         /\ call'[t].pc = pc /\ call'[t].result = call[t].result
         /\ call'[t].error \in Error \ {"none"}
         /\ call[t].error # "none" => call'[t].error = call[t].error
<1>1. call'[t] = [call[t] EXCEPT !.pc = pc,
                   !.error = IF call[t].error = "none" THEN e ELSE call[t].error]
  BY DEF Fail, CallType
<1>2. /\ Others(t)
  BY ZenonT(60) DEF Fail, CallType, Others
<1>3. QED
  BY <1>1, <1>2 DEF CallType, SameRequest, SamePass, Others


LEMMA Now ==
  ASSUME IInv, NEW t \in Threads
  PROVE  /\ call \in [Threads -> CallType] /\ call[t] \in CallType
         /\ LockOK(t) /\ RequestOK(call[t], lease[t])
         /\ gate \in [Runtimes -> Threads \cup {Nobody}]
         /\ bound \in [Runtimes -> Threads \cup {Nobody}]
         /\ kv \in [holder : Threads \cup {Nobody}, seqLen : 0 .. Capacity]
         /\ poisoned \subseteq Runtimes \cup {"kv"}
         /\ calls \in 0 .. Calls
         /\ stage \in [Threads -> L!Stage] /\ lease \in [Threads -> L!Lease]
         /\ t # Nobody
         /\ call[t].pc # "idle" => call[t].rt \in Runtimes
  BY CallTyping, LeaseTypes, NobodyNoThread
     DEF IInv, TypeOK, LocksOK, LockOK, EachRequestOK, L!TypeOK

\* Program points that hold the same locks, binding and stage.
SameHolding(p, q) ==
  /\ p # "idle" /\ q # "idle"
  /\ p \in InGate <=> q \in InGate
  /\ p \in InKv <=> q \in InKv
  /\ p \in IsBound <=> q \in IsBound
  /\ p \in InLease <=> q \in InLease
  /\ p \notin {"epoch", "exhausted"} /\ q \notin {"epoch", "exhausted"}

\* Steps that change nothing but the call of t.
LEMMA QuietInv ==
  ASSUME IInv, NEW t \in Threads, Others(t),
         UNCHANGED <<leaseVars, gate, poisoned, bound, kv, calls>>,
         call'[t].rt = call[t].rt,
         call'[t].result \in {"none", "Busy"} =>
           call'[t].result = call[t].result,
         SameHolding(call[t].pc, call'[t].pc),
         RequestOK(call[t], lease[t])'
  PROVE  IInv'
<1>1. /\ LeaseStep(t)
      /\ UNCHANGED <<stage, lease, gate, poisoned, bound, kv, calls>>
  BY DEF LeaseStep, leaseVars
<1>2. Frame(t)
  BY Now, <1>1 DEF Frame, Others
<1>3. LockOK(t)'
  BY Now, <1>1 DEF LockOK, SameHolding
<1>4. OneRuntime => NoBusy(t) /\ ExtentKept(t)
  BY Now, <1>1
     DEF NoBusy, ExtentKept, L!Open, IInv, SharedOK, NeverBusy, SameHolding
<1>5. QED
  BY <1>1, <1>2, <1>3, <1>4, StepInv

LEMMA EnterGateInv ==
  ASSUME IInv, NEW t \in Threads, EnterGate(t) PROVE IInv'
<1> DEFINE r == call[t].rt
<1>0. At(t, "gate") /\ gate[r] = Nobody /\ UNCHANGED <<leaseVars, poisoned, bound, kv, calls>>
  BY DEF EnterGate
<1>1. /\ LeaseStep(t)
      /\ UNCHANGED <<stage, lease, issued, poisoned, bound, kv, calls>>
  BY <1>0 DEF LeaseStep, leaseVars
<1>2. CASE r \in poisoned
  <2>1. Answer(t, "idle", "Poisoned") /\ UNCHANGED gate
    BY <1>2 DEF EnterGate
  <2>2. /\ Others(t) /\ SameRequest(call[t], call'[t])
         /\ SamePass(call[t], call'[t])
         /\ call'[t].pc = "idle" /\ call'[t].error = call[t].error
         /\ call'[t].result = "Poisoned"
    BY <2>1, Now, AnswerCall DEF Pc, Result
  <2>3. Frame(t)
    BY Now, <1>1, <2>1, <2>2 DEF Frame, Others
  <2>4. LockOK(t)'
    BY Now, <1>0, <1>1, <2>1, <2>2 DEF LockOK, At, InGate, IsBound, InKv, InLease, Pc, SameRequest
  <2>5. RequestOK(call[t], lease[t])'
    BY Now, <1>0, <1>1, <2>1, <2>2 DEF RequestOK, At, SameRequest, SamePass
  <2>6. NoBusy(t) /\ ExtentKept(t)
    BY Now, <1>0, <1>1, <2>1, <2>2 DEF NoBusy, ExtentKept, At, InKv, L!Open, LockOK, InLease, IsBound
  <2>7. QED
    BY <1>1, <2>3, <2>4, <2>5, <2>6, StepInv
<1>3. CASE r \notin poisoned
  <2>1. gate' = [gate EXCEPT ![r] = t] /\ Goto(t, "check")
    BY <1>3 DEF EnterGate
  <2>2. /\ Others(t) /\ SameRequest(call[t], call'[t])
        /\ SamePass(call[t], call'[t])
        /\ call'[t].pc = "check" /\ call'[t].error = call[t].error
        /\ call'[t].result = call[t].result
    BY <2>1, Now, GotoCall DEF Pc
  <2>3. Frame(t)
    BY Now, <1>0, <1>1, <2>1, <2>2 DEF Frame, Others
  <2>4. LockOK(t)'
    BY Now, <1>0, <1>1, <2>1, <2>2
       DEF LockOK, At, InGate, IsBound, InKv, InLease, Pc, SameRequest
  <2>5. RequestOK(call[t], lease[t])'
    BY Now, <1>0, <1>1, <2>1, <2>2
       DEF RequestOK, At, SameRequest, SamePass
  <2>6. OneRuntime => NoBusy(t) /\ ExtentKept(t)
    BY Now, <1>0, <1>1, <2>1, <2>2
       DEF NoBusy, ExtentKept, At, InKv, L!Open, LockOK, InLease, IsBound,
           IInv, SharedOK, RequestOK
  <2>7. QED
    BY <1>1, <2>3, <2>4, <2>5, <2>6, StepInv
<1>4. QED
  BY <1>2, <1>3

LEMMA GenerateInv ==
  ASSUME IInv, NEW t \in Threads, Generate(t) PROVE IInv'
<1>1. PICK r \in Runtimes, p \in Prompts, m \in Limits :
        call' = [call EXCEPT ![t] = [Idle EXCEPT !.pc = "gate", !.rt = r,
                                                 !.prompt = p, !.limit = m]]
  BY DEF Generate
<1> DEFINE c == [Idle EXCEPT !.pc = "gate", !.rt = r, !.prompt = p,
                             !.limit = m]
<1>2. /\ c.pc = "gate" /\ c.rt = r /\ c.prompt = p /\ c.limit = m
      /\ c.from = 0 /\ c.text = 0 /\ c.error = "none" /\ c.result = "none"
  BY DEF Idle
<1>3. At(t, "idle") /\ calls < Calls /\ calls' = calls + 1
      /\ UNCHANGED <<active, epoch, stage, lease, issued, leaseVars,
                     gate, poisoned, bound, kv>>
  BY DEF Generate, leaseVars
<1>4. p \in Nat \ {0} /\ m \in Nat
  BY RequestsOK
<1>5. c \in CallType
  BY <1>4 DEF CallType, Pc, Error, Result, Idle
<1> HIDE DEF c
<1>6. call'[t] = c /\ Others(t)
  BY Now, <1>1, <1>5 DEF Others, c
<1>7. Frame(t)
  BY Now, <1>3, <1>6, NumbersNat DEF Frame, Others
<1>8. LockOK(t)'
  BY Now, <1>2, <1>3, <1>6
     DEF LockOK, At, InGate, IsBound, InKv, InLease
<1>9. RequestOK(call[t], lease[t])'
  BY <1>2, <1>4, <1>6 DEF RequestOK
<1>10. NoBusy(t) /\ ExtentKept(t)
  BY Now, <1>2, <1>3, <1>6
     DEF NoBusy, ExtentKept, L!Open, At, LockOK, InLease, IsBound
<1>11. LeaseStep(t)
  BY <1>3 DEF LeaseStep
<1>12. QED
  BY <1>7, <1>8, <1>9, <1>10, <1>11, StepInv

LEMMA TryResetInv ==
  ASSUME IInv, NEW t \in Threads, TryReset(t) PROVE IInv'
<1>1. At(t, "idle") /\ calls < Calls /\ calls' = calls + 1
      /\ UNCHANGED <<active, epoch, stage, lease, issued, leaseVars,
                     poisoned, bound, kv>>
  BY DEF TryReset, leaseVars
<1>2. LeaseStep(t)
  BY <1>1 DEF LeaseStep
<1>3. ASSUME NEW r \in Runtimes, gate[r] = Nobody,
             gate' = [gate EXCEPT ![r] = t],
             call' = [call EXCEPT ![t] =
                        [Idle EXCEPT !.pc = "tryreset", !.rt = r]]
      PROVE  IInv'
  <2> DEFINE c == [Idle EXCEPT !.pc = "tryreset", !.rt = r]
  <2>0. /\ c \in CallType
        /\ c.pc = "tryreset" /\ c.rt = r
        /\ c.text = 0 /\ c.from = 0 /\ c.error = "none" /\ c.result = "none"
    BY DEF CallType, Pc, Error, Result, Idle
  <2> HIDE DEF c
  <2>1. call' = [call EXCEPT ![t] = c]
    BY <1>3 DEF c
  <2>2. call'[t] = c /\ Others(t)
    BY Now, <2>0, <2>1 DEF Others
  <2>3. Frame(t)
    BY Now, <1>1, <1>3, <2>2, NumbersNat DEF Frame, Others
  <2>4. LockOK(t)'
    <3>1. /\ call'[t].pc = "tryreset" /\ call'[t].rt = r
          /\ \A q \in Runtimes : gate'[q] = t <=> q = r
      BY Now, <1>1, <1>3, <2>0, <2>2 DEF LockOK, At, InGate
    <3>2. QED
      BY Now, <1>1, <3>1 DEF LockOK, At, InGate, IsBound, InKv, InLease, Pc
  <2>5. RequestOK(call[t], lease[t])'
    BY <2>0, <2>2 DEF RequestOK
  <2>6. NoBusy(t) /\ ExtentKept(t)
    BY Now, <1>1, <2>0, <2>2
       DEF NoBusy, ExtentKept, L!Open, At, LockOK, InLease, IsBound
  <2>7. QED
    BY <1>2, <2>3, <2>4, <2>5, <2>6, StepInv
<1>4. ASSUME UNCHANGED gate,
             call' = [call EXCEPT ![t] = [Idle EXCEPT !.result = "Busy"]]
      PROVE  IInv'
  <2> DEFINE c == [pc |-> "idle", rt |-> Nobody, prompt |-> 0, limit |-> 0,
                   from |-> 0, left |-> 0, text |-> 0, error |-> "none",
                   result |-> "Busy"]
  <2>0. c \in CallType /\ [Idle EXCEPT !.result = "Busy"] = c
    BY DEF CallType, Pc, Error, Result, Idle
  <2> HIDE DEF c
  <2>1. call' = [call EXCEPT ![t] = c]
    BY <1>4, <2>0
  <2>2. call'[t] = c /\ Others(t)
    BY Now, <2>0, <2>1 DEF Others
  <2>3. Frame(t)
    BY Now, <1>1, <1>4, <2>2, NumbersNat DEF Frame, Others
  <2>4. LockOK(t)'
    BY Now, <1>1, <1>4, <2>2
       DEF c, LockOK, At, InGate, IsBound, InKv, InLease
  <2>5. RequestOK(call[t], lease[t])'
    BY <2>2 DEF c, RequestOK
  <2>6. NoBusy(t) /\ ExtentKept(t)
    BY Now, <1>1, <2>2
       DEF c, NoBusy, ExtentKept, L!Open, At, LockOK, InLease, IsBound
  <2>7. QED
    BY <1>2, <2>3, <2>4, <2>5, <2>6, StepInv
<1>5. QED
  BY <1>3, <1>4 DEF TryReset

LEMMA TryResetKvInv ==
  ASSUME IInv, NEW t \in Threads, TryResetKv(t) PROVE IInv'
<1>1. At(t, "tryreset") /\ KvFree
      /\ UNCHANGED <<active, epoch, stage, lease, issued, leaseVars, gate,
                     poisoned, bound, calls>>
  BY DEF TryResetKv, leaseVars
<1>2. /\ kv' \in [holder : {Nobody}, seqLen : 0 .. Capacity]
      /\ \E res \in {"Poisoned", "Ok"} : Answer(t, "leave", res)
  BY Now, <1>1, SizesPos DEF TryResetKv, KvFree
<1>3. PICK res \in {"Poisoned", "Ok"} : Answer(t, "leave", res)
  BY <1>2
<1>4. /\ Others(t) /\ SameRequest(call[t], call'[t])
      /\ SamePass(call[t], call'[t])
      /\ call'[t].pc = "leave" /\ call'[t].error = call[t].error
      /\ call'[t].result = res
  BY <1>3, Now, AnswerCall DEF Pc, Result
<1>5. Frame(t)
  BY Now, <1>1, <1>2, <1>4 DEF Frame, Others, KvFree
<1>6. LockOK(t)'
  BY Now, <1>1, <1>2, <1>4
     DEF LockOK, At, InGate, IsBound, InKv, InLease, Pc, SameRequest, KvFree
<1>7. RequestOK(call[t], lease[t])'
  BY Now, <1>1, <1>4 DEF RequestOK, At, SameRequest, SamePass
<1>8. NoBusy(t) /\ ExtentSet(t)
  BY Now, <1>1, <1>4
     DEF NoBusy, ExtentSet, L!Open, At, LockOK, InLease, IsBound, InGate, Pc
<1>9. LeaseStep(t)
  BY <1>1 DEF LeaseStep
<1>10. QED
  BY <1>5, <1>6, <1>7, <1>8, <1>9, StepInv

LEMMA CheckInv ==
  ASSUME IInv, NEW t \in Threads, Check(t) PROVE IInv'
<1>1. At(t, "check")
      /\ UNCHANGED <<leaseVars, gate, poisoned, bound, kv, calls>>
  BY DEF Check
<1>2. SameHolding("check", "leave") /\ SameHolding("check", "begin")
  BY DEF SameHolding, InGate, InKv, IsBound, InLease, Pc
<1>3. ASSUME NEW res \in {"Request", "Ok"}, Answer(t, "leave", res)
      PROVE  IInv'
  <2>1. /\ Others(t) /\ SameRequest(call[t], call'[t])
        /\ SamePass(call[t], call'[t])
        /\ call'[t].pc = "leave" /\ call'[t].error = call[t].error
        /\ call'[t].result = res
    BY <1>3, Now, AnswerCall DEF Pc, Result
  <2>2. RequestOK(call[t], lease[t])'
    BY Now, <1>1, <2>1 DEF RequestOK, At, SamePass
  <2>3. QED
    BY <1>1, <1>2, <2>1, <2>2, QuietInv DEF At, SameRequest
<1>4. ASSUME ContextFits(call[t].prompt, call[t].limit), call[t].limit > 0,
             Goto(t, "begin")
      PROVE  IInv'
  <2>1. /\ Others(t) /\ SameRequest(call[t], call'[t])
        /\ SamePass(call[t], call'[t])
        /\ call'[t].pc = "begin" /\ call'[t].error = call[t].error
        /\ call'[t].result = call[t].result
    BY <1>4, Now, GotoCall DEF Pc
  <2>2. Admitted(call[t]) /\ call[t].text < call[t].limit
        /\ call[t].prompt > 0
    BY Now, <1>1, <1>4, SizesPos
       DEF Admitted, ContextFits, CallType, RequestOK, At
  <2>3. RequestOK(call[t], lease[t])'
    BY Now, <1>1, <2>1, <2>2
       DEF RequestOK, At, SamePass, SameRequest, Admitted
  <2>4. QED
    BY <1>1, <1>2, <2>1, <2>3, QuietInv DEF At, SameRequest
<1>5. QED
  BY <1>3, <1>4 DEF Check

\* The ways through the body of a request that keep everything it holds.
LEMMA Holding ==
  /\ SameHolding("forward", "unbind") /\ SameHolding("sample", "unbind")
  /\ SameHolding("wrapup", "unbind") /\ SameHolding("chunk", "seqlen")
  /\ SameHolding("sample", "wrapup") /\ SameHolding("sample", "forward")
  /\ SameHolding("chunk", "gpu") /\ SameHolding("gpu", "chunk")
  /\ SameHolding("gpu", "seqlen") /\ SameHolding("wrapup", "reset")
  BY DEF SameHolding, InGate, InKv, IsBound, InLease, Pc

\* A callback or the GPU code panics outside the cache's lock.
LEMMA PanicInv ==
  ASSUME IInv, NEW t \in Threads, call[t].pc \in {"forward", "sample"},
         Answer(t, "unbind", "Panic"),
         UNCHANGED <<leaseVars, gate, poisoned, bound, kv, calls>>
  PROVE  IInv'
<1>1. /\ Others(t) /\ SameRequest(call[t], call'[t])
      /\ SamePass(call[t], call'[t])
      /\ call'[t].pc = "unbind" /\ call'[t].error = call[t].error
      /\ call'[t].result = "Panic"
  BY Now, AnswerCall DEF Pc, Result
<1>2. RequestOK(call[t], lease[t])'
  BY <1>1 DEF RequestOK
<1>3. QED
  BY <1>1, <1>2, Holding, QuietInv DEF SameRequest

LEMMA DequantPanicsInv ==
  ASSUME IInv, NEW t \in Threads, DequantPanics(t) PROVE IInv'
BY PanicInv DEF DequantPanics, At

LEMMA CallbackPanicsInv ==
  ASSUME IInv, NEW t \in Threads, CallbackPanics(t) PROVE IInv'
BY PanicInv DEF CallbackPanics, At

LEMMA PassDoneInv ==
  ASSUME IInv, NEW t \in Threads, PassDone(t) PROVE IInv'
<1>1. At(t, "chunk") /\ call[t].left = 0 /\ leaseVars' = leaseVars
      /\ UNCHANGED <<leaseVars, lease, gate, poisoned, bound, kv, calls>>
  BY DEF PassDone, leaseVars
<1>2. /\ call[t].error = "none" /\ call[t].result = "none"
      /\ call[t].prompt > 0 /\ Admitted(call[t])
      /\ call[t].text < call[t].limit
      /\ lease[t].phase = "Ready" /\ lease[t].pending = L!NoWrite
      /\ lease[t].processed = call[t].prompt + call[t].text
      /\ lease[t].prompt = call[t].prompt
  BY Now, <1>1 DEF RequestOK, PassOK, At, CallType, L!Lease
<1>3. CASE Goto(t, "seqlen")
  <2>1. /\ Others(t) /\ SameRequest(call[t], call'[t])
        /\ SamePass(call[t], call'[t])
        /\ call'[t].pc = "seqlen" /\ call'[t].error = call[t].error
        /\ call'[t].result = call[t].result
    BY <1>3, Now, GotoCall DEF Pc
  <2>2. RequestOK(call[t], lease[t])'
    BY <1>1, <1>2, <2>1 DEF RequestOK, SameRequest, SamePass, Admitted
  <2>3. QED
    BY <1>1, <2>1, <2>2, Holding, QuietInv DEF SameRequest, At
<1>4. CASE Fail(t, "seqlen", "Gpu")
  <2>1. /\ Others(t) /\ SameRequest(call[t], call'[t])
        /\ SamePass(call[t], call'[t])
        /\ call'[t].pc = "seqlen" /\ call'[t].result = call[t].result
        /\ call'[t].error # "none"
    BY <1>4, Now, FailCall DEF Pc, Error
  <2>2. RequestOK(call[t], lease[t])'
    BY <1>1, <1>2, <2>1 DEF RequestOK, SameRequest, SamePass, Admitted
  <2>3. QED
    BY <1>1, <2>1, <2>2, Holding, QuietInv DEF SameRequest, At
<1>5. QED
  BY <1>3, <1>4 DEF PassDone

\* What StateLease_proofs says of the lease of a running request.
LEMMA InHand ==
  ASSUME IInv, NEW t \in Threads, call[t].pc \in InLease
  PROVE  /\ stage[t] = "held"
         /\ LP!PrefixOK(lease[t])
         /\ lease[t].closed <=> lease[t].phase \in {"Finished", "Aborted"}
         /\ L!Open(t) => lease[t].epoch = epoch
<1>1. stage[t] = "held"
  BY Now DEF LockOK
<1>2. QED
  BY <1>1
     DEF IInv, LP!IInv, LP!CommittedPrefixOK, LP!PrefixOK, LP!EpochsOK,
         LP!Open, L!Open

\* The pass has ended and the hooks see what it left.
LEMMA AtSample ==
  ASSUME IInv, NEW t \in Threads, At(t, "sample")
  PROVE  /\ call[t].prompt > 0 /\ Admitted(call[t])
         /\ call[t].text < call[t].limit /\ call[t].result = "none"
         /\ call[t].error = "none" =>
              /\ lease[t].phase = "Ready" /\ lease[t].pending = L!NoWrite
              /\ lease[t].processed = call[t].prompt + call[t].text
              /\ lease[t].prompt = call[t].prompt
              /\ ~lease[t].closed
  BY Now, InHand DEF RequestOK, At, InLease, IsBound

LEMMA SampleEndsInv ==
  ASSUME IInv, NEW t \in Threads, At(t, "sample"), Goto(t, "wrapup"),
         UNCHANGED <<leaseVars, gate, poisoned, bound, kv, calls>>
  PROVE  IInv'
<1>1. /\ Others(t) /\ SameRequest(call[t], call'[t])
      /\ SamePass(call[t], call'[t])
      /\ call'[t].pc = "wrapup" /\ call'[t].error = call[t].error
      /\ call'[t].result = call[t].result
  BY Now, GotoCall DEF Pc
<1>2. RequestOK(call[t], lease[t])'
  BY <1>1, AtSample DEF RequestOK, leaseVars
<1>3. QED
  BY <1>1, <1>2, Holding, QuietInv DEF SameRequest, At

LEMMA BlockedInv ==
  ASSUME IInv, NEW t \in Threads, Blocked(t) PROVE IInv'
BY SampleEndsInv DEF Blocked

LEMMA StopInv ==
  ASSUME IInv, NEW t \in Threads, Stop(t) PROVE IInv'
BY SampleEndsInv DEF Stop

LEMMA HookFailsInv ==
  ASSUME IInv, NEW t \in Threads, HookFails(t) PROVE IInv'
<1>1. PICK e \in {"Mask", "Control", "Policy"} : Fail(t, "wrapup", e)
  BY DEF HookFails
<1>2. At(t, "sample")
      /\ UNCHANGED <<leaseVars, gate, poisoned, bound, kv, calls>>
  BY DEF HookFails
<1>3. /\ Others(t) /\ SameRequest(call[t], call'[t])
      /\ call'[t].pc = "wrapup" /\ call'[t].result = call[t].result
      /\ call'[t].error # "none"
  BY <1>1, Now, FailCall DEF Pc, Error
<1>4. RequestOK(call[t], lease[t])'
  BY <1>2, <1>3, AtSample DEF RequestOK
<1>5. QED
  BY <1>2, <1>3, <1>4, Holding, QuietInv DEF SameRequest, At

LEMMA TokenInv ==
  ASSUME IInv, NEW t \in Threads, Token(t) PROVE IInv'
<1> DEFINE text == call[t].text + 1
<1>1. /\ At(t, "sample") /\ call[t].error = "none"
      /\ UNCHANGED <<leaseVars, gate, poisoned, bound, kv, calls>>
      /\ lease' = lease /\ stage' = stage
  BY DEF Token, HookBlocks, leaseVars
<1>2. /\ Others(t) /\ SameRequest(call[t], call'[t])
      /\ call'[t].text = text /\ call'[t].left = 1
      /\ call'[t].from = call[t].prompt + text - 1
      /\ call'[t].pc = IF text >= call[t].limit THEN "wrapup" ELSE "forward"
      /\ call'[t].error = call[t].error /\ call'[t].result = call[t].result
  <2> DEFINE pc == IF text >= call[t].limit THEN "wrapup" ELSE "forward"
             from == call[t].prompt + text - 1
  <2>1. call' = [call EXCEPT ![t].text = text, ![t].pc = pc, ![t].from = from,
                             ![t].left = 1]
    BY DEF Token
  <2>2. pc \in Pc /\ text \in Nat /\ from \in Nat
    BY Now DEF CallType, Pc
  <2> HIDE DEF pc, text, from
  <2>3. /\ Others(t) /\ SameRequest(call[t], call'[t])
        /\ call'[t].text = text /\ call'[t].left = 1 /\ call'[t].from = from
        /\ call'[t].pc = pc
        /\ call'[t].error = call[t].error /\ call'[t].result = call[t].result
    BY SMTT(60), Now, <2>1, <2>2 DEF CallType, Others, SameRequest
  <2>4. QED
    BY <2>3 DEF pc, from, text
<1>3. RequestOK(call[t], lease[t])'
  <2>1. /\ call[t].prompt \in Nat /\ call[t].text \in Nat
        /\ call[t].limit \in Nat
    BY Now DEF CallType
  <2>2. CASE text >= call[t].limit
    BY <1>1, <1>2, <2>2, AtSample DEF RequestOK
  <2>3. CASE ~(text >= call[t].limit)
    <3>1. PassOK(call[t], lease[t])'
      <4>1. /\ call'[t].pc = "forward" /\ call'[t].text = text
            /\ call'[t].prompt = call[t].prompt /\ call'[t].left = 1
            /\ call'[t].from = call[t].prompt + call[t].text
            /\ call'[t].error = "none"
        BY <1>1, <1>2, <2>1, <2>3 DEF SameRequest
      <4>2. /\ lease'[t].phase = "Ready" /\ lease'[t].pending = L!NoWrite
            /\ lease'[t].processed = call[t].prompt + call[t].text
            /\ lease'[t].prompt = call[t].prompt /\ ~lease'[t].closed
        BY <1>1, AtSample
      <4>3. QED
        BY <4>1, <4>2, <2>1 DEF PassOK
    <3>2. Admitted(call[t])' /\ call'[t].text < call'[t].limit
      BY <1>1, <1>2, <2>1, <2>3, AtSample DEF Admitted, SameRequest
    <3>3. QED
      BY <1>1, <1>2, <2>3, <3>1, <3>2, AtSample DEF RequestOK, SameRequest
  <2>4. QED
    BY <2>2, <2>3
<1>4. QED
  BY <1>1, <1>2, <1>3, Holding, QuietInv DEF SameRequest, At

\* begin_request, which takes and gives back the cache's lock.
LEMMA BeginClaimInv ==
  ASSUME IInv, NEW t \in Threads, BeginClaim(t) PROVE IInv'
<1>1. At(t, "begin") /\ KvFree
      /\ UNCHANGED <<gate, poisoned, bound, calls>>
  BY DEF BeginClaim
<1>2. SameHolding("begin", "leave")
  BY DEF SameHolding, InGate, InKv, IsBound, InLease, Pc
<1>3. ASSUME NEW res \in {"Poisoned", "Busy"}, Answer(t, "leave", res),
             UNCHANGED <<leaseVars, kv>>,
             res = "Busy" => active \/ bound[call[t].rt] # Nobody
      PROVE  IInv'
  <2>1. /\ Others(t) /\ SameRequest(call[t], call'[t])
        /\ SamePass(call[t], call'[t])
        /\ call'[t].pc = "leave" /\ call'[t].error = call[t].error
        /\ call'[t].result = res
    BY <1>3, Now, AnswerCall DEF Pc, Result
  <2>2. RequestOK(call[t], lease[t])'
    BY Now, <1>1, <2>1 DEF RequestOK, At, SamePass
  <2>3. LeaseStep(t) /\ UNCHANGED <<stage, lease, kv>>
    BY <1>3 DEF LeaseStep, leaseVars
  <2>4. Frame(t)
    BY Now, <1>1, <2>1, <2>3 DEF Frame, Others
  <2>5. LockOK(t)'
    BY Now, <1>1, <1>2, <2>1, <2>3 DEF LockOK, SameHolding, SameRequest, At
  <2>6. ExtentKept(t)
    BY Now, <1>1, <2>3 DEF ExtentKept, L!Open, At, LockOK, InLease, IsBound
  <2>7. OneRuntime => res # "Busy"
    <3> SUFFICES ASSUME OneRuntime PROVE ~active /\ bound[call[t].rt] = Nobody
      BY <1>3
    <3>1. call[t].pc \in InGate
      BY <1>1 DEF At, InGate, Pc
    <3>2. \A u \in Threads : u # t => call[u].pc \notin InGate
      BY <3>1, Alone DEF IInv
    <3>3. ASSUME NEW u \in Threads
          PROVE  stage[u] = "none" /\ bound[call[t].rt] # u
      <4>1. call[u].pc \notin InLease \cup IsBound \cup {"epoch", "exhausted"}
        BY <1>1, <3>2 DEF At, InLease, IsBound, InGate, Pc
      <4>2. call[t].rt \in Runtimes
        BY Now, <1>1 DEF At
      <4>3. QED
        BY Now, <4>1, <4>2 DEF LockOK, L!Stage
    <3>4. bound[call[t].rt] = Nobody
      BY Now, <1>1, <3>3 DEF At
    <3>5. ~active
      BY <3>3 DEF IInv, LP!IInv, LP!ExclusiveOwner, LP!Owns, LP!Open
    <3>6. QED
      BY <3>4, <3>5
  <2>8. OneRuntime => NoBusy(t)
    BY <2>1, <2>7 DEF NoBusy
  <2>9. QED
    BY <2>2, <2>3, <2>4, <2>5, <2>6, <2>8, StepInv
<1>4. ASSUME L!BeginClaim(t), kv' = [kv EXCEPT !.holder = t],
             Goto(t, "epoch")
      PROVE  IInv'
  <2>1. /\ Others(t) /\ SameRequest(call[t], call'[t])
        /\ SamePass(call[t], call'[t])
        /\ call'[t].pc = "epoch" /\ call'[t].error = call[t].error
        /\ call'[t].result = call[t].result
    BY <1>4, Now, GotoCall DEF Pc
  <2>2. RequestOK(call[t], lease[t])'
    BY Now, <1>1, <2>1 DEF RequestOK, At, SamePass, SameRequest, Admitted
  <2>3. LeaseStep(t)
    BY <1>4 DEF LeaseStep
  <2>4. kv'.holder = t /\ kv'.seqLen = kv.seqLen
        /\ kv' \in [holder : Threads \cup {Nobody}, seqLen : 0 .. Capacity]
    BY Now, <1>4
  <2>5. Frame(t)
    BY Now, <1>1, <2>1, <2>4 DEF Frame, Others, KvFree
  <2>6. stage'[t] = "claimed"
    BY Now, <1>4 DEF L!BeginClaim
  <2>7. LockOK(t)'
    BY Now, <1>1, <2>1, <2>4, <2>6
       DEF LockOK, At, InGate, IsBound, InKv, InLease, Pc, SameRequest
  <2>8. NoBusy(t) /\ ExtentKept(t)
    BY Now, <1>1, <2>1, <2>4 DEF NoBusy, ExtentKept, RequestOK, At, InKv
  <2>9. QED
    BY <2>2, <2>3, <2>5, <2>7, <2>8, StepInv
<1>5. QED
  BY <1>3, <1>4 DEF BeginClaim

LEMMA BeginEpochInv ==
  ASSUME IInv, NEW t \in Threads, BeginEpoch(t) PROVE IInv'
<1> DEFINE pc == IF epoch < EpochMax THEN "start" ELSE "exhausted"
<1>1. /\ At(t, "epoch") /\ L!BeginEpoch(t) /\ Goto(t, pc)
      /\ UNCHANGED <<gate, poisoned, bound, kv, calls>>
  BY DEF BeginEpoch
<1>2. /\ Others(t) /\ SameRequest(call[t], call'[t])
      /\ SamePass(call[t], call'[t])
      /\ call'[t].pc = pc /\ call'[t].error = call[t].error
      /\ call'[t].result = call[t].result
  BY <1>1, Now, GotoCall DEF Pc
<1>3. \/ /\ pc = "start" /\ stage'[t] = "held"
         /\ lease'[t].phase = "Fresh"
      \/ /\ pc = "exhausted" /\ stage'[t] = "exhausted"
  <2>1. epoch \in Nat /\ EpochMax \in Nat
    BY NumbersNat DEF IInv, TypeOK, L!TypeOK
  <2>2. QED
    BY Now, <1>1, <2>1 DEF L!BeginEpoch, L!FreshLease
<1>4. RequestOK(call[t], lease[t])'
  BY Now, <1>1, <1>2, <1>3
     DEF RequestOK, At, SamePass, SameRequest, Admitted
<1>5. LeaseStep(t)
  BY <1>1 DEF LeaseStep
<1>6. Frame(t)
  BY Now, <1>1, <1>2 DEF Frame, Others
<1>7. LockOK(t)'
  BY Now, <1>1, <1>2, <1>3
     DEF LockOK, At, InGate, IsBound, InKv, InLease, Pc, SameRequest
<1>8. NoBusy(t) /\ ExtentKept(t)
  BY Now, <1>1, <1>2 DEF NoBusy, ExtentKept, RequestOK, At, InKv
<1>9. QED
  BY <1>4, <1>5, <1>6, <1>7, <1>8, StepInv

LEMMA BeginExhaustedInv ==
  ASSUME IInv, NEW t \in Threads, BeginExhausted(t) PROVE IInv'
<1>1. /\ At(t, "exhausted") /\ L!BeginExhausted(t)
      /\ kv' = [kv EXCEPT !.holder = Nobody]
      /\ Answer(t, "leave", "Epoch")
      /\ UNCHANGED <<gate, poisoned, bound, calls>>
  BY DEF BeginExhausted
<1>2. /\ Others(t) /\ SameRequest(call[t], call'[t])
      /\ SamePass(call[t], call'[t])
      /\ call'[t].pc = "leave" /\ call'[t].error = call[t].error
      /\ call'[t].result = "Epoch"
  BY <1>1, Now, AnswerCall DEF Pc, Result
<1>3. stage'[t] = "none"
  BY Now, <1>1 DEF L!BeginExhausted
<1>4. RequestOK(call[t], lease[t])'
  BY Now, <1>1, <1>2 DEF RequestOK, At
<1>5. LeaseStep(t)
  BY <1>1 DEF LeaseStep
<1>6. kv'.holder = Nobody /\ kv'.seqLen = kv.seqLen /\ kv.holder = t
      /\ kv' \in [holder : Threads \cup {Nobody}, seqLen : 0 .. Capacity]
  BY Now, <1>1 DEF LockOK, At, InKv
<1>7. Frame(t)
  BY Now, <1>1, <1>2, <1>6 DEF Frame, Others
<1>8. LockOK(t)'
  BY Now, <1>1, <1>2, <1>3, <1>6
     DEF LockOK, At, InGate, IsBound, InKv, InLease, Pc, SameRequest
<1>9. NoBusy(t) /\ ExtentKept(t)
  BY <1>2, <1>3, <1>6 DEF NoBusy, ExtentKept, L!Open
<1>10. QED
  BY <1>4, <1>5, <1>7, <1>8, <1>9, StepInv

\* A binding is only ever made by the thread that holds the gate.
LEMMA BoundByGate ==
  ASSUME IInv, NEW t \in Threads, NEW r \in Runtimes, gate[r] = t
  PROVE  bound[r] \in {t, Nobody}
<1>1. ASSUME NEW u \in Threads, bound[r] = u PROVE u = t
  <2>1. call[u].pc \in IsBound /\ call[u].rt = r
    BY <1>1 DEF IInv, LocksOK, LockOK
  <2>2. call[u].pc \in InGate
    BY <2>1 DEF IsBound, InGate, Pc
  <2>3. QED
    BY <2>1, <2>2 DEF IInv, LocksOK, LockOK
<1>2. QED
  BY <1>1, Now

LEMMA BeginStartInv ==
  ASSUME IInv, NEW t \in Threads, BeginStart(t) PROVE IInv'
<1> DEFINE r == call[t].rt
<1>1. /\ At(t, "start") /\ L!StartPrefill(t, call[t].prompt)
      /\ kv' = [holder |-> Nobody, seqLen |-> 0]
      /\ bound' = [bound EXCEPT ![r] = t]
      /\ call' = [call EXCEPT ![t].pc = "forward", ![t].left = call[t].prompt]
      /\ UNCHANGED <<gate, poisoned, calls>>
  BY DEF BeginStart
<1>2. call[t].prompt \in Nat /\ call[t].prompt <= Capacity
      /\ call[t].limit \in Nat
  BY Now, <1>1, SizesPos DEF RequestOK, Admitted, At, CallType
<1>3. /\ Others(t) /\ SameRequest(call[t], call'[t])
      /\ call'[t].pc = "forward" /\ call'[t].left = call[t].prompt
      /\ call'[t].from = call[t].from /\ call'[t].text = call[t].text
      /\ call'[t].error = call[t].error
      /\ call'[t].result = call[t].result
  BY SMTT(30), Now, <1>1, <1>2 DEF CallType, Pc, Others, SameRequest
<1>4. /\ lease'[t].phase = "Prefill" /\ lease'[t].prompt = call[t].prompt
      /\ lease'[t].processed = 0 /\ lease'[t].pending = L!NoWrite
      /\ ~lease'[t].closed /\ stage'[t] = "held"
  <2>1. /\ lease[t].processed = 0 /\ lease[t].pending = L!NoWrite
        /\ ~lease[t].closed
    BY Now, InHand, <1>1
       DEF L!StartPrefill, LP!PrefixOK, LP!NoWrite, L!NoWrite, At, InLease
  <2>2. QED
    BY Now, <1>1, <2>1 DEF L!StartPrefill, L!Lease
<1>5. RequestOK(call[t], lease[t])'
  <2>1. PassOK(call[t], lease[t])'
    BY Now, <1>1, <1>2, <1>3, <1>4 DEF RequestOK, PassOK, At, SameRequest
  <2>2. QED
    BY Now, <1>1, <1>3, <2>1 DEF RequestOK, At, SameRequest, Admitted
<1>6. LeaseStep(t)
  BY <1>1, <1>2 DEF LeaseStep
<1>7. /\ r \in Runtimes /\ gate[r] = t /\ kv.holder = t
      /\ bound[r] \in {t, Nobody}
  <2>1. r \in Runtimes /\ gate[r] = t /\ kv.holder = t
    BY Now, <1>1 DEF LockOK, At, InKv, InGate, Pc
  <2>2. QED
    BY <2>1, BoundByGate
<1>8. Frame(t)
  BY Now, <1>1, <1>3, <1>7, SizesPos DEF Frame, Others
<1>9. LockOK(t)'
  <2>1. \A q \in Runtimes : bound'[q] = t <=> q = r
    BY Now, <1>1, <1>7 DEF LockOK, At, IsBound
  <2>2. QED
    BY Now, <1>1, <1>3, <1>4, <1>7, <2>1
       DEF LockOK, At, InGate, IsBound, InKv, InLease, Pc, SameRequest
<1>10. NoBusy(t) /\ ExtentSet(t)
  BY Now, <1>1, <1>3, <1>4
     DEF NoBusy, ExtentSet, RequestOK, At, InGate, Pc
<1>11. QED
  BY <1>5, <1>6, <1>8, <1>9, <1>10, StepInv

-----------------------------------------------------------------------------
(* The passes *)

\* A step of the lease and of the call alone; the extent is only read again
\* when the lock is released.
LEMMA LeaseMoveInv ==
  ASSUME IInv, NEW t \in Threads, Others(t), LeaseStep(t), stage' = stage,
         UNCHANGED <<gate, poisoned, bound, kv, calls>>,
         call'[t].rt = call[t].rt, call'[t].result # "Busy",
         SameHolding(call[t].pc, call'[t].pc),
         RequestOK(call[t], lease[t])',
         call'[t].pc \in InKv \/ lease'[t].closed
  PROVE  IInv'
<1>1. Frame(t)
  BY Now DEF Frame, Others
<1>2. LockOK(t)'
  BY Now DEF LockOK, SameHolding
<1>3. NoBusy(t) /\ ExtentKept(t)
  BY DEF NoBusy, ExtentKept, L!Open
<1>4. QED
  BY <1>1, <1>2, <1>3, StepInv

LEMMA ForwardInv ==
  ASSUME IInv, NEW t \in Threads, Forward(t) PROVE IInv'
<1>1. At(t, "forward") /\ KvFree
      /\ UNCHANGED <<leaseVars, gate, poisoned, bound, calls>>
  BY DEF Forward
<1>2. CASE Answer(t, "unbind", "Panic") /\ UNCHANGED kv
  BY <1>1, <1>2, PanicInv DEF At
<1>3. CASE Goto(t, "chunk") /\ kv' = [kv EXCEPT !.holder = t]
  <2>1. /\ Others(t) /\ SameRequest(call[t], call'[t])
        /\ SamePass(call[t], call'[t])
        /\ call'[t].pc = "chunk" /\ call'[t].error = call[t].error
        /\ call'[t].result = call[t].result
    BY <1>3, Now, GotoCall DEF Pc
  <2>2. RequestOK(call[t], lease[t])'
    <3>1. lease' = lease
      BY <1>1 DEF leaseVars
    <3>2. PassOK(call[t], lease[t])'
      BY Now, <1>1, <2>1, <3>1
         DEF RequestOK, PassOK, At, SameRequest, SamePass
    <3>3. QED
      BY Now, <1>1, <2>1, <3>1, <3>2
         DEF RequestOK, At, SameRequest, SamePass, Admitted
  <2>3. LeaseStep(t) /\ UNCHANGED <<stage, lease>>
    BY <1>1 DEF LeaseStep, leaseVars
  <2>4. kv'.holder = t /\ kv'.seqLen = kv.seqLen
        /\ kv' \in [holder : Threads \cup {Nobody}, seqLen : 0 .. Capacity]
    BY Now, <1>3
  <2>5. Frame(t)
    BY Now, <1>1, <2>1, <2>4 DEF Frame, Others, KvFree
  <2>6. LockOK(t)'
    BY Now, <1>1, <2>1, <2>3, <2>4
       DEF LockOK, At, InGate, IsBound, InKv, InLease, Pc, SameRequest
  <2>7. NoBusy(t) /\ ExtentKept(t)
    BY Now, <1>1, <2>1, <2>4 DEF NoBusy, ExtentKept, RequestOK, At, InKv
  <2>8. QED
    BY <2>2, <2>3, <2>5, <2>6, <2>7, StepInv
<1>4. QED
  BY <1>2, <1>3 DEF Forward

LEMMA PrepareInv ==
  ASSUME IInv, NEW t \in Threads, Prepare(t) PROVE IInv'
<1> DEFINE c == call[t]
<1>1. At(t, "chunk") /\ c.left > 0
      /\ UNCHANGED <<gate, poisoned, bound, kv, calls>>
  BY DEF Prepare
<1>2. /\ c.error = "none" /\ c.result = "none" /\ PassOK(c, lease[t])
      /\ Admitted(c) /\ c.prompt > 0 /\ c.text < c.limit
  BY Now, <1>1 DEF RequestOK, At
<1>3. /\ c.from \in Nat /\ c.left \in Nat /\ c.text \in Nat
      /\ Chunk \in Nat \ {0} /\ Rows(c) \in Nat
  BY Now, SizesPos DEF CallType, Rows
<1>4. CASE Fail(t, "seqlen", "Gpu") /\ UNCHANGED leaseVars
  <2>1. /\ Others(t) /\ SameRequest(call[t], call'[t])
        /\ SamePass(call[t], call'[t])
        /\ call'[t].pc = "seqlen" /\ call'[t].result = call[t].result
        /\ call'[t].error # "none"
    BY <1>4, Now, FailCall DEF Pc, Error
  <2>2. RequestOK(call[t], lease[t])'
    BY <1>2, <2>1 DEF RequestOK, SameRequest, SamePass, Admitted
  <2>3. QED
    BY <1>1, <1>4, <2>1, <2>2, Holding, QuietInv DEF SameRequest, At
<1>5. ASSUME Goto(t, "gpu"),
             \/ L!PreparePrefillChunk(t, c.from, Rows(c))
             \/ Rows(c) = 1 /\ L!PrepareDecode(t, c.from)
      PROVE  IInv'
  <2>1. /\ Others(t) /\ SameRequest(call[t], call'[t])
        /\ SamePass(call[t], call'[t])
        /\ call'[t].pc = "gpu" /\ call'[t].error = call[t].error
        /\ call'[t].result = call[t].result
    BY <1>5, Now, GotoCall DEF Pc
  <2>2. c.from \in 0 .. Capacity /\ Rows(c) \in 0 .. Capacity
    <3>1. Capacity \in Nat
      BY SizesPos
    <3>2. c.from + Rows(c) <= Capacity
      BY <1>5 DEF L!PreparePrefillChunk, L!PrepareDecode, L!Fits
    <3>3. QED
      BY <1>3, <3>1, <3>2
  <2>3. LeaseStep(t) /\ stage' = stage
    BY <1>5, <2>2
       DEF LeaseStep, L!PreparePrefillChunk, L!PrepareDecode, L!Prepare
  <2> DEFINE phase == IF c.text = 0 THEN "Prefill" ELSE "Decode"
             w == [epoch |-> lease[t].epoch, start |-> c.from,
                   count |-> Rows(c), phase |-> phase]
  <2>4. L!Prepare(t, c.from, Rows(c), phase)
    BY <1>1, <1>2, <1>5 DEF L!PreparePrefillChunk, L!PrepareDecode, PassOK, At
  <2>5. /\ lease' = [lease EXCEPT ![t].phase = phase, ![t].pending = w]
        /\ issued' = issued \cup {w}
    BY <2>4 DEF L!Prepare
  <2>6. w.start = c.from /\ w.count = Rows(c)
    OBVIOUS
  <2> HIDE DEF w, phase
  <2>7. /\ lease'[t].phase = phase /\ lease'[t].pending = w /\ w \in issued'
        /\ lease'[t].closed = lease[t].closed
        /\ lease'[t].prompt = lease[t].prompt
        /\ lease'[t].processed = lease[t].processed
    BY Now, <2>5 DEF L!Lease
  <2>8. PassOK(call[t], lease[t])'
    <3>1. Rows(call'[t]) = Rows(c)
      BY <2>1 DEF Rows, SamePass
    <3>2. QED
      BY <1>1, <1>2, <2>1, <2>6, <2>7, <3>1
         DEF PassOK, SameRequest, SamePass, phase, At, Rows
  <2>9. RequestOK(call[t], lease[t])'
    BY <1>2, <2>1, <2>8 DEF RequestOK, SameRequest, SamePass, Admitted
  <2>10. QED
    BY <1>1, <1>2, <2>1, <2>3, <2>9, Holding, LeaseMoveInv
       DEF SameRequest, At, InKv
<1>6. QED
  BY <1>4, <1>5 DEF Prepare

LEMMA GpuDoneInv ==
  ASSUME IInv, NEW t \in Threads, GpuDone(t) PROVE IInv'
<1> DEFINE c == call[t]
           w == lease[t].pending
           from == c.from + w.count
           left == c.left - w.count
<1>1. /\ At(t, "gpu") /\ L!Commit(t, w)
      /\ call' = [call EXCEPT ![t].pc = "chunk", ![t].from = from,
                              ![t].left = left]
      /\ UNCHANGED <<gate, poisoned, bound, kv, calls>>
  BY Now DEF GpuDone, CallType
<1>2. /\ c.error = "none" /\ c.result = "none" /\ PassOK(c, lease[t])
      /\ Admitted(c) /\ c.prompt > 0 /\ c.text < c.limit
  BY Now, <1>1 DEF RequestOK, At
<1>3. /\ c.from \in Nat /\ c.left \in Nat /\ c.text \in Nat
      /\ c.prompt \in Nat
      /\ Chunk \in Nat \ {0} /\ c.left > 0 /\ Rows(c) \in 1 .. c.left
      /\ w.start = c.from /\ w.count = Rows(c) /\ w \in issued
  BY Now, SizesPos, <1>1, <1>2 DEF CallType, Rows, PassOK, At
<1>4. from \in Nat /\ left \in Nat /\ from + left = c.prompt + c.text
  BY <1>1, <1>2, <1>3 DEF PassOK
<1>5. /\ Others(t) /\ SameRequest(call[t], call'[t])
      /\ call'[t].pc = "chunk" /\ call'[t].from = from
      /\ call'[t].left = left /\ call'[t].text = c.text
      /\ call'[t].error = c.error /\ call'[t].result = c.result
  <2> HIDE DEF from, left
  <2>1. QED
    BY SMTT(30), Now, <1>1, <1>4 DEF CallType, Pc, Others, SameRequest
<1>6. /\ lease'[t].processed = from /\ lease'[t].pending = L!NoWrite
      /\ lease'[t].prompt = lease[t].prompt
      /\ lease'[t].closed = lease[t].closed
      /\ lease'[t].phase = IF lease[t].phase = "Decode"
                              \/ from = lease[t].prompt
                             THEN "Ready" ELSE lease[t].phase
  BY Now, <1>1, <1>3 DEF L!Commit, L!Committed, L!Lease
<1>7. PassOK(call[t], lease[t])'
  <2>1. c.text = 0 /\ left > 0 <=> c.text = 0 /\ from # c.prompt
    BY <1>3, <1>4
  <2>2. /\ lease[t].prompt = c.prompt /\ ~lease[t].closed
        /\ lease[t].phase = IF c.text = 0 THEN "Prefill" ELSE "Decode"
        /\ c.text > 0 => c.left <= 1
    BY <1>1, <1>2 DEF PassOK, At
  <2>3. c.text > 0 => left <= 1
    BY <1>3, <2>2
  <2> HIDE DEF from, left
  <2>4. QED
    BY <1>2, <1>3, <1>4, <1>5, <1>6, <2>1, <2>2, <2>3 DEF PassOK, SameRequest
<1>8. RequestOK(call[t], lease[t])'
  BY <1>2, <1>5, <1>7 DEF RequestOK, SameRequest, Admitted
<1>9. LeaseStep(t) /\ stage' = stage
  BY <1>1, <1>3 DEF LeaseStep, L!Commit
<1>10. QED
  BY <1>1, <1>2, <1>5, <1>8, <1>9, Holding, LeaseMoveInv
     DEF SameRequest, At, InKv

LEMMA GpuFailsInv ==
  ASSUME IInv, NEW t \in Threads, GpuFails(t) PROVE IInv'
<1>1. /\ At(t, "gpu") /\ L!Abort(t) /\ Fail(t, "seqlen", "Gpu")
      /\ UNCHANGED <<gate, poisoned, bound, kv, calls>>
  BY DEF GpuFails
<1>2. /\ call[t].error = "none" /\ call[t].result = "none"
      /\ Admitted(call[t]) /\ call[t].prompt > 0
      /\ call[t].text < call[t].limit
  BY Now, <1>1 DEF RequestOK, PassOK, At
<1>3. /\ Others(t) /\ SameRequest(call[t], call'[t])
      /\ SamePass(call[t], call'[t])
      /\ call'[t].pc = "seqlen" /\ call'[t].result = call[t].result
      /\ call'[t].error # "none"
  BY <1>1, Now, FailCall DEF Pc, Error
<1>4. RequestOK(call[t], lease[t])'
  BY <1>2, <1>3 DEF RequestOK, SameRequest, SamePass, Admitted
<1>5. LeaseStep(t) /\ stage' = stage
  BY <1>1 DEF LeaseStep, L!Abort
<1>6. QED
  BY <1>1, <1>2, <1>3, <1>4, <1>5, Holding, LeaseMoveInv
     DEF SameRequest, At, InKv

LEMMA GpuPanicsInv ==
  ASSUME IInv, NEW t \in Threads, GpuPanics(t) PROVE IInv'
<1>1. /\ At(t, "gpu") /\ Answer(t, "unbind", "Panic")
      /\ kv' = [kv EXCEPT !.holder = Nobody]
      /\ poisoned' = poisoned \cup {"kv"}
      /\ UNCHANGED <<leaseVars, gate, bound, calls>>
  BY DEF GpuPanics, KvPanic
<1>2. /\ Others(t) /\ SameRequest(call[t], call'[t])
      /\ SamePass(call[t], call'[t])
      /\ call'[t].pc = "unbind" /\ call'[t].error = call[t].error
      /\ call'[t].result = "Panic"
  BY <1>1, Now, AnswerCall DEF Pc, Result
<1>3. RequestOK(call[t], lease[t])'
  BY <1>2 DEF RequestOK
<1>4. LeaseStep(t) /\ UNCHANGED <<stage, lease>>
  BY <1>1 DEF LeaseStep, leaseVars
<1>5. kv'.holder = Nobody /\ kv'.seqLen = kv.seqLen /\ kv.holder = t
      /\ kv' \in [holder : Threads \cup {Nobody}, seqLen : 0 .. Capacity]
  BY Now, <1>1 DEF LockOK, At, InKv
<1>6. Frame(t)
  BY Now, <1>1, <1>2, <1>5 DEF Frame, Others
<1>7. LockOK(t)'
  BY Now, <1>1, <1>2, <1>4, <1>5
     DEF LockOK, At, InGate, IsBound, InKv, InLease, Pc, SameRequest
<1>8. NoBusy(t) /\ ExtentKept(t)
  BY <1>1, <1>2, <1>5 DEF NoBusy, ExtentKept
<1>9. QED
  BY <1>3, <1>4, <1>6, <1>7, <1>8, StepInv

LEMMA SetSeqLenInv ==
  ASSUME IInv, NEW t \in Threads, SetSeqLen(t) PROVE IInv'
<1>1. /\ At(t, "seqlen") /\ Goto(t, "sample")
      /\ kv' = [holder |-> Nobody, seqLen |-> lease[t].processed]
      /\ UNCHANGED <<leaseVars, gate, poisoned, bound, calls>>
  BY DEF SetSeqLen, Extent
<1>2. /\ Others(t) /\ SameRequest(call[t], call'[t])
      /\ SamePass(call[t], call'[t])
      /\ call'[t].pc = "sample" /\ call'[t].error = call[t].error
      /\ call'[t].result = call[t].result
  BY <1>1, Now, GotoCall DEF Pc
<1>3. LeaseStep(t) /\ UNCHANGED <<stage, lease>>
  BY <1>1 DEF LeaseStep, leaseVars
<1>4. RequestOK(call[t], lease[t])'
  BY Now, <1>1, <1>2, <1>3
     DEF RequestOK, At, SameRequest, SamePass, Admitted
<1>5. lease[t].processed \in 0 .. Capacity
  <2>1. lease[t].processed <= Capacity
    BY InHand, <1>1 DEF LP!PrefixOK, At, InLease, IsBound
  <2>2. QED
    BY Now, <2>1, SizesPos DEF L!Lease
<1>6. kv.holder = t
  BY Now, <1>1 DEF LockOK, At, InKv
<1>7. Frame(t)
  BY Now, <1>1, <1>2, <1>5, <1>6 DEF Frame, Others
<1>8. LockOK(t)'
  BY Now, <1>1, <1>2, <1>3
     DEF LockOK, At, InGate, IsBound, InKv, InLease, Pc, SameRequest
<1>9. NoBusy(t) /\ ExtentSet(t)
  BY Now, <1>1, <1>2, <1>3
     DEF NoBusy, ExtentSet, RequestOK, At, InGate, Pc
<1>10. QED
  BY <1>3, <1>4, <1>7, <1>8, <1>9, StepInv

-----------------------------------------------------------------------------
(* The end of the call *)

LEMMA WrapUpInv ==
  ASSUME IInv, NEW t \in Threads, WrapUp(t) PROVE IInv'
<1>1. At(t, "wrapup") /\ call[t].result = "none"
      /\ UNCHANGED <<gate, poisoned, bound, kv, calls>>
  BY Now DEF WrapUp, RequestOK, At
<1>2. ASSUME call[t].error # "none", Answer(t, "unbind", call[t].error),
             UNCHANGED leaseVars
      PROVE  IInv'
  <2>1. /\ Others(t) /\ SameRequest(call[t], call'[t])
        /\ SamePass(call[t], call'[t])
        /\ call'[t].pc = "unbind" /\ call'[t].error = call[t].error
        /\ call'[t].result = call[t].error
    BY <1>2, Now, AnswerCall DEF Pc, Result, CallType
  <2>2. RequestOK(call[t], lease[t])'
    BY <2>1 DEF RequestOK
  <2>3. call[t].error # "Busy"
    BY Now DEF CallType, Error
  <2>4. QED
    BY <1>1, <1>2, <2>1, <2>2, <2>3, Holding, QuietInv DEF SameRequest, At
<1>3. ASSUME call[t].error = "none", L!Finish(t), Goto(t, "reset")
      PROVE  IInv'
  <2>1. /\ Others(t) /\ SameRequest(call[t], call'[t])
        /\ SamePass(call[t], call'[t])
        /\ call'[t].pc = "reset" /\ call'[t].error = call[t].error
        /\ call'[t].result = call[t].result
    BY <1>3, Now, GotoCall DEF Pc
  <2>2. lease'[t].closed /\ stage' = stage
    BY Now, <1>3 DEF L!Finish, L!ClosedAs, L!Lease
  <2>3. RequestOK(call[t], lease[t])'
    BY <1>1, <1>3, <2>1, <2>2 DEF RequestOK
  <2>4. LeaseStep(t)
    BY <1>3 DEF LeaseStep
  <2>5. QED
    BY <1>1, <2>1, <2>2, <2>3, <2>4, Holding, LeaseMoveInv
       DEF SameRequest, At
<1>4. QED
  BY <1>2, <1>3 DEF WrapUp

LEMMA ResetInv ==
  ASSUME IInv, NEW t \in Threads, Reset(t) PROVE IInv'
<1>1. At(t, "reset") /\ KvFree /\ lease[t].closed
      /\ UNCHANGED <<leaseVars, gate, poisoned, bound, calls>>
  BY Now DEF Reset, RequestOK, At
<1>2. PICK res \in {"Panic", "Ok"} : Answer(t, "unbind", res)
  BY DEF Reset
<1>3. /\ Others(t) /\ SameRequest(call[t], call'[t])
      /\ SamePass(call[t], call'[t])
      /\ call'[t].pc = "unbind" /\ call'[t].error = call[t].error
      /\ call'[t].result = res
  BY <1>2, Now, AnswerCall DEF Pc, Result
<1>4. call[t].error = "none"
  BY Now, <1>1 DEF RequestOK, At
<1>5. RequestOK(call[t], lease[t])'
  BY <1>3, <1>4 DEF RequestOK
<1>6. LeaseStep(t) /\ UNCHANGED <<stage, lease>>
  BY <1>1 DEF LeaseStep, leaseVars
<1>7. kv' \in [holder : {Nobody}, seqLen : 0 .. Capacity]
  BY Now, <1>1, SizesPos DEF Reset, KvFree
<1>8. Frame(t)
  BY Now, <1>1, <1>3, <1>7 DEF Frame, Others, KvFree
<1>9. LockOK(t)'
  BY Now, <1>1, <1>3, <1>6, <1>7
     DEF LockOK, At, InGate, IsBound, InKv, InLease, Pc, SameRequest
<1>10. NoBusy(t) /\ ExtentSet(t)
  BY <1>1, <1>3, <1>6 DEF NoBusy, ExtentSet, L!Open, At, InGate, Pc
<1>11. QED
  BY <1>5, <1>6, <1>8, <1>9, <1>10, StepInv

LEMMA UnbindInv ==
  ASSUME IInv, NEW t \in Threads, Unbind(t) PROVE IInv'
<1> DEFINE r == call[t].rt
<1>1. /\ At(t, "unbind") /\ Goto(t, "drop")
      /\ bound' = [bound EXCEPT ![r] = IF bound[r] = t THEN Nobody ELSE bound[r]]
      /\ UNCHANGED <<leaseVars, gate, poisoned, kv, calls>>
  BY DEF Unbind
<1>2. /\ Others(t) /\ SameRequest(call[t], call'[t])
      /\ SamePass(call[t], call'[t])
      /\ call'[t].pc = "drop" /\ call'[t].error = call[t].error
      /\ call'[t].result = call[t].result
  BY <1>1, Now, GotoCall DEF Pc
<1>3. LeaseStep(t) /\ UNCHANGED <<stage, lease>>
  BY <1>1 DEF LeaseStep, leaseVars
<1>4. RequestOK(call[t], lease[t])'
  BY Now, <1>1, <1>2 DEF RequestOK, At
<1>5. r \in Runtimes /\ bound[r] = t
      /\ \A q \in Runtimes : bound[q] = t <=> q = r
  BY Now, <1>1 DEF LockOK, At, IsBound
<1>6. Frame(t)
  BY Now, <1>1, <1>2, <1>5 DEF Frame, Others
<1>7. \A q \in Runtimes : bound'[q] # t
  BY Now, <1>1, <1>5
<1>8. LockOK(t)'
  BY Now, <1>1, <1>2, <1>3, <1>7
     DEF LockOK, At, InGate, IsBound, InKv, InLease, Pc, SameRequest
<1>9. OneRuntime => NoBusy(t) /\ ExtentKept(t)
  BY Now, <1>1, <1>2, <1>3
     DEF NoBusy, ExtentKept, L!Open, IInv, SharedOK, NeverBusy, SameRequest,
         At, InKv
<1>10. QED
  BY <1>3, <1>4, <1>6, <1>8, <1>9, StepInv

LEMMA DropLeaseInv ==
  ASSUME IInv, NEW t \in Threads, DropLease(t) PROVE IInv'
<1>1. /\ At(t, "drop") /\ L!Drop(t) /\ Goto(t, "leave")
      /\ UNCHANGED <<gate, poisoned, bound, kv, calls>>
  BY DEF DropLease
<1>2. /\ Others(t) /\ SameRequest(call[t], call'[t])
      /\ SamePass(call[t], call'[t])
      /\ call'[t].pc = "leave" /\ call'[t].error = call[t].error
      /\ call'[t].result = call[t].result
  BY <1>1, Now, GotoCall DEF Pc
<1>3. LeaseStep(t) /\ stage'[t] = "none"
  BY Now, <1>1 DEF LeaseStep, L!Drop
<1>4. RequestOK(call[t], lease[t])'
  BY Now, <1>1, <1>2 DEF RequestOK, At
<1>5. Frame(t)
  BY Now, <1>1, <1>2 DEF Frame, Others
<1>6. LockOK(t)'
  BY Now, <1>1, <1>2, <1>3
     DEF LockOK, At, InGate, IsBound, InKv, InLease, Pc, SameRequest
<1>7. OneRuntime => NoBusy(t) /\ ExtentKept(t)
  BY Now, <1>1, <1>2, <1>3
     DEF NoBusy, ExtentKept, L!Open, IInv, SharedOK, NeverBusy, SameRequest,
         At
<1>8. QED
  BY <1>3, <1>4, <1>5, <1>6, <1>7, StepInv

LEMMA LeaveInv ==
  ASSUME IInv, NEW t \in Threads, Leave(t) PROVE IInv'
<1> DEFINE r == call[t].rt
<1>1. /\ At(t, "leave") /\ Goto(t, "idle")
      /\ gate' = [gate EXCEPT ![r] = Nobody]
      /\ poisoned' = poisoned \cup {x \in {r} : call[t].result = "Panic"}
      /\ UNCHANGED <<leaseVars, bound, kv, calls>>
  BY DEF Leave
<1>2. /\ Others(t) /\ SameRequest(call[t], call'[t])
      /\ SamePass(call[t], call'[t])
      /\ call'[t].pc = "idle" /\ call'[t].error = call[t].error
      /\ call'[t].result = call[t].result
  BY <1>1, Now, GotoCall DEF Pc
<1>3. LeaseStep(t) /\ UNCHANGED <<stage, lease>>
  BY <1>1 DEF LeaseStep, leaseVars
<1>4. RequestOK(call[t], lease[t])'
  BY <1>2 DEF RequestOK
<1>5. r \in Runtimes /\ gate[r] = t
      /\ \A q \in Runtimes : gate[q] = t <=> q = r
  BY Now, <1>1 DEF LockOK, At, InGate, Pc
<1>6. Frame(t)
  BY Now, <1>1, <1>2, <1>5 DEF Frame, Others
<1>7. \A q \in Runtimes : gate'[q] # t
  BY Now, <1>1, <1>5
<1>8. LockOK(t)'
  BY Now, <1>1, <1>2, <1>3, <1>7
     DEF LockOK, At, InGate, IsBound, InKv, InLease, SameRequest
<1>9. OneRuntime => NoBusy(t) /\ ExtentKept(t)
  BY Now, <1>1, <1>2, <1>3
     DEF NoBusy, ExtentKept, L!Open, IInv, SharedOK, NeverBusy, SameRequest,
         At, LockOK, InLease, IsBound
<1>10. QED
  BY <1>3, <1>4, <1>6, <1>8, <1>9, StepInv

-----------------------------------------------------------------------------
LEMMA InitInv == Init => IInv
<1> SUFFICES ASSUME Init PROVE IInv
  OBVIOUS
<1>1. L!Init /\ LP!IInv /\ L!TypeOK
  BY LeaseInit, LeaseTypes DEF Init
<1>2. Idle \in CallType /\ Idle.pc = "idle" /\ Idle.error = "none"
      /\ Idle.result = "none"
  BY DEF Idle, CallType, Pc, Error, Result
<1>3. /\ \A t \in Threads : call[t] = Idle /\ stage[t] = "none" /\ t # Nobody
      /\ \A r \in Runtimes : gate[r] = Nobody /\ bound[r] = Nobody
      /\ kv.holder = Nobody /\ kv.seqLen = 0
  BY <1>1, NobodyNoThread DEF Init, L!Init
<1>4. TypeOK
  BY <1>1, <1>2, SizesPos, NumbersNat DEF Init, TypeOK, CallType
<1>5. LocksOK
  BY <1>2, <1>3 DEF LocksOK, LockOK, InGate, IsBound, InKv, InLease
<1>6. EachRequestOK
  BY <1>2, <1>3 DEF EachRequestOK, RequestOK
<1>7. SharedOK
  BY <1>2, <1>3 DEF SharedOK, NeverBusy, L!Open
<1>8. QED
  BY <1>1, <1>4, <1>5, <1>6, <1>7 DEF IInv

LEMMA NextInv == IInv /\ [Next]_vars => IInv'
<1> SUFFICES ASSUME IInv, [Next]_vars PROVE IInv'
  OBVIOUS
<1>1. ASSUME NEW t \in Threads, Generate(t) \/ TryReset(t) \/ Step(t)
      PROVE  IInv'
  BY <1>1, GenerateInv, TryResetInv, EnterGateInv, TryResetKvInv, CheckInv,
     BeginClaimInv, BeginEpochInv, BeginExhaustedInv, BeginStartInv,
     ForwardInv, DequantPanicsInv, PrepareInv, GpuDoneInv, GpuFailsInv,
     GpuPanicsInv, PassDoneInv, SetSeqLenInv, BlockedInv, HookFailsInv,
     StopInv, TokenInv, CallbackPanicsInv, WrapUpInv, ResetInv, UnbindInv,
     DropLeaseInv, LeaveInv
     DEF Step
<1>2. CASE UNCHANGED vars
  <2>1. LP!IInv'
    BY <1>2, LP!NextInv, LeaseParameters DEF vars, leaseVars, LP!vars, IInv
  <2>2. TypeOK' /\ LocksOK' /\ EachRequestOK' /\ SharedOK'
    BY <1>2
       DEF IInv, vars, leaseVars, TypeOK, L!TypeOK, LocksOK, LockOK,
           EachRequestOK, RequestOK, PassOK, SharedOK, NeverBusy, L!Open,
           OneRuntime
  <2>3. QED
    BY <2>1, <2>2 DEF IInv
<1>3. QED
  BY <1>1, <1>2 DEF Next

LEMMA Invariance == Spec => []IInv
  BY InitInv, NextInv, PTL DEF Spec

-----------------------------------------------------------------------------
(* What holds for any number of runtimes over the cache *)

\* Type correctness.
THEOREM TypeCorrect == Spec => []TypeOK
<1>1. IInv => TypeOK
  BY DEF IInv
<1>2. QED
  BY <1>1, Invariance, PTL

\* GPU work on the shared buffers belongs to the one thread that holds the
\* cache, is bound to its model and has the controller's open lease.
THEOREM WorkIsOwned == Spec => []GpuWorkIsOwned
<1>1. IInv => GpuWorkIsOwned
  <2> SUFFICES ASSUME IInv, NEW t \in Threads, At(t, "gpu")
               PROVE  /\ kv.holder = t
                      /\ bound[call[t].rt] = t
                      /\ L!CheckIdentity(t)
                      /\ lease[t].pending.start = call[t].from
                      /\ \A u \in Threads \ {t} : ~L!Open(u)
    BY DEF GpuWorkIsOwned
  <2>1. kv.holder = t /\ bound[call[t].rt] = t
    BY Now DEF At, LockOK, InKv, IsBound
  <2>2. lease[t].pending.start = call[t].from /\ ~lease[t].closed
    BY Now DEF At, RequestOK, PassOK
  <2>3. stage[t] = "held" /\ L!Open(t) /\ lease[t].epoch = epoch
    BY <2>2, InHand DEF At, InLease, IsBound, L!Open
  <2>4. \A u \in Threads \ {t} : ~L!Open(u)
    BY <2>3 DEF IInv, LP!IInv, LP!ExclusiveOwner, LP!Owns, LP!Open, L!Open
  <2>5. QED
    BY <2>1, <2>2, <2>3, <2>4 DEF L!CheckIdentity
<1>2. QED
  BY <1>1, Invariance, PTL

\* However a call ends, it leaves no lock, binding, lease or claim behind.
THEOREM NoLeaks == Spec => []NothingLeaks
<1>1. IInv => NothingLeaks
  <2> SUFFICES ASSUME IInv PROVE NothingLeaks
    OBVIOUS
  <2>1. ASSUME NEW t \in Threads, call[t].pc \in {"idle", "gate"}
        PROVE  /\ kv.holder # t
               /\ \A r \in Runtimes : gate[r] # t /\ bound[r] # t
               /\ stage[t] = "none"
    BY Now, <2>1
       DEF LockOK, InGate, IsBound, InKv, InLease, L!Stage
  <2>2. (\A t \in Threads : stage[t] = "none") => ~active
    BY DEF IInv, LP!IInv, LP!ExclusiveOwner, LP!Owns, LP!Open
  <2>3. QED
    BY <2>1, <2>2 DEF NothingLeaks
<1>2. QED
  BY <1>1, Invariance, PTL

\* The positions handed out with the tokens are the ones the lease expects.
LEMMA ExtentFollows == IInv => ExtentFollowsTokens
<1> SUFFICES ASSUME IInv, NEW t \in Threads
             PROVE  /\ At(t, "sample") /\ call[t].error = "none" =>
                         lease[t].processed = call[t].prompt + call[t].text
                    /\ At(t, "forward") /\ call[t].text > 0 =>
                         lease[t].processed
                           = call[t].prompt + call[t].text - 1
  BY DEF ExtentFollowsTokens
<1>1. At(t, "sample") /\ call[t].error = "none" =>
        lease[t].processed = call[t].prompt + call[t].text
  BY Now DEF At, RequestOK
<1>2. ASSUME At(t, "forward"), call[t].text > 0
      PROVE  lease[t].processed = call[t].prompt + call[t].text - 1
  <2>1. PassOK(call[t], lease[t])
    BY Now, <1>2 DEF At, RequestOK
  <2>2. /\ call[t].from \in Nat /\ call[t].left \in Nat
        /\ call[t].prompt \in Nat /\ call[t].text \in Nat
    BY Now DEF CallType
  <2>3. call[t].left = 1
    BY <1>2, <2>1, <2>2 DEF PassOK, At
  <2>4. QED
    BY <2>1, <2>2, <2>3 DEF PassOK
<1>3. QED
  BY <1>1, <1>2

\* A step of u leaves the calls of the others alone.
LEMMA OthersKept ==
  ASSUME IInv, NEW u \in Threads, Generate(u) \/ TryReset(u) \/ Step(u),
         NEW t \in Threads, t # u
  PROVE  call'[t] = call[t]
<1>1. call \in [Threads -> CallType]
  BY Now
<1>2. ASSUME NEW pc, Goto(u, pc) PROVE call'[t] = call[t]
  BY <1>1, <1>2 DEF Goto
<1>3. ASSUME NEW pc, NEW r, Answer(u, pc, r) PROVE call'[t] = call[t]
  BY <1>1, <1>3 DEF Answer
<1>4. ASSUME NEW pc, NEW e, Fail(u, pc, e) PROVE call'[t] = call[t]
  BY <1>1, <1>4 DEF Fail
<1>5. CASE Generate(u) \/ BeginStart(u) \/ GpuDone(u) \/ Token(u)
  BY <1>1, <1>5 DEF Generate, BeginStart, GpuDone, Token
<1>6. CASE TryReset(u)
  BY <1>1, <1>6 DEF TryReset
<1>7. CASE \/ EnterGate(u) \/ TryResetKv(u) \/ Check(u) \/ BeginClaim(u)
           \/ BeginEpoch(u) \/ BeginExhausted(u) \/ Forward(u)
           \/ DequantPanics(u)
  BY <1>2, <1>3, <1>7
     DEF EnterGate, TryResetKv, Check, BeginClaim, BeginEpoch,
         BeginExhausted, Forward, DequantPanics
<1>8. CASE \/ Prepare(u) \/ GpuFails(u) \/ GpuPanics(u) \/ PassDone(u)
           \/ SetSeqLen(u) \/ Blocked(u) \/ HookFails(u) \/ Stop(u)
  BY <1>2, <1>3, <1>4, <1>8
     DEF Prepare, GpuFails, GpuPanics, KvPanic, PassDone, SetSeqLen,
         Blocked, HookFails, Stop
<1>9. CASE \/ CallbackPanics(u) \/ WrapUp(u) \/ Reset(u) \/ Unbind(u)
           \/ DropLease(u) \/ Leave(u)
  BY <1>2, <1>3, <1>9
     DEF CallbackPanics, WrapUp, Reset, Unbind, DropLease, Leave
<1>10. QED
  BY <1>5, <1>6, <1>7, <1>8, <1>9 DEF Step

\* After its first error a call streams nothing, keeps the error and ends
\* with it, or with a panic.
THEOREM FirstErrorWins == Spec => ErrorIsFinal
<1> DEFINE Kept(t) ==
      call[t].error # "none" /\ call[t].pc # "idle" =>
        /\ call'[t].error = call[t].error
        /\ call'[t].text = call[t].text
        /\ call'[t].result \in {"none", "Panic", call[t].error}
<1>1. ASSUME IInv, [Next]_vars, NEW t \in Threads PROVE Kept(t)
  <2> SUFFICES ASSUME call[t].error # "none", call[t].pc # "idle"
               PROVE  /\ call'[t].error = call[t].error
                      /\ call'[t].text = call[t].text
                      /\ call'[t].result \in {"none", "Panic", call[t].error}
    OBVIOUS
  <2>1. /\ call[t].pc \in {"seqlen", "sample", "wrapup", "unbind", "drop",
                           "leave"}
        /\ call[t].result \in {"none", "Panic", call[t].error}
    BY <1>1, Now DEF RequestOK
  <2>2. CASE UNCHANGED vars
    BY <2>1, <2>2 DEF vars
  <2>3. ASSUME NEW u \in Threads, Generate(u) \/ TryReset(u) \/ Step(u),
               u # t
        PROVE  call'[t] = call[t]
    BY <1>1, <2>3, OthersKept
  <2>4. ASSUME Generate(t) \/ TryReset(t) \/ Step(t)
        PROVE  \/ \E pc \in Pc : Goto(t, pc)
               \/ \E pc \in Pc : Answer(t, pc, "Panic")
               \/ \E pc \in Pc : Answer(t, pc, call[t].error)
    BY <2>1, <2>4
       DEF Step, At, HookBlocks, Generate, TryReset, EnterGate, TryResetKv,
           Check, BeginClaim, BeginEpoch, BeginExhausted, BeginStart,
           Forward, DequantPanics, Prepare, GpuDone, GpuFails, GpuPanics,
           PassDone, SetSeqLen, Blocked, HookFails, Stop, Token,
           CallbackPanics, WrapUp, Reset, Unbind, DropLease, Leave, Pc
  <2>5. ASSUME Generate(t) \/ TryReset(t) \/ Step(t)
        PROVE  /\ call'[t].error = call[t].error
               /\ call'[t].text = call[t].text
               /\ call'[t].result \in {"none", "Panic", call[t].error}
    <3>1. call \in [Threads -> CallType] /\ call[t].error \in Result
          /\ "Panic" \in Result
      BY <1>1, Now DEF CallType, Result
    <3>2. QED
      BY <2>1, <2>4, <2>5, <3>1, GotoCall, AnswerCall DEF SamePass
  <2>6. QED
    BY <1>1, <2>1, <2>2, <2>3, <2>5 DEF Next
<1>2. IInv /\ [Next]_vars =>
        [\A t \in Threads : call[t].error # "none" /\ call[t].pc # "idle" =>
           /\ call'[t].error = call[t].error
           /\ call'[t].text = call[t].text
           /\ call'[t].result \in {"none", "Panic", call[t].error}]_vars
  BY <1>1
<1>3. QED
  BY <1>2, Invariance, PTL DEF Spec, ErrorIsFinal

-----------------------------------------------------------------------------
(* The leases under the runtime are StateLease's *)

\* Every step of a call is a step of its lease, or leaves the leases alone.
LEMMA StepOfLease ==
  ASSUME IInv, NEW t \in Threads, Generate(t) \/ TryReset(t) \/ Step(t)
  PROVE  LeaseStep(t)
<1> DEFINE c == call[t]
<1>1. CASE BeginClaim(t)
  BY <1>1 DEF BeginClaim, LeaseStep
<1>2. CASE BeginEpoch(t) \/ BeginExhausted(t)
  BY <1>2 DEF BeginEpoch, BeginExhausted, LeaseStep
<1>3. CASE BeginStart(t)
  <2>1. c.prompt \in 0 .. Capacity
    BY Now, <1>3, SizesPos DEF BeginStart, At, CallType, L!StartPrefill
  <2>2. QED
    BY <1>3, <2>1 DEF BeginStart, LeaseStep
<1>4. CASE Prepare(t)
  <2>1. CASE UNCHANGED leaseVars
    BY <2>1 DEF LeaseStep
  <2>2. CASE \/ L!PreparePrefillChunk(t, c.from, Rows(c))
             \/ Rows(c) = 1 /\ L!PrepareDecode(t, c.from)
    <3>1. /\ c.from \in Nat /\ Rows(c) \in Nat /\ Capacity \in Nat
      BY Now, SizesPos DEF CallType, Rows
    <3>2. c.from + Rows(c) <= Capacity
      BY <2>2 DEF L!PreparePrefillChunk, L!PrepareDecode, L!Fits
    <3>3. c.from \in 0 .. Capacity /\ Rows(c) \in 0 .. Capacity
      BY <3>1, <3>2
    <3>4. QED
      BY <2>2, <3>3 DEF LeaseStep
  <2>3. QED
    BY <1>4, <2>1, <2>2 DEF Prepare
<1>5. CASE GpuDone(t)
  <2>1. lease[t].pending \in issued
    BY Now, <1>5 DEF GpuDone, At, RequestOK, PassOK
  <2>2. QED
    BY <1>5, <2>1 DEF GpuDone, LeaseStep
<1>6. CASE GpuFails(t)
  BY <1>6 DEF GpuFails, LeaseStep
<1>7. CASE WrapUp(t)
  BY <1>7 DEF WrapUp, LeaseStep
<1>8. CASE DropLease(t)
  BY <1>8 DEF DropLease, LeaseStep
<1>9. QED
  BY <1>1, <1>2, <1>3, <1>4, <1>5, <1>6, <1>7, <1>8
     DEF LeaseStep, Step, Generate, TryReset, EnterGate, TryResetKv, Check,
         Forward, DequantPanics, GpuPanics, PassDone, SetSeqLen, Blocked,
         HookFails, Stop, Token, CallbackPanics, Reset, Unbind, Leave

\* So the state of a store goes only where StateLease lets it.
LEMMA StoreIsStateLease == Spec => L!Spec
<1>1. Init => L!Init
  BY DEF Init
<1>2. IInv /\ [Next]_vars => [L!Next]_(L!vars)
  <2>1. ASSUME IInv, NEW t \in Threads,
               Generate(t) \/ TryReset(t) \/ Step(t)
        PROVE  [L!Next]_(L!vars)
    BY <2>1, StepOfLease, LeaseStepIsNext
  <2>2. ASSUME UNCHANGED vars PROVE [L!Next]_(L!vars)
    BY <2>2 DEF vars, leaseVars, L!vars
  <2>3. QED
    BY <2>1, <2>2 DEF Next
<1>3. QED
  BY <1>1, <1>2, Invariance, PTL DEF Spec, L!Spec

\* Requests of all runtimes together keep the committed-prefix contract: one
\* holder of the store at a time, and a prefix that grows contiguously.
THEOREM RequestsKeepContract == Spec => LP!ContractSpec
<1>1. L!Init => LP!Init
  BY DEF L!Init, LP!Init, L!FreshLease, LP!FreshLease, L!NoWrite, LP!NoWrite
<1>2. [L!Next]_(L!vars) => [LP!Next]_(LP!vars)
  BY SameNext DEF L!vars, LP!vars
<1>3. L!Spec => LP!Spec
  BY <1>1, <1>2, PTL DEF L!Spec, LP!Spec
<1>4. LP!Spec => LP!ContractSpec
  BY LP!LeasesImplementContract, LeaseParameters
<1>5. QED
  BY <1>3, <1>4, StoreIsStateLease, PTL

-----------------------------------------------------------------------------
(* What holds with one runtime over the cache *)

\* An admitted request is turned away neither by an earlier call's leftovers
\* nor by its own lease.
THEOREM AcceptedWhenAlone ==
  ASSUME OneRuntime PROVE Spec => []RequestIsAccepted
<1>1. IInv => RequestIsAccepted
  <2> SUFFICES ASSUME IInv PROVE RequestIsAccepted
    OBVIOUS
  <2>1. NeverBusy
    BY DEF IInv, SharedOK
  <2>2. ASSUME NEW t \in Threads, At(t, "begin")
        PROVE  bound[call[t].rt] = Nobody
    <3>1. /\ call[t].rt \in Runtimes /\ gate[call[t].rt] = t
          /\ bound[call[t].rt] # t
      BY Now, <2>2 DEF At, LockOK, InGate, IsBound, Pc
    <3>2. QED
      BY <3>1, BoundByGate
  <2>3. ASSUME NEW t \in Threads, At(t, "chunk"), call[t].left > 0
        PROVE  /\ L!CheckIdentity(t)
               /\ L!RequireRead(t, 0, call[t].from)
               /\ \/ lease[t].phase = "Prefill"
                  \/ lease[t].phase = "Ready" /\ Rows(call[t]) = 1
               /\ L!Fits(lease[t], call[t].from, Rows(call[t]),
                         IF lease[t].phase = "Prefill" THEN lease[t].prompt
                                                       ELSE Capacity)
    <3> DEFINE c == call[t]
    <3>1. PassOK(c, lease[t]) /\ Admitted(c) /\ c.text < c.limit
      BY Now, <2>3 DEF At, RequestOK
    <3>2. /\ c.from \in Nat /\ c.left \in Nat /\ c.text \in Nat
          /\ c.prompt \in Nat /\ c.limit \in Nat
          /\ Chunk \in Nat \ {0} /\ Capacity \in Nat
      BY Now, SizesPos DEF CallType
    <3>3. /\ ~lease[t].closed /\ lease[t].prompt = c.prompt
          /\ c.from = lease[t].processed /\ c.from + c.left = c.prompt + c.text
          /\ c.text > 0 => c.left <= 1
          /\ lease[t].pending = L!NoWrite
          /\ lease[t].phase = IF c.text = 0 THEN "Prefill" ELSE "Ready"
      BY <2>3, <3>1 DEF PassOK, At
    <3>4. Rows(c) \in 1 .. c.left
      BY <2>3, <3>2 DEF Rows
    <3>5. L!CheckIdentity(t)
      BY <2>3, <3>3, InHand DEF L!CheckIdentity, L!Open, At, InLease, IsBound
    <3>6. L!RequireRead(t, 0, c.from)
      BY <3>2, <3>3 DEF L!RequireRead
    <3>7. c.text > 0 => Rows(c) = 1
      BY <3>2, <3>3, <3>4
    <3>8. /\ c.text = 0 => c.from + Rows(c) <= c.prompt
          /\ c.from + Rows(c) <= Capacity
      BY <3>1, <3>2, <3>3, <3>4 DEF Admitted
    <3>9. QED
      BY <3>2, <3>3, <3>4, <3>5, <3>6, <3>7, <3>8 DEF L!Fits
  <2>4. ASSUME NEW t \in Threads, At(t, "wrapup"), call[t].error = "none"
        PROVE  lease[t].phase = "Ready" /\ lease[t].pending = L!NoWrite
    BY Now, <2>4 DEF At, RequestOK
  <2>5. QED
    BY <2>1, <2>2, <2>3, <2>4 DEF RequestIsAccepted
<1>2. QED
  BY <1>1, Invariance, PTL

\* Streamed tokens, committed positions and the cache's length agree.
THEOREM ExtentsAgreeWhenAlone ==
  ASSUME OneRuntime PROVE Spec => []ExtentOK
<1>1. IInv => ExtentOK
  <2> SUFFICES ASSUME IInv PROVE SeqLenIsCommitted
    BY ExtentFollows DEF ExtentOK
  <2> SUFFICES ASSUME NEW t \in Threads, KvFree, "kv" \notin poisoned,
                      L!Open(t)
               PROVE  kv.seqLen = lease[t].processed
    BY DEF SeqLenIsCommitted
  <2>1. call[t].pc \notin InKv
    BY Now DEF KvFree, LockOK
  <2>2. QED
    BY <2>1 DEF IInv, SharedOK
<1>2. QED
  BY <1>1, Invariance, PTL
=============================================================================
