------------------------------ MODULE Profiling ------------------------------
(***************************************************************************)
(* The profile of a generation: crates/airframe_observe/src/profiling.rs   *)
(* writes its events, backend/bindless/profiling.rs observes one forward   *)
(* pass (a frame) and pool_timestamp.rs keeps the queries, with one        *)
(* readback buffer that all frames of a generation reuse.                  *)
(*                                                                         *)
(* The generations of a runtime follow each other behind its gate.  What   *)
(* races with them is the GPU: the answer to the readback of the           *)
(* timestamps comes before, during or after the 100 ms that finish waits,  *)
(* or as an error, and a pass may fail or panic at any point.              *)
(*                                                                         *)
(* Abstracted: nanoseconds (a GPU time is the name of the pass whose time  *)
(* it is), the counters that are only summed, their saturation at          *)
(* u64::MAX, and the text of the events.                                   *)
(***************************************************************************)
EXTENDS Naturals, Sequences, FiniteSets, SequencesExt

CONSTANTS Keys,        \* phase, layer and stage of a compute pass
          MaxKeys,     \* MAX_KEYS: keys of one profile
          MaxPairs,    \* QUERY_SET_MAX_QUERIES / 2: queries and records
          Gpus,        \* "timestamps", "unsupported", "denied", "off"
          Generations, \* bound: generations of a behaviour
          Frames,      \* bound: forward passes of a generation
          Passes       \* bound: compute passes of a frame

ASSUME ProfileLimits ==
  {MaxKeys, MaxPairs, Generations, Frames, Passes} \subseteq Nat

VARIABLES gpu,   \* what the adapter and AIRFRAME_TRACE_TIMING_GPU allow
          pc,    \* where the runtime is
          log,   \* events in the sink, in order
          id,    \* NEXT_ID
          data,  \* Data behind the generation's ProfileHandle
          done,  \* ProfileSession.finished
          slot,  \* the pool the contexts of a generation share
          frame, \* the FrameProfile of the running pass
          truth  \* history: what the generation really did

vars == <<gpu, pc, log, id, data, done, slot, frame, truth>>

NoPool == [there |-> FALSE, next |-> 0, query |-> <<>>, buffer |-> <<>>, map |-> "unmapped"]
NewPool == [NoPool EXCEPT !.there = TRUE]
NoQuery == 0
NoTime == <<>>
NoData == [forwards |-> 0, passes |-> 0, stages |-> << >>, dropped |-> 0, error |-> FALSE]
NoFrame == [passes |-> 0, records |-> <<>>, pool |-> NoPool, answer |-> "none"]
NoTruth == [forwards |-> 0, passes |-> 0, failed |-> FALSE, result |-> "none"]

Init ==
  /\ gpu \in Gpus
  /\ pc = "unloaded"
  /\ log = <<>> /\ id = 1
  /\ data = NoData /\ done = FALSE
  /\ slot = NoPool /\ frame = NoFrame /\ truth = NoTruth

Event(event, number, status) == [event |-> event, id |-> number, status |-> status]

-----------------------------------------------------------------------------
(* ProfileConfig: the load, and the start of a generation                  *)

BeginLoad ==
  /\ pc = "unloaded"
  /\ log' = Append(log, Event("load_start", 0, "none"))
  /\ pc' = "loading"
  /\ UNCHANGED <<gpu, id, data, done, slot, frame, truth>>

\* LoadProfile is dropped on every way out of load_with_context.
EndLoad ==
  /\ pc = "loading"
  /\ \/ pc' = "idle" /\ log' = Append(log, Event("load_end", 0, "complete"))
     \/ pc' = "stopped" /\ log' = Append(log, Event("load_end", 0, "error"))
  /\ UNCHANGED <<gpu, id, data, done, slot, frame, truth>>

BeginGeneration ==
  /\ pc = "idle" /\ id <= Generations
  /\ log' = Append(log, Event("generation_start", id, "none"))
  /\ pc' = "generate"
  /\ data' = NoData /\ done' = FALSE /\ slot' = NoPool /\ truth' = NoTruth
  /\ UNCHANGED <<gpu, id, frame>>

-----------------------------------------------------------------------------
(* FrameProfile: compute passes, the submission, the readback              *)

\* missing_gpu_reason
MissingReason == IF gpu = "off" THEN "HostOnly"
                 ELSE IF gpu = "denied" THEN "DeviceFeatureRequestFailed"
                 ELSE "Unsupported"

BeginFrame ==
  /\ pc = "generate" /\ truth.forwards < Frames
  /\ frame' = [NoFrame EXCEPT !.pool = IF slot.there THEN slot
                                       ELSE IF gpu = "timestamps" THEN NewPool ELSE NoPool]
  /\ slot' = NoPool
  /\ truth' = [truth EXCEPT !.forwards = @ + 1]
  /\ pc' = "encode"
  /\ UNCHANGED <<gpu, log, id, data, done>>

\* reserve_pass: pairs are numbered from 1 here.
Reserved(pool) == IF pool.there /\ pool.next < MaxPairs THEN pool.next + 1 ELSE NoQuery

ThisPass == <<truth.forwards, frame.passes + 1>>

\* The pass writes its query when the GPU runs it, before it resolves them.
Written(pool, query, pass) ==
  [pool EXCEPT !.next = query,
               !.query = [i \in 1 .. query |-> IF i = query THEN pass ELSE pool.query[i]]]

BeginComputePass(key) ==
  LET query == Reserved(frame.pool)
      record == [key |-> key, query |-> query, pass |-> ThisPass, time |-> NoTime,
                 missing |-> IF frame.pool.there /\ query = NoQuery THEN "Capacity"
                             ELSE MissingReason]
  IN /\ pc = "encode" /\ frame.passes < Passes
     /\ frame' = [frame EXCEPT
          !.passes = @ + 1,
          !.records = IF Len(@) < MaxPairs THEN Append(@, record) ELSE @,
          !.pool = IF query = NoQuery THEN @ ELSE Written(@, query, ThisPass)]
     /\ truth' = [truth EXCEPT !.passes = @ + 1]
     /\ UNCHANGED <<gpu, pc, log, id, data, done, slot>>

\* resolve, submit_final and begin_readback: wgpu refuses a submission that
\* copies into a buffer that is mapped, or whose mapping is pending; the
\* handler of load prints it and the pass would go on with nothing submitted.
Submit ==
  LET pool == frame.pool IN
  /\ pc = "encode"
  /\ IF pool.next = 0
       THEN pc' = "outputs" /\ UNCHANGED frame
       ELSE IF pool.map # "unmapped"
       THEN pc' = "refused" /\ UNCHANGED frame
       ELSE /\ pc' = "outputs"
            /\ frame' = [frame EXCEPT
                 !.pool = [@ EXCEPT !.buffer = [i \in 1 .. pool.next |-> pool.query[i]],
                                    !.map = "pending"],
                 !.answer = "waiting"]
  /\ UNCHANGED <<gpu, log, id, data, done, slot, truth>>

\* The callback of map_async runs inside a poll: of the outputs, or of finish.
Answer ==
  /\ pc \in {"outputs", "finish"} /\ frame.answer = "waiting"
  /\ \/ frame' = [frame EXCEPT !.answer = "mapped", !.pool.map = "mapped"]
     \/ frame' = [frame EXCEPT !.answer = "failed", !.pool.map = "unmapped"]
  /\ UNCHANGED <<gpu, pc, log, id, data, done, slot, truth>>

\* The three outputs of the pass have arrived.
OutputsArrive ==
  /\ pc = "outputs"
  /\ pc' = "finish"
  /\ UNCHANGED <<gpu, log, id, data, done, slot, frame, truth>>

-----------------------------------------------------------------------------
(* ProfileHandle::record_forward                                           *)

NoStage == [calls |-> 0, times |-> {}, missing |-> << >>]

Count(counts, x) == [y \in DOMAIN counts \cup {x} |->
                       (IF y \in DOMAIN counts THEN counts[y] ELSE 0)
                         + (IF y = x THEN 1 ELSE 0)]

\* One sample is added to its stage: measured, or with a reason.
AddSample(stage, record) ==
  [stage EXCEPT !.calls = @ + 1,
                !.times = IF record.time = NoTime THEN @ ELSE @ \cup {<<record.pass, record.time>>},
                !.missing = IF record.time = NoTime THEN Count(@, record.missing) ELSE @]

\* Mutant: a sample past MAX_KEYS is skipped without being counted.
BugRecordSample(d, record) ==
  LET known == DOMAIN d.stages IN
  IF Cardinality(known) >= MaxKeys /\ record.key \notin known
    THEN d
    ELSE [d EXCEPT !.stages = [k \in known \cup {record.key} |->
           LET old == IF k \in known THEN d.stages[k] ELSE NoStage
           IN IF k = record.key THEN AddSample(old, record) ELSE old]]

RecordSample(d, record) ==
  LET known == DOMAIN d.stages IN
  IF Cardinality(known) >= MaxKeys /\ record.key \notin known
    THEN [d EXCEPT !.dropped = @ + 1]
    ELSE [d EXCEPT !.stages = [k \in known \cup {record.key} |->
           LET old == IF k \in known THEN d.stages[k] ELSE NoStage
           IN IF k = record.key THEN AddSample(old, record) ELSE old]]

RecordForward(d, records, passes) ==
  LET counted == [d EXCEPT !.forwards = @ + 1, !.passes = @ + passes,
                           !.dropped = @ + (passes - Len(records))]
  IN FoldLeft(RecordSample, counted, records)

-----------------------------------------------------------------------------
(* FrameProfile::finish and drop                                           *)

\* What finish waits for: the callback, 100 ms, or a poll that fails.
Waited == [mapped  |-> {"data"},
           failed  |-> {"InvalidTimestamp"},
           waiting |-> {"ReadbackTimeout", "InvalidTimestamp"},
           none    |-> {"ReadbackTimeout"}][frame.answer]

\* elapsed_ns of a pair gives nothing for stamps that are zero or go back.
Measured(record, outcome, bad) ==
  IF record.query = NoQuery THEN record
  ELSE IF outcome = "data" /\ record.query \notin bad
  THEN [record EXCEPT !.time = frame.pool.buffer[record.query]]
  ELSE [record EXCEPT !.missing = IF outcome = "data" THEN "InvalidTimestamp" ELSE outcome]

\* Mutant: after a timeout the buffer stays as it is.
BugUnmapped(pool) == IF frame.answer = "waiting" THEN pool ELSE [pool EXCEPT !.map = "unmapped"]

\* A mapping that is pending is cancelled; its late answer finds no receiver.
Unmapped(pool) == [pool EXCEPT !.map = "unmapped"]

FinishFrame ==
  /\ pc = "finish"
  /\ \E outcome \in Waited, bad \in SUBSET (1 .. frame.pool.next) :
       /\ outcome # "data" => bad = {}
       /\ data' = RecordForward(data,
                    [i \in DOMAIN frame.records |-> Measured(frame.records[i], outcome, bad)],
                    frame.passes)
  /\ slot' = IF frame.pool.there THEN [Unmapped(frame.pool) EXCEPT !.next = 0] ELSE NoPool
  /\ frame' = NoFrame
  /\ pc' = "generate"
  /\ UNCHANGED <<gpu, log, id, done, truth>>

\* Mutant: a frame that goes without finish leaves no mark.
BugDropFrame ==
  /\ pc \in {"encode", "outputs"}
  /\ data' = RecordForward(data, frame.records, frame.passes)
  /\ frame' = NoFrame
  /\ truth' = [truth EXCEPT !.failed = TRUE]
  /\ pc' \in {"fail", "unwind"}
  /\ UNCHANGED <<gpu, log, id, done, slot>>

\* The pass returns an error or panics: the frame is recorded as it is, and
\* its pool goes with it.
DropFrame ==
  /\ pc \in {"encode", "outputs"}
  /\ data' = RecordForward([data EXCEPT !.error = TRUE], frame.records, frame.passes)
  /\ frame' = NoFrame
  /\ truth' = [truth EXCEPT !.failed = TRUE]
  /\ pc' \in {"fail", "unwind"}
  /\ UNCHANGED <<gpu, log, id, done, slot>>

-----------------------------------------------------------------------------
(* ProfileSession: finish, and drop                                        *)

Summary(status) == Event("generation_summary", id, IF data.error THEN "error" ELSE status)

\* The closure of generate returns its result, of its own or from a pass.
Finish ==
  /\ pc \in {"generate", "fail"}
  /\ \E ok \in IF pc = "fail" THEN {FALSE} ELSE BOOLEAN :
       /\ log' = IF done THEN log ELSE Append(log, Summary(IF ok THEN "complete" ELSE "error"))
       /\ truth' = [truth EXCEPT !.result = IF ok THEN "Ok" ELSE "Err"]
  /\ done' = TRUE
  /\ pc' = "drop"
  /\ UNCHANGED <<gpu, id, data, slot, frame>>

\* A hook or a callback panics between two passes.
Panic ==
  /\ pc = "generate"
  /\ pc' = "unwind"
  /\ UNCHANGED <<gpu, log, id, data, done, slot, frame, truth>>

\* The end of generate, or unwinding, which poisons the gate: there is no next
\* generation. The contexts and their pool are gone either way.
DropSession ==
  /\ pc \in {"drop", "unwind"}
  /\ log' = IF done THEN log ELSE Append(log, Summary("aborted"))
  /\ done' = TRUE
  /\ truth' = [truth EXCEPT !.result = IF pc = "unwind" THEN "Panic" ELSE @]
  /\ slot' = NoPool
  /\ id' = id + 1
  /\ pc' = IF pc = "unwind" THEN "stopped" ELSE "idle"
  /\ UNCHANGED <<gpu, data, frame>>

Next ==
  \/ BeginLoad \/ EndLoad \/ BeginGeneration
  \/ BeginFrame \/ (\E key \in Keys : BeginComputePass(key)) \/ Submit
  \/ Answer \/ OutputsArrive \/ FinishFrame \/ DropFrame
  \/ Finish \/ Panic \/ DropSession

Spec == Init /\ [][Next]_vars

-----------------------------------------------------------------------------
(* Properties *)

\* Nothing that was measured is lost silently, however a frame ends and
\* whichever bound it meets: between two frames the passes of the profile are
\* all that were begun, each is a call of some stage or counted as dropped,
\* and each call has a time or the reason why it has none.
PassesAreAccounted ==
  pc \in {"generate", "fail", "unwind", "drop"} =>
    /\ data.forwards = truth.forwards /\ data.passes = truth.passes
    /\ data.passes = data.dropped
         + SumFunction([k \in DOMAIN data.stages |-> data.stages[k].calls])
    /\ \A k \in DOMAIN data.stages :
         LET s == data.stages[k]
         IN s.calls = Cardinality(s.times) + SumFunction(s.missing)

EventsOf(n) == {i \in DOMAIN log : log[i].id = n}

\* The events of generation n are a start and, after it, a summary.
Told(n, i, j) ==
  /\ EventsOf(n) = {i, j} /\ i < j
  /\ log[i].event = "generation_start" /\ log[j].event = "generation_summary"

Truthful(status) ==
  /\ status = "complete" <=> truth.result = "Ok" /\ ~truth.failed
  /\ status = "aborted"  <=> truth.result = "Panic" /\ ~truth.failed

\* A generation leaves one start and one summary on every way out, and its
\* status says what happened: complete when generate returned Ok, aborted when
\* it unwound with every pass intact, and error when it returned Err or a pass
\* was lost, also by a panic inside it.
SummaryIsTruthful ==
  pc \in {"idle", "stopped"} =>
    \A n \in 1 .. id - 1 : \E i, j \in DOMAIN log :
      Told(n, i, j) /\ (n = id - 1 => Truthful(log[j].status))

\* The time credited to a pass is its own, never one that an earlier frame
\* left in the buffer they share; and profiling never costs a forward pass:
\* an answer that is late or never comes leaves the buffer free for the next.
TimesAreOwn ==
  /\ \A k \in DOMAIN data.stages : \A t \in data.stages[k].times : t[1] = t[2]
  /\ pc # "refused"

=============================================================================
