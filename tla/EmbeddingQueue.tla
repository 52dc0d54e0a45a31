--------------------------- MODULE EmbeddingQueue ---------------------------
(***************************************************************************)
(* The embedding worker: a thread that owns the model and takes requests   *)
(* from a bounded queue, the callers that submit them and wait, the        *)
(* cancellation of everything queued, and the shutdown.                    *)
(*                                                                         *)
(* A submission is four steps that no lock joins: it reads whether the     *)
(* worker is closed, reads the generation, pushes, and counts itself in    *)
(* flight; the worker may take and answer it before it is counted.         *)
(*                                                                         *)
(* Abstracted: the vectors (an answer is "Ok" or why not), the 10 ms of    *)
(* the worker's wait (it may end whenever the queue is empty), a panic of  *)
(* the model.                                                              *)
(***************************************************************************)
EXTENDS Integers, Sequences, FiniteSets

CONSTANTS Callers,      \* each submits once
          Chunks,       \* caller -> batches its inputs are split into
          Capacity,     \* of the queue
          MaxCancels,   \* bound on cancel_all
          Shutdown, Nobody

VARIABLES
    queue,      \* of callers, and of Shutdown
    generation, \* of cancellations
    closed,
    stopping,   \* the shutdown has set closed and not yet sent its message
    inflight,   \* the counter of the health output: a negative value stands for one that wrapped
    caller,     \* caller -> where it is
    stamp,      \* caller -> the generation it read
    answer,     \* caller -> what its reply channel holds
    worker,     \* where the worker is
    current     \* the caller it works for and the chunks it has left

queuevars == <<queue, generation, closed, stopping, inflight, caller, stamp, answer,
               worker, current>>

Answers == {"None", "Ok", "Busy", "Closed", "Cancelled", "Inference"}

QueueTypeOK ==
    /\ queue \in Seq(Callers \cup {Shutdown}) /\ Len(queue) <= Capacity
    /\ generation \in 0..MaxCancels /\ closed \in BOOLEAN /\ stopping \in BOOLEAN
    /\ inflight \in -Cardinality(Callers)..Cardinality(Callers)
    /\ caller \in [Callers -> {"idle", "open", "stamped", "full", "sent", "waiting",
                               "gone", "done"}]
    /\ stamp \in [Callers -> 0..MaxCancels] /\ answer \in [Callers -> Answers]
    /\ worker \in {"testing", "popping", "popped", "running", "draining", "exited"}
    /\ current \in [who : Callers \cup {Nobody}, left : Nat]

Idle == [who |-> Nobody, left |-> 0]

Init ==
    /\ queue = <<>> /\ generation = 0 /\ closed = FALSE /\ stopping = FALSE
    /\ inflight = 0 /\ worker = "testing" /\ current = Idle
    /\ caller = [c \in Callers |-> "idle"] /\ stamp = [c \in Callers |-> 0]
    /\ answer = [c \in Callers |-> "None"]
-----------------------------------------------------------------------------
(* The callers                                                             *)

Full == Len(queue) >= Capacity

Goes(c, step) == caller' = [caller EXCEPT ![c] = step]
Fails(c, why) == Goes(c, "done") /\ answer' = [answer EXCEPT ![c] = why]

Enter(c) ==
    /\ caller[c] = "idle"
    /\ IF closed THEN Fails(c, "Closed") ELSE Goes(c, "open") /\ UNCHANGED answer
    /\ UNCHANGED <<queue, generation, closed, stopping, inflight, stamp, worker, current>>

Stamp(c) ==
    /\ caller[c] = "open" /\ Goes(c, "stamped")
    /\ stamp' = [stamp EXCEPT ![c] = generation]
    /\ UNCHANGED <<queue, generation, closed, stopping, inflight, answer, worker, current>>

Push(c) ==
    /\ caller[c] = "stamped"
    /\ IF Full THEN Goes(c, "full") /\ UNCHANGED queue
               ELSE Goes(c, "sent") /\ queue' = Append(queue, c)
    /\ UNCHANGED <<generation, closed, stopping, inflight, stamp, answer, worker, current>>

\* The queue was full: why is read from the flag as it is now.
Refused(c) ==
    /\ caller[c] = "full" /\ Fails(c, IF closed THEN "Closed" ELSE "Busy")
    /\ UNCHANGED <<queue, generation, closed, stopping, inflight, stamp, worker, current>>

Count(c) ==
    /\ caller[c] = "sent" /\ Goes(c, "waiting") /\ inflight' = inflight + 1
    /\ UNCHANGED <<queue, generation, closed, stopping, stamp, answer, worker, current>>

Receive(c) ==
    /\ caller[c] = "waiting" /\ answer[c] # "None" /\ Goes(c, "done")
    /\ UNCHANGED <<queue, generation, closed, stopping, inflight, stamp, answer, worker,
                   current>>

\* The future that awaits the answer is dropped: so is the receiver.
Abandon(c) ==
    /\ caller[c] = "waiting" /\ Goes(c, "gone")
    /\ UNCHANGED <<queue, generation, closed, stopping, inflight, stamp, answer, worker,
                   current>>

CancelAll ==
    /\ generation < MaxCancels /\ generation' = generation + 1
    /\ UNCHANGED <<queue, closed, stopping, inflight, caller, stamp, answer, worker, current>>

Close ==
    /\ ~closed /\ closed' = TRUE /\ stopping' = TRUE
    /\ UNCHANGED <<queue, generation, inflight, caller, stamp, answer, worker, current>>

\* A queue that is full does not take the message: the flag is read anyway.
SendShutdown ==
    /\ stopping /\ stopping' = FALSE
    /\ queue' = IF Full THEN queue ELSE Append(queue, Shutdown)
    /\ UNCHANGED <<generation, closed, inflight, caller, stamp, answer, worker, current>>
-----------------------------------------------------------------------------
(* The worker                                                              *)

\* Mutant: the loop ends without answering what is queued.
WindsUpAtOnce == "exited"

WindsUp == "draining"

Test ==
    /\ worker = "testing" /\ worker' = IF closed THEN WindsUp ELSE "popping"
    /\ UNCHANGED <<queue, generation, closed, stopping, inflight, caller, stamp, answer,
                   current>>

\* The wait of the pop ends with nothing.
PopNothing ==
    /\ worker = "popping" /\ queue = <<>> /\ worker' = "testing"
    /\ UNCHANGED <<queue, generation, closed, stopping, inflight, caller, stamp, answer,
                   current>>

Pop ==
    /\ worker = "popping" /\ queue # <<>> /\ queue' = Tail(queue)
    /\ IF Head(queue) = Shutdown
          THEN worker' = WindsUp /\ UNCHANGED current
          ELSE /\ worker' = "popped"
               /\ current' = [who |-> Head(queue), left |-> Chunks[Head(queue)]]
    /\ UNCHANGED <<generation, closed, stopping, inflight, caller, stamp, answer>>

\* The reply of c is sent and its slot released; a receiver that is gone hears nothing.
Publish(c, with) ==
    /\ answer' = IF caller[c] = "gone" THEN answer ELSE [answer EXCEPT ![c] = with]
    /\ inflight' = inflight - 1
    /\ UNCHANGED <<generation, closed, stopping, caller, stamp>>

Stale(c) == stamp[c] # generation

CheckStamp ==
    /\ worker = "popped"
    /\ IF Stale(current.who)
          THEN Publish(current.who, "Cancelled") /\ worker' = "testing" /\ current' = Idle
          ELSE /\ worker' = "running"
               /\ UNCHANGED <<generation, closed, stopping, inflight, caller, stamp, answer,
                              current>>
    /\ UNCHANGED queue

\* The model embeds a chunk.
RunChunk ==
    /\ worker = "running" /\ current.left > 0
    /\ current' = [current EXCEPT !.left = @ - 1]
    /\ UNCHANGED <<queue, generation, closed, stopping, inflight, caller, stamp, answer,
                   worker>>

\* The model fails on a chunk: the ones after it are not tried.
RunFails ==
    /\ worker = "running" /\ current.left > 0
    /\ Publish(current.who, "Inference")
    /\ worker' = "testing" /\ current' = Idle /\ UNCHANGED queue

\* "Cancelled" when there are fewer vectors than inputs.
Finish ==
    /\ worker = "running" /\ current.left = 0
    /\ \E with \in {"Ok", "Cancelled"} : Publish(current.who, with)
    /\ worker' = "testing" /\ current' = Idle /\ UNCHANGED queue

Drain ==
    /\ worker = "draining" /\ queue # <<>> /\ queue' = Tail(queue)
    /\ IF Head(queue) = Shutdown
          THEN UNCHANGED <<generation, closed, stopping, inflight, caller, stamp, answer>>
          ELSE Publish(Head(queue), "Closed")
    /\ UNCHANGED <<worker, current>>

Exit ==
    /\ worker = "draining" /\ queue = <<>> /\ worker' = "exited"
    /\ UNCHANGED <<queue, generation, closed, stopping, inflight, caller, stamp, answer,
                   current>>
-----------------------------------------------------------------------------
Submission(c) == Enter(c) \/ Stamp(c) \/ Push(c) \/ Refused(c) \/ Count(c) \/ Receive(c)

Worker == Test \/ PopNothing \/ Pop \/ CheckStamp \/ RunChunk \/ RunFails \/ Finish
          \/ Drain \/ Exit

Next == (\E c \in Callers : Submission(c) \/ Abandon(c)) \/ Worker \/ CancelAll \/ Close
        \/ SendShutdown

Spec == Init /\ [][Next]_queuevars

\* The worker's thread runs, and so does a submission once it has entered.
FairSpec ==
    /\ Spec /\ WF_queuevars(Worker)
    /\ \A c \in Callers : WF_queuevars(caller[c] # "idle" /\ Submission(c))
-----------------------------------------------------------------------------
Outstanding(c) == caller[c] \in {"sent", "waiting"} /\ answer[c] = "None"

\* A request that is in the queue before the worker has drained it is answered, whatever
\* is cancelled, fails or is shut down meanwhile: its caller does not wait for ever on a
\* reply nobody will send.
QueuedIsAnswered ==
    \A c \in Callers : (Outstanding(c) /\ worker # "exited") ~> ~Outstanding(c)
=============================================================================
