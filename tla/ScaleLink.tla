------------------------------ MODULE ScaleLink ------------------------------
(***************************************************************************)
(* The scale as the control task sees it, whatever the worker behind it    *)
(* does: a link that comes and goes, weights of which any number may be    *)
(* missed, a queue of timer and tare commands, and one answer for each     *)
(* command it executed, which may be lost and may be read in any order.    *)
(* Module ScaleWorker is the worker that keeps this promise.               *)
(*                                                                         *)
(* Ages count ticks and stop at 2: a weight is fresh for one tick, the     *)
(* MAX_AUTOMATION_WEIGHT_AGE_MS.                                           *)
(***************************************************************************)
EXTENDS Integers, Sequences, FiniteSets

CONSTANTS
    CycleIds,       \* the identifiers of brew cycles
    QueueLength,    \* SCALE_COMMAND_QUEUE_LENGTH
    MaxAnswers      \* a bound of the model: answers not yet read

VARIABLES
    connected,      \* the link's state is CONNECTED
    generation,     \* connectionGeneration: connections so far
    stalled,        \* the worker made no progress for SCALE_WORKER_STALE_MS
    requests,       \* scaleCommandQueue
    answers         \* results not yet read by the control task

linkVars == <<connected, generation, stalled, requests, answers>>

Stale == 2

Requests == [type : {"START", "TARE", "STOP"}, cycle : CycleIds]

\* disconnectSequence: every connection but a current one has been lost.
Disconnects == IF connected THEN generation - 1 ELSE generation

\* scaleLinkAvailable
Available == connected /\ ~stalled

Fresh(age) == age < Stale
Older(age) == IF age < Stale THEN age + 1 ELSE Stale

InitLink ==
    /\ connected = FALSE /\ generation = 0 /\ stalled = FALSE
    /\ requests = <<>> /\ answers = {}

-----------------------------------------------------------------------------

Connect ==
    /\ ~connected
    /\ connected' = TRUE
    /\ generation' = generation + 1
    /\ UNCHANGED <<stalled, requests, answers>>

Disconnect ==
    /\ connected
    /\ connected' = FALSE
    /\ UNCHANGED <<generation, stalled, requests, answers>>

\* The worker is held up in a radio operation, or comes back from one.
Stall ==
    /\ stalled' = ~stalled
    /\ UNCHANGED <<connected, generation, requests, answers>>

\* The worker takes a command and reports what became of it.  Only a start
\* can have been the scale's combined tare and start.  An answer that finds
\* no room is lost.
Answer(request, ok, combined) ==
    [type |-> request.type, cycle |-> request.cycle,
     ok |-> ok, combined |-> combined]

Execute ==
    /\ requests # <<>> /\ ~stalled
    /\ Cardinality(answers) < MaxAnswers
    /\ requests' = Tail(requests)
    /\ \E ok, combined \in BOOLEAN :
          /\ ok => connected
          /\ combined => ok /\ Head(requests).type = "START"
          /\ answers' \in {answers,
                           answers \cup {Answer(Head(requests), ok, combined)}}
    /\ UNCHANGED <<connected, generation, stalled>>

\* What the control task does to the link: it queues a command, at the front
\* when it must not wait behind the others, or reads an answer.
Queued(queue, request, toFront) ==
    IF toFront THEN <<request>> \o queue ELSE Append(queue, request)

HasRoom(queue) == Len(queue) < QueueLength

ReadAnswer(answer) ==
    /\ answer \in answers
    /\ answers' = answers \ {answer}

\* What the worker promises whatever the control task asks of it.
ControlMove ==
    /\ \/ /\ HasRoom(requests)
          /\ \E r \in Requests, toFront \in BOOLEAN :
                requests' = Queued(requests, r, toFront)
          /\ UNCHANGED answers
       \/ \E a \in answers : ReadAnswer(a) /\ UNCHANGED requests
    /\ UNCHANGED <<connected, generation, stalled>>

LinkNext == Connect \/ Disconnect \/ Stall \/ Execute \/ ControlMove
=============================================================================
