--------------------------- MODULE CommandHandler ---------------------------
(***************************************************************************)
(* The gateway's command handler (service/command_handler.go): MQTT        *)
(* callbacks put write commands on a bounded queue or refuse them, one     *)
(* goroutine writes them to the devices and answers each, configuration    *)
(* changes add and remove devices, and Stop cancels the context, drains    *)
(* the queue and waits for the goroutine.                                  *)
(*                                                                         *)
(* A command is its arrival number.  The MQTT client runs callbacks one at *)
(* a time.  The write semaphore is left out: its only user is the one      *)
(* goroutine, so it is never full.  WriteTag sends requests until one is   *)
(* answered, the context ends or MaxRetries is reached.  A request that    *)
(* nobody waits for any more, on the wire or in the hands of a pool worker,*)
(* may reach the device later, also after Stop.                            *)
(***************************************************************************)
EXTENDS Naturals, Sequences

CONSTANTS
    MaxCommands,  \* bound: the commands that arrive
    QueueSize,    \* CommandQueueSize
    Devices,      \* device ids
    DeviceOf,     \* the device that a command's topic names
    MaxRetries,   \* MaxRetries of the protocol clients
    MaxLate,      \* bound: requests of a command that are under way when one is given up
    PublishesEnd, \* whether the broker lets every publish of an answer end
    Changes       \* bound: the configuration changes

Commands == 1..MaxCommands
Nothing == 0      \* no command

ASSUME CommandAssumption ==
    /\ MaxCommands \in Nat
    /\ QueueSize \in Nat \ {0}
    /\ DeviceOf \in [Commands -> Devices]
    /\ MaxRetries \in Nat
    /\ MaxLate \in Nat
    /\ PublishesEnd \in BOOLEAN
    /\ Changes \in Nat

VARIABLES
    mainPc,      \* where main is: "start", "running", "cancelled", "waiting",
                 \* "stopped", or "disabled" after a failed Start
    ctxDone,     \* h.ctx is cancelled
    subscribed,  \* the broker sends the handler its commands
    queue,       \* h.commandQueue
    callback,    \* the command that the MQTT callback is refusing, or Nothing
    workerPc,    \* the goroutine: "none", "select", "taken", "write", "answer", "drain",
                 \* "gone"
    current,     \* the command it works on, or Nothing
    draining,    \* it took that command from drainCommandQueue
    verdict,     \* the outcome it is publishing, or "none"
    attempt,     \* the retry that WriteTag is in
    wire,        \* requests of each command given up or repeated, still under way
    known,       \* the keys of h.devices
    changes,     \* the configuration changes so far
    stats,       \* CommandStats
    answers,     \* history: what was answered to each command, in order
    written,     \* history: the commands whose value reached a device, in that order
    doubtful,    \* history: the commands of which a request was not answered
    late,        \* history: commands queued when the goroutine had gone
    gaveUp       \* history: the drain timed out

workVars   == <<workerPc, current, draining, verdict, attempt>>
queueVars  == <<queue, callback>>
mainVars   == <<mainPc, ctxDone, subscribed>>
deviceVars == <<known, changes>>
fieldVars  == <<wire, written, doubtful>>
history    == <<answers, late, gaveUp>>
vars == <<workVars, fieldVars, queueVars, mainVars, deviceVars, stats, history>>

Counters == {"received", "succeeded", "failed", "rejected"}
Outcomes == {"success", "failure", "refused"}

Init ==
    /\ mainPc = "start"
    /\ ctxDone = FALSE
    /\ subscribed = FALSE
    /\ queue = <<>>
    /\ callback = Nothing
    /\ workerPc = "none"
    /\ current = Nothing
    /\ draining = FALSE
    /\ verdict = "none"
    /\ attempt = 0
    /\ wire = [c \in Commands |-> 0]
    /\ known \in SUBSET Devices
    /\ changes = 0
    /\ stats = [k \in Counters |-> 0]
    /\ answers = [c \in Commands |-> <<>>]
    /\ written = <<>>
    /\ doubtful = {}
    /\ late = {}
    /\ gaveUp = FALSE

Count(k) == stats' = [stats EXCEPT ![k] = @ + 1]

\* sendResponse returns: the answer is published, publishing failed and is logged,
\* or answers are not enabled.
Answer(c, outcome) ==
    \/ answers' = [answers EXCEPT ![c] = Append(@, outcome)]
    \/ UNCHANGED answers

-----------------------------------------------------------------------------
(* Start, Stop and the devices.                                            *)

\* The goroutine starts before the two subscriptions.
Start ==
    /\ mainPc = "start"
    /\ mainPc' = "running"
    /\ subscribed' = TRUE
    /\ workerPc' = "select"
    /\ UNCHANGED <<ctxDone, queueVars, current, draining, verdict, attempt, deviceVars, stats, fieldVars, history>>

\* One subscription fails: the goroutine stays, and the first topic too if it
\* was the second that failed, but the handler is not running.
StartFails ==
    /\ mainPc = "start"
    /\ mainPc' = "disabled"
    /\ subscribed' \in BOOLEAN
    /\ workerPc' = "select"
    /\ UNCHANGED <<ctxDone, queueVars, current, draining, verdict, attempt, deviceVars, stats, fieldVars, history>>

\* Stop does nothing on a handler that is not running.
StopCancels ==
    /\ mainPc = "running"
    /\ mainPc' = "cancelled"
    /\ ctxDone' = TRUE
    /\ UNCHANGED <<subscribed, queueVars, workVars, deviceVars, stats, fieldVars, history>>

\* The Unsubscribe tokens are not waited for: commands may still arrive.
StopUnsubscribes ==
    /\ mainPc = "cancelled"
    /\ mainPc' = "waiting"
    /\ UNCHANGED <<ctxDone, subscribed, queueVars, workVars, deviceVars, stats, fieldVars, history>>

MutantNoWait == TRUE
WorkerGone == workerPc = "gone"

StopReturns ==
    /\ mainPc = "waiting"
    /\ WorkerGone
    /\ mainPc' = "stopped"
    /\ UNCHANGED <<ctxDone, subscribed, queueVars, workVars, deviceVars, stats, fieldVars, history>>

\* The broker has unsubscribed the handler, or the connection broke: the
\* session is clean and nothing subscribes again.
Unsubscribed ==
    /\ subscribed
    /\ mainPc # "cancelled"
    /\ subscribed' = FALSE
    /\ UNCHANGED <<mainPc, ctxDone, queueVars, workVars, deviceVars, stats, fieldVars, history>>

\* AddDevice and RemoveDevice, called by the configuration callbacks.
AddDevice(d) ==
    /\ changes < Changes
    /\ changes' = changes + 1
    /\ known' = known \cup {d}
    /\ UNCHANGED <<mainVars, queueVars, workVars, stats, fieldVars, history>>

RemoveDevice(d) ==
    /\ changes < Changes
    /\ changes' = changes + 1
    /\ known' = known \ {d}
    /\ UNCHANGED <<mainVars, queueVars, workVars, stats, fieldVars, history>>

-----------------------------------------------------------------------------
(* The MQTT callbacks.                                                     *)

\* A command arrives.
Arrives(c) ==
    /\ subscribed
    /\ callback = Nothing
    /\ c = stats["received"] + 1

\* Its topic or payload is malformed: counted, never answered.
Malformed(c) ==
    /\ Arrives(c)
    /\ stats' = [stats EXCEPT !["received"] = @ + 1, !["rejected"] = @ + 1]
    /\ UNCHANGED <<mainVars, queueVars, workVars, deviceVars, fieldVars, history>>

HasRoom == Len(queue) < QueueSize

\* The non-blocking send on the queue.
Enqueue(c) ==
    /\ Arrives(c)
    /\ HasRoom
    /\ queue' = Append(queue, c)
    /\ late' = IF WorkerGone THEN late \cup {c} ELSE late
    /\ Count("received")
    /\ UNCHANGED <<mainVars, callback, workVars, deviceVars, fieldVars, answers, gaveUp>>

\* The queue is full; the callback answers, which waits for the broker.
MutantRefusesAndQueues(c) ==
    /\ Arrives(c)
    /\ ~HasRoom
    /\ callback' = c
    /\ Count("received")
    /\ queue' = Append(Tail(queue), c)
    /\ UNCHANGED <<mainVars, workVars, deviceVars, fieldVars, history>>
QueueFull(c) ==
    /\ Arrives(c)
    /\ ~HasRoom
    /\ callback' = c
    /\ Count("received")
    /\ UNCHANGED <<mainVars, queue, workVars, deviceVars, fieldVars, history>>

Refuse ==
    /\ callback # Nothing
    /\ Answer(callback, "refused")
    /\ Count("rejected")
    /\ callback' = Nothing
    /\ UNCHANGED <<mainVars, queue, workVars, deviceVars, fieldVars, late, gaveUp>>

-----------------------------------------------------------------------------
(* The goroutine: processCommandQueue, drainCommandQueue, processWriteCommand. *)

Take(drain) ==
    /\ queue # <<>>
    /\ current' = Head(queue)
    /\ queue' = Tail(queue)
    /\ draining' = drain
    /\ workerPc' = "taken"
    /\ UNCHANGED <<verdict, attempt>>

\* select: a command, or the end of the context, at random if both are ready.
TakeCommand ==
    /\ workerPc = "select"
    /\ Take(FALSE)
    /\ UNCHANGED <<mainVars, callback, deviceVars, stats, fieldVars, history>>

SeeStop ==
    /\ workerPc = "select"
    /\ ctxDone
    /\ workerPc' = "drain"
    /\ UNCHANGED <<mainVars, queueVars, current, draining, verdict, attempt, deviceVars, stats, fieldVars, history>>

DrainCommand ==
    /\ workerPc = "drain"
    /\ Take(TRUE)
    /\ UNCHANGED <<mainVars, callback, deviceVars, stats, fieldVars, history>>

MutantLeavesQueue == workerPc = "drain"
DrainDone == workerPc = "drain" /\ queue = <<>>

MutantBreaksTheSelectOnly ==
    /\ workerPc = "drain"
    /\ workerPc' = "select"
    /\ UNCHANGED <<mainVars, queueVars, current, draining, verdict, attempt, deviceVars, stats, fieldVars, history>>
DrainEnds ==
    /\ DrainDone
    /\ workerPc' = "gone"
    /\ UNCHANGED <<mainVars, queueVars, current, draining, verdict, attempt, deviceVars, stats, fieldVars, history>>

\* The 5 s are over: what is left in the queue is dropped.
DrainTimesOut ==
    /\ workerPc = "drain"
    /\ workerPc' = "gone"
    /\ gaveUp' = TRUE
    /\ UNCHANGED <<mainVars, queueVars, current, draining, verdict, attempt, deviceVars, stats, fieldVars,
                   answers, late>>

\* What became of the command in hand is answered next.
Settle(outcome) ==
    /\ workerPc' = "answer"
    /\ verdict' = outcome
    /\ attempt' = 0
    /\ UNCHANGED <<mainVars, queueVars, current, draining, deviceVars, stats, history>>

\* A free semaphore and the cancelled context are both ready: either is chosen.
ShuttingDown ==
    /\ workerPc = "taken"
    /\ ctxDone
    /\ Settle("refused")
    /\ UNCHANGED fieldVars

\* Device or tag is not known, or the tag is not writable.
NotFound ==
    /\ workerPc = "taken"
    /\ Settle("failure")
    /\ UNCHANGED fieldVars

\* What the lookup found is used without the lock, for WriteTag.
Found ==
    /\ workerPc = "taken"
    /\ DeviceOf[current] \in known
    /\ workerPc' = "write"
    /\ UNCHANGED <<mainVars, queueVars, current, draining, verdict, attempt, deviceVars, stats,
                   fieldVars, history>>

\* The device takes the value and says so.
RequestAnswered ==
    /\ workerPc = "write"
    /\ written' = Append(written, current)
    /\ Settle("success")
    /\ UNCHANGED <<wire, doubtful>>

\* WriteTag ends with an error and this request has no effect: no connection, an
\* open breaker, too much load, or the device refuses the value.
RequestRefused ==
    /\ workerPc = "write"
    /\ Settle("failure")
    /\ UNCHANGED fieldVars

\* No answer comes, or not in time: the request is lost or still under way.
Unanswered ==
    /\ workerPc = "write"
    /\ doubtful' = doubtful \cup {current}
    /\ \/ UNCHANGED wire
       \/ (\A c \in Commands : wire[c] < MaxLate) /\ wire' = [wire EXCEPT ![current] = @ + 1]
    /\ UNCHANGED written

\* A retryable error: WriteTag sends the value again.
RequestRepeated ==
    /\ Unanswered
    /\ attempt < MaxRetries
    /\ attempt' = attempt + 1
    /\ UNCHANGED <<mainVars, queueVars, workerPc, current, draining, verdict, deviceVars, stats,
                   history>>

\* The retries or WriteTimeout are over, or Stop has cancelled the context: the
\* caller leaves (also a request that a pool worker is about to send).
RequestGivenUp ==
    /\ Unanswered
    /\ Settle("failure")

CounterOf == [success |-> "succeeded", failure |-> "failed", refused |-> "rejected"]

\* The publish is over: the command is counted, and the goroutine goes on.
Answered ==
    /\ workerPc = "answer"
    /\ Answer(current, verdict)
    /\ Count(CounterOf[verdict])
    /\ current' = Nothing
    /\ draining' = FALSE
    /\ verdict' = "none"
    /\ workerPc' = IF draining THEN "drain" ELSE "select"
    /\ UNCHANGED <<mainVars, queueVars, attempt, deviceVars, fieldVars, late, gaveUp>>

\* A request that was given up or repeated reaches the device after all.
ReachesDevice(c) ==
    /\ wire[c] > 0
    /\ wire' = [wire EXCEPT ![c] = @ - 1]
    /\ written' = Append(written, c)
    /\ UNCHANGED <<mainVars, queueVars, workVars, deviceVars, stats, doubtful, history>>

-----------------------------------------------------------------------------
Lifecycle == Start \/ StartFails \/ StopCancels \/ StopUnsubscribes \/ StopReturns
Callback == Refuse \/ \E c \in Commands : Malformed(c) \/ Enqueue(c) \/ QueueFull(c)
Worker == \/ TakeCommand \/ SeeStop \/ DrainCommand \/ DrainEnds \/ DrainTimesOut
          \/ ShuttingDown \/ NotFound \/ Found
          \/ RequestAnswered \/ RequestRefused \/ RequestRepeated \/ RequestGivenUp
Environment == \/ Unsubscribed
               \/ \E d \in Devices : AddDevice(d) \/ RemoveDevice(d)
               \/ \E c \in Commands : ReachesDevice(c)

\* Nothing is left to do: the goroutine waits or has left, and so has main.
Idle ==
    /\ mainPc \notin {"start", "cancelled", "waiting"}
    /\ callback = Nothing
    /\ workerPc = "gone" \/ (workerPc = "select" /\ queue = <<>>)
    /\ UNCHANGED vars

Next == Lifecycle \/ Callback \/ Worker \/ Answered \/ Environment \/ Idle

\* The scheduler runs what can run: the goroutine, and main in Stop.  WriteTag
\* ends: each try has a timeout and they are counted.  The publish of an answer
\* has none (sendResponse waits for its token), and ends if the broker lets it.
\* Nothing makes main stop, or a late request reach its device.
Fairness ==
    /\ WF_vars(Worker)
    /\ PublishesEnd => WF_vars(Answered) /\ WF_vars(Refuse)
    /\ WF_vars(StopUnsubscribes)
    /\ WF_vars(StopReturns)

Spec == Init /\ [][Next]_vars /\ Fairness

-----------------------------------------------------------------------------
(* Properties.                                                             *)

\* Every variable has its type.
TypeOK ==
    /\ mainPc \in {"start", "running", "cancelled", "waiting", "stopped", "disabled"}
    /\ ctxDone \in BOOLEAN /\ subscribed \in BOOLEAN
    /\ queue \in Seq(Commands) /\ Len(queue) <= QueueSize
    /\ callback \in Commands \cup {Nothing}
    /\ workerPc \in {"none", "select", "taken", "write", "answer", "drain", "gone"}
    /\ current \in Commands \cup {Nothing}
    /\ draining \in BOOLEAN
    /\ verdict \in Outcomes \cup {"none"} /\ attempt \in 0..MaxRetries
    /\ wire \in [Commands -> Nat]
    /\ known \subseteq Devices /\ changes \in 0..Changes
    /\ stats \in [Counters -> Nat]
    /\ answers \in [Commands -> Seq(Outcomes)]
    /\ written \in Seq(Commands) /\ doubtful \subseteq Commands
    /\ late \subseteq Commands /\ gaveUp \in BOOLEAN

InHand(v) == IF v = Nothing THEN 0 ELSE 1

\* The counters that Stats reports balance at every step: a command received has
\* been counted once as succeeded, failed or rejected, or is in the queue or in
\* the hands of the goroutine or of the callback.
Accounting ==
    stats["received"] = stats["succeeded"] + stats["failed"] + stats["rejected"]
                        + Len(queue) + InHand(current) + InHand(callback)

Queued == {queue[i] : i \in 1..Len(queue)}
Held == Queued \cup {current, callback}
Written == {written[i] : i \in 1..Len(written)}

\* No value of c reached a device, and none is on its way.
NeverWritten(c) == c \notin Written /\ wire[c] = 0

\* An answer is given once and tells the truth, whichever of the six places gave
\* it: a command still held has no answer, and one in the queue or in the callback no
\* effect; "success" means that the device took the value, a refusal that it never
\* will, however late.  A failure leaves it open.
AnswersAreHonest ==
    \A c \in Commands :
        /\ Len(answers[c]) <= 1
        /\ c \in Held => answers[c] = <<>>
        /\ c \in Queued \cup {callback} => NeverWritten(c)
        /\ answers[c] = <<"success">> => c \in Written
        /\ answers[c] = <<"refused">> => NeverWritten(c)

\* The values reach the devices in the order in which their commands arrived,
\* each once, through the queue, its drain and the end of the context.  A later set
\* point is overwritten by an earlier one, and a value written twice, only if a
\* request of that command went unanswered.
OvertakenOnlyInDoubt ==
    \A i, j \in 1..Len(written) : i < j => written[i] < written[j] \/ written[j] \in doubtful

\* The safety of the handler: types, counters, answers and order.
HandlerSafe == TypeOK /\ Accounting /\ AnswersAreHonest /\ OvertakenOnlyInDoubt

\* After a drain that did not time out the queue holds only commands that came
\* when the goroutine had left: every command queued before that was settled.
CleanDrainSettlesAll ==
    workerPc = "gone" /\ ~gaveUp => Queued \subseteq late

\* When Stop has returned the handler begins nothing: main closes the protocol
\* pools next.  What reaches a device after that was in doubt before.
StoppedStartsNothing ==
    [][mainPc = "stopped" =>
         /\ UNCHANGED <<current, doubtful>>
         /\ written' = written \/ \E c \in doubtful : written' = Append(written, c)]_vars

\* If publishes end, every queued command is settled, or the goroutine leaves it at
\* the end.
QueuedCommandsSettle ==
    PublishesEnd => \A c \in Commands : c \in Held ~> c \notin Held \/ workerPc = "gone"

\* If publishes end, Stop ends, although commands still arrive while it drains.
StopEnds == PublishesEnd => (mainPc = "cancelled" ~> mainPc = "stopped")
=============================================================================
