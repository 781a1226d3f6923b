----------------------- MODULE CommandHandler_proofs -----------------------
(***************************************************************************)
(* Proofs about CommandHandler for every number of commands, queue size,   *)
(* number of retries, set of devices and number of configuration changes:  *)
(* types, the balance of the counters, honest answers, the order of the    *)
(* values that reach the devices, the clean drain, and that the handler    *)
(* begins nothing after Stop.                                              *)
(***************************************************************************)
EXTENDS CommandHandler, TLAPS

Received == stats["received"]

\* What the goroutine's and main's program counters imply.
WorkerInv ==
    /\ workerPc \in {"taken", "write", "answer"} <=> current # Nothing
    /\ workerPc = "answer" <=> verdict # "none"
    /\ mainPc = "start" <=> workerPc = "none"
    /\ mainPc = "stopped" => workerPc = "gone"

\* The commands stand in one line, in the order of their arrival: the one in the
\* goroutine's hands, the queue, the one in the callback.
LineInv ==
    /\ \A i, j \in 1..Len(queue) : i < j => queue[i] < queue[j]
    /\ \A i \in 1..Len(queue) : current < queue[i] /\ queue[i] <= Received
    /\ current <= Received /\ callback <= Received
    /\ callback # Nothing => /\ current < callback
                             /\ \A i \in 1..Len(queue) : queue[i] < callback

\* The commands of which a request was sent, as far as it had or may have an effect.
Touched == Written \cup doubtful

\* They are before the line, up to the command that WriteTag is called for; what is
\* under way is in doubt, and so is the command in hand if its value, or that of a
\* later one, is on its device already.
FieldInv ==
    /\ \A c \in Touched :
          /\ c <= Received
          /\ current # Nothing => c <= current
          /\ workerPc = "taken" => c < current
          /\ \A i \in 1..Len(queue) : c < queue[i]
          /\ callback # Nothing => c < callback
    /\ \A c \in Commands : wire[c] > 0 => c \in doubtful
    /\ workerPc = "write" => \A c \in Written : c < current \/ current \in doubtful

\* What AnswersAreHonest says of one command, and a little more: the effects are
\* told from Touched, and what has not arrived has no answer.
Honest(c) ==
    /\ Len(answers[c]) <= 1
    /\ c \in Held \/ c > Received => answers[c] = <<>>
    /\ answers[c] = <<"success">> => c \in Written
    /\ answers[c] = <<"refused">> => c \notin Touched

\* The answers, and the one that is being published.
AnswerInv ==
    /\ \A c \in Commands : Honest(c)
    /\ verdict = "success" => current \in Written
    /\ verdict = "refused" => current \notin Touched

\* The inductive invariant.
IInv == /\ TypeOK /\ WorkerInv /\ Accounting /\ LineInv
        /\ FieldInv /\ OvertakenOnlyInDoubt /\ AnswerInv /\ CleanDrainSettlesAll

-----------------------------------------------------------------------------
(* What the steps do to the commands.                                      *)

\* The steps that move no command and send nothing.
Quiet == \/ Lifecycle \/ Unsubscribed
         \/ \E d \in Devices : AddDevice(d) \/ RemoveDevice(d)
         \/ SeeStop \/ DrainEnds \/ DrainTimesOut
         \/ Idle \/ UNCHANGED vars

Requests == RequestAnswered \/ RequestRefused \/ RequestRepeated \/ RequestGivenUp

\* Every step is one of these.
LEMMA StepKinds ==
  ASSUME [Next]_vars
  PROVE  \/ Quiet
         \/ \E c \in Commands : Malformed(c) \/ Enqueue(c) \/ QueueFull(c)
         \/ Refuse
         \/ TakeCommand \/ DrainCommand
         \/ Found \/ ShuttingDown \/ NotFound
         \/ Requests
         \/ Answered
         \/ \E c \in Commands : ReachesDevice(c)
  BY DEF Next, Callback, Worker, Environment, Quiet, Requests

\* What the quiet ones leave alone.
LEMMA QuietEffect ==
  ASSUME TypeOK, WorkerInv, Quiet
  PROVE  /\ UNCHANGED <<queue, callback, current, stats, answers, fieldVars, verdict, attempt>>
         /\ \/ workerPc' = workerPc
            \/ current = Nothing /\ workerPc' \notin {"taken", "write", "answer"}
  <1> USE DEF vars, workVars, queueVars, mainVars, deviceVars, history, WorkerInv
  <1>1. CASE Lifecycle
    BY <1>1 DEF Lifecycle, Start, StartFails, StopCancels, StopUnsubscribes, StopReturns
  <1>2. CASE Unsubscribed \/ \E d \in Devices : AddDevice(d) \/ RemoveDevice(d)
    BY <1>2 DEF Unsubscribed, AddDevice, RemoveDevice
  <1>3. CASE SeeStop \/ DrainEnds \/ DrainTimesOut
    BY <1>3 DEF SeeStop, DrainEnds, DrainDone, DrainTimesOut
  <1>4. CASE Idle \/ UNCHANGED vars
    BY <1>4 DEF Idle
  <1>5. QED
    BY <1>1, <1>2, <1>3, <1>4 DEF Quiet

\* A command that leaves the lookup or WriteTag with a verdict.
LEMMA SettleEffect ==
  ASSUME TypeOK, WorkerInv, NEW o, Settle(o)
  PROVE  /\ workerPc' = "answer" /\ verdict' = o
         /\ UNCHANGED <<mainVars, queue, callback, current, draining, deviceVars, stats, answers,
                        late, gaveUp>>
         /\ attempt' = 0
  BY DEF Settle, queueVars, history

\* What one request does, whatever comes of it.
LEMMA RequestEffect ==
  ASSUME TypeOK, WorkerInv, Requests
  PROVE  /\ workerPc = "write" /\ current \in Commands
         /\ UNCHANGED <<mainVars, queue, callback, current, draining, deviceVars, stats, answers,
                        late, gaveUp>>
         /\ \/ /\ workerPc' = "answer" /\ verdict' = "success" /\ attempt' = 0
               /\ written' = Append(written, current) /\ UNCHANGED <<wire, doubtful>>
            \/ /\ workerPc' = "answer" /\ verdict' = "failure" /\ attempt' = 0
               /\ UNCHANGED <<wire, doubtful, written>>
            \/ /\ doubtful' = doubtful \cup {current} /\ written' = written
               /\ wire' \in {wire, [wire EXCEPT ![current] = @ + 1]}
               /\ \/ /\ UNCHANGED <<workerPc, verdict>>
                     /\ attempt < MaxRetries /\ attempt' = attempt + 1
                  \/ workerPc' = "answer" /\ verdict' = "failure" /\ attempt' = 0
  <1> USE DEF fieldVars
  <1>0. workerPc = "write" /\ current \in Commands
    BY DEF Requests, RequestAnswered, RequestRefused, RequestRepeated, RequestGivenUp, Unanswered,
           TypeOK, WorkerInv
  <1>1. CASE RequestAnswered
    BY <1>0, <1>1, SettleEffect DEF RequestAnswered
  <1>2. CASE RequestRefused
    BY <1>0, <1>2, SettleEffect DEF RequestRefused
  <1>3. CASE RequestRepeated
    BY <1>0, <1>3 DEF RequestRepeated, Unanswered, queueVars, history
  <1>4. CASE RequestGivenUp
    BY <1>0, <1>4, SettleEffect DEF RequestGivenUp, Unanswered
  <1>5. QED
    BY <1>1, <1>2, <1>3, <1>4 DEF Requests

\* What Answered does.
LEMMA AnsweredEffect ==
  ASSUME TypeOK, WorkerInv, Answered
  PROVE  /\ current \in Commands /\ current' = Nothing /\ verdict \in Outcomes /\ verdict' = "none"
         /\ UNCHANGED <<mainVars, queue, callback, attempt, deviceVars, fieldVars, late, gaveUp>>
         /\ \E k \in Counters \ {"received"} : Count(k)
         /\ \/ UNCHANGED answers
            \/ answers' = [answers EXCEPT ![current] = Append(@, verdict)]
         /\ workerPc' \in {"select", "drain"} /\ draining' = FALSE
  <1>1. /\ current \in Commands /\ verdict \in Outcomes
    BY DEF Answered, TypeOK, WorkerInv, Outcomes
  <1>2. CounterOf[verdict] \in Counters \ {"received"}
    BY <1>1 DEF CounterOf, Counters, Outcomes
  <1>3. QED
    BY <1>1, <1>2 DEF Answered, Answer, queueVars

-----------------------------------------------------------------------------
(* The invariant.                                                          *)

\* No command has arrived.
LEMMA InitInv == Init => IInv
  <1> SUFFICES ASSUME Init PROVE IInv
    OBVIOUS
  <1> USE CommandAssumption DEF Init
  <1>1. TypeOK
    <2>1. /\ queue \in Seq(Commands) /\ Len(queue) <= QueueSize
          /\ written \in Seq(Commands)
          /\ callback \in Commands \cup {Nothing} /\ current \in Commands \cup {Nothing}
      OBVIOUS
    <2>2. /\ stats \in [Counters -> Nat] /\ answers \in [Commands -> Seq(Outcomes)]
          /\ changes \in 0..Changes /\ attempt \in 0..MaxRetries
          /\ wire \in [Commands -> Nat]
      OBVIOUS
    <2>3. QED
      BY <2>1, <2>2 DEF TypeOK
  <1>2. WorkerInv /\ Accounting
    BY DEF WorkerInv, Accounting, InHand, Nothing, Counters
  <1>3. Written = {} /\ Touched = {} /\ Queued = {}
    BY DEF Written, Touched, Queued
  <1>4. LineInv /\ OvertakenOnlyInDoubt /\ CleanDrainSettlesAll
    BY <1>3 DEF LineInv, OvertakenOnlyInDoubt, CleanDrainSettlesAll, Received, Counters, Nothing
  <1>5. FieldInv
    BY <1>3 DEF FieldInv
  <1>6. AnswerInv
    BY <1>3 DEF AnswerInv, Honest, Commands
  <1>7. QED
    BY <1>1, <1>2, <1>4, <1>5, <1>6 DEF IInv

\* Counting and answering keep the types.
LEMMA CountType ==
  ASSUME TypeOK, NEW k \in Counters
  PROVE  [stats EXCEPT ![k] = @ + 1] \in [Counters -> Nat]
  BY DEF TypeOK

LEMMA CountTwice ==
  ASSUME NEW S, NEW f \in [S -> Nat], NEW a \in S, NEW b \in S
  PROVE  [f EXCEPT ![a] = @ + 1, ![b] = @ + 1] \in [S -> Nat]
  OBVIOUS

LEMMA AnswerType ==
  ASSUME TypeOK, NEW c \in Commands, NEW o \in Outcomes
  PROVE  [answers EXCEPT ![c] = Append(@, o)] \in [Commands -> Seq(Outcomes)]
  <1>1. Append(answers[c], o) \in Seq(Outcomes)
    BY DEF TypeOK
  <1>2. QED
    BY <1>1 DEF TypeOK

\* Every step keeps the types.
LEMMA NextType == TypeOK /\ WorkerInv /\ [Next]_vars => TypeOK'
  <1> SUFFICES ASSUME TypeOK, WorkerInv, [Next]_vars PROVE TypeOK'
    OBVIOUS
  <1>0. /\ {"received", "succeeded", "failed", "rejected"} \subseteq Counters
        /\ {"success", "failure", "refused"} \subseteq Outcomes
    BY DEF Counters, Outcomes
  <1> USE DEF TypeOK, workVars, queueVars, mainVars, deviceVars, fieldVars, history
  <1>1. CASE Lifecycle
    BY <1>1 DEF Lifecycle, Start, StartFails, StopCancels, StopUnsubscribes, StopReturns
  <1>2. CASE Unsubscribed
    BY <1>2 DEF Unsubscribed
  <1>3. ASSUME NEW d \in Devices, AddDevice(d) \/ RemoveDevice(d) PROVE TypeOK'
    BY <1>3, CommandAssumption DEF AddDevice, RemoveDevice
  <1>4. ASSUME NEW c \in Commands, Malformed(c) PROVE TypeOK'
    <2>1. stats' \in [Counters -> Nat]
      BY <1>0, <1>4, CountTwice DEF Malformed
    <2>2. UNCHANGED <<mainVars, queueVars, workVars, deviceVars, fieldVars, history>>
      BY <1>4 DEF Malformed
    <2>3. QED
      BY <2>1, <2>2
  <1>5. ASSUME NEW c \in Commands, Enqueue(c) PROVE TypeOK'
    <2>1. stats' \in [Counters -> Nat]
      BY <1>0, <1>5, CountType DEF Enqueue, Count
    <2>2. queue' \in Seq(Commands) /\ Len(queue') <= QueueSize
      BY <1>5, CommandAssumption DEF Enqueue, HasRoom
    <2>3. late' \subseteq Commands
      BY <1>5 DEF Enqueue
    <2>4. UNCHANGED <<mainVars, callback, workVars, deviceVars, fieldVars, answers, gaveUp>>
      BY <1>5 DEF Enqueue
    <2>5. QED
      BY <2>1, <2>2, <2>3, <2>4
  <1>6. ASSUME NEW c \in Commands, QueueFull(c) PROVE TypeOK'
    BY <1>0, <1>6, CountType DEF QueueFull, Count
  <1>7. CASE Refuse
    <2>1. callback \in Commands
      BY <1>7 DEF Refuse
    <2>2. stats' \in [Counters -> Nat]
      BY <1>0, <1>7, CountType DEF Refuse, Count
    <2>3. answers' \in [Commands -> Seq(Outcomes)]
      <3>1. [answers EXCEPT ![callback] = Append(@, "refused")] \in [Commands -> Seq(Outcomes)]
        BY <1>0, <2>1, AnswerType
      <3>2. QED
        BY <1>7, <3>1 DEF Refuse, Answer
    <2>4. QED
      BY <1>7, <2>2, <2>3 DEF Refuse
  <1>8. CASE TakeCommand \/ DrainCommand
    <2>1. /\ Head(queue) \in Commands
          /\ Tail(queue) \in Seq(Commands) /\ Len(Tail(queue)) <= QueueSize
      BY <1>8, CommandAssumption DEF TakeCommand, DrainCommand, Take
    <2>2. QED
      BY <1>8, <2>1 DEF TakeCommand, DrainCommand, Take
  <1>9. CASE SeeStop \/ DrainEnds \/ DrainTimesOut \/ Found
    BY <1>9 DEF SeeStop, DrainEnds, DrainTimesOut, Found
  <1>10. CASE ShuttingDown \/ NotFound
    BY <1>0, <1>10, CommandAssumption DEF ShuttingDown, NotFound, Settle
  <1>11. CASE Requests
    <2>1. workerPc' \in {"write", "answer"} /\ verdict' \in Outcomes \cup {"none"}
          /\ doubtful' \subseteq Commands
      BY <1>0, <1>11, RequestEffect
    <2>1a. attempt' \in 0..MaxRetries
      <3>1. (attempt' = attempt + 1 /\ attempt < MaxRetries) \/ attempt' = 0
        BY <1>11, RequestEffect
      <3>2. QED
        BY <3>1, CommandAssumption
    <2>2. written' \in Seq(Commands)
      <3>1. current \in Commands
        BY <1>11, RequestEffect
      <3>2. Append(written, current) \in Seq(Commands)
        BY <3>1
      <3>3. QED
        BY <1>11, <3>2, RequestEffect
    <2>3. wire' \in [Commands -> Nat]
      <3>1. wire \in [Commands -> Nat] /\ wire[current] + 1 \in Nat
        BY <1>11, RequestEffect
      <3>2. [wire EXCEPT ![current] = @ + 1] \in [Commands -> Nat]
        BY <3>1
      <3>3. QED
        BY <1>11, <3>1, <3>2, RequestEffect
    <2>4. UNCHANGED <<mainVars, queue, callback, current, draining, deviceVars, stats, answers,
                      late, gaveUp>>
      BY <1>11, RequestEffect
    <2>5. QED
      BY <2>1, <2>1a, <2>2, <2>3, <2>4
  <1>12. CASE Answered
    <2>0. PICK k \in Counters : Count(k)
      BY <1>12, AnsweredEffect
    <2>1. /\ stats' \in [Counters -> Nat]
          /\ current' \in Commands \cup {Nothing}
      BY <1>12, <2>0, AnsweredEffect, CountType DEF Count
    <2>2. answers' \in [Commands -> Seq(Outcomes)]
      <3>1. current \in Commands /\ verdict \in Outcomes
        BY <1>12, AnsweredEffect
      <3>2. [answers EXCEPT ![current] = Append(@, verdict)] \in [Commands -> Seq(Outcomes)]
        BY <3>1, AnswerType
      <3>3. QED
        BY <1>12, <3>2, AnsweredEffect
    <2>3. QED
      BY <1>12, <2>1, <2>2, AnsweredEffect
  <1>13. ASSUME NEW c \in Commands, ReachesDevice(c) PROVE TypeOK'
    <2>1. wire[c] - 1 \in Nat
      BY <1>13 DEF ReachesDevice
    <2>2. wire' \in [Commands -> Nat] /\ written' \in Seq(Commands)
      BY <1>13, <2>1 DEF ReachesDevice
    <2>3. UNCHANGED <<mainVars, queueVars, workVars, deviceVars, stats, doubtful, history>>
      BY <1>13 DEF ReachesDevice
    <2>4. QED
      BY <2>2, <2>3
  <1>14. CASE Idle \/ UNCHANGED vars
    BY <1>14 DEF Idle, vars
  <1>15. QED
    BY <1>1, <1>2, <1>3, <1>4, <1>5, <1>6, <1>7, <1>8, <1>9, <1>10, <1>11, <1>12, <1>13, <1>14,
       StepKinds DEF Quiet

\* A command is in the goroutine's hands exactly between its receipt and its answer.
LEMMA NextWorker == TypeOK /\ WorkerInv /\ [Next]_vars => WorkerInv'
  <1> SUFFICES ASSUME TypeOK, WorkerInv, [Next]_vars PROVE WorkerInv'
    OBVIOUS
  <1> USE DEF workVars, queueVars, mainVars, deviceVars, history
  <1>1. CASE Lifecycle
    BY <1>1 DEF Lifecycle, Start, StartFails, StopCancels, StopUnsubscribes, StopReturns, WorkerGone,
                WorkerInv
  <1>2. CASE Unsubscribed \/ \E d \in Devices : AddDevice(d) \/ RemoveDevice(d)
    BY <1>2 DEF Unsubscribed, AddDevice, RemoveDevice, WorkerInv
  <1>3. CASE Callback
    BY <1>3 DEF Callback, Refuse, Malformed, Enqueue, QueueFull, WorkerInv
  <1>4. CASE TakeCommand \/ DrainCommand
    <2>0. \A c \in Commands : c # Nothing
      BY CommandAssumption DEF Commands, Nothing
    <2>1. Head(queue) \in Commands /\ Head(queue) # Nothing
      BY <1>4, <2>0 DEF TakeCommand, DrainCommand, Take, TypeOK
    <2>2. QED
      BY <1>4, <2>1 DEF TakeCommand, DrainCommand, Take, WorkerInv
  <1>5. CASE SeeStop \/ DrainEnds \/ DrainTimesOut \/ Found
    BY <1>5 DEF SeeStop, DrainEnds, DrainTimesOut, DrainDone, Found, WorkerInv
  <1>6. CASE ShuttingDown \/ NotFound
    BY <1>6 DEF ShuttingDown, NotFound, Settle, WorkerInv
  <1>7. CASE Requests
    BY <1>7, RequestEffect DEF WorkerInv
  <1>8. CASE Answered
    <2>1. workerPc = "answer"
      BY <1>8 DEF Answered
    <2>2. QED
      BY <1>8, <2>1, AnsweredEffect DEF WorkerInv
  <1>9. ASSUME NEW c \in Commands, ReachesDevice(c) PROVE WorkerInv'
    BY <1>9 DEF ReachesDevice, WorkerInv
  <1>10. CASE Idle \/ UNCHANGED vars
    BY <1>10 DEF Idle, vars, WorkerInv
  <1>11. QED
    BY <1>1, <1>2, <1>3, <1>4, <1>5, <1>6, <1>7, <1>8, <1>9, <1>10, StepKinds DEF Quiet, Callback

\* A command moves from one term of the balance to another.
LEMMA NextAccounting == TypeOK /\ WorkerInv /\ Accounting /\ [Next]_vars => Accounting'
  <1> SUFFICES ASSUME TypeOK, WorkerInv, Accounting, [Next]_vars PROVE Accounting'
    OBVIOUS
  <1>0. /\ stats \in [Counters -> Nat] /\ Len(queue) \in Nat
        /\ \A c \in Commands : c # Nothing
    BY CommandAssumption DEF TypeOK, Commands, Nothing
  <1> USE <1>0 DEF Accounting, InHand, Counters, queueVars
  <1>1. CASE Quiet
    BY <1>1, QuietEffect
  <1>2. ASSUME NEW c \in Commands, Malformed(c) PROVE Accounting'
    <2>1. /\ stats'["received"] = stats["received"] + 1
          /\ stats'["rejected"] = stats["rejected"] + 1
          /\ stats'["succeeded"] = stats["succeeded"]
          /\ stats'["failed"] = stats["failed"]
      BY <1>2 DEF Malformed
    <2>2. UNCHANGED <<queue, current, callback>>
      BY <1>2 DEF Malformed, workVars
    <2>3. QED
      BY <2>1, <2>2
  <1>3. ASSUME NEW c \in Commands, Enqueue(c) PROVE Accounting'
    <2>1. Len(queue') = Len(queue) + 1
      BY <1>3 DEF Enqueue, TypeOK
    <2>2. /\ stats'["received"] = stats["received"] + 1
          /\ stats'["rejected"] = stats["rejected"]
          /\ stats'["succeeded"] = stats["succeeded"]
          /\ stats'["failed"] = stats["failed"]
      BY <1>3 DEF Enqueue, Count
    <2>3. UNCHANGED <<current, callback>>
      BY <1>3 DEF Enqueue, workVars
    <2>4. QED
      BY <2>1, <2>2, <2>3
  <1>4. ASSUME NEW c \in Commands, QueueFull(c) PROVE Accounting'
    BY <1>4 DEF QueueFull, Arrives, Count, workVars
  <1>5. CASE Refuse
    BY <1>5 DEF Refuse, Count, workVars
  <1>6. CASE TakeCommand \/ DrainCommand
    <2>1. Head(queue) # Nothing /\ Len(queue') = Len(queue) - 1
      BY <1>6 DEF TakeCommand, DrainCommand, Take, TypeOK
    <2>2. current = Nothing
      BY <1>6 DEF TakeCommand, DrainCommand, WorkerInv
    <2>3. QED
      BY <1>6, <2>1, <2>2 DEF TakeCommand, DrainCommand, Take
  <1>7. CASE Found \/ ShuttingDown \/ NotFound
    BY <1>7 DEF Found, ShuttingDown, NotFound, Settle
  <1>8. CASE Requests
    BY <1>8, RequestEffect
  <1>9. CASE Answered
    <2>1. PICK k \in Counters \ {"received"} : Count(k)
      BY <1>9, AnsweredEffect
    <2>2. current # Nothing /\ current' = Nothing /\ UNCHANGED <<queue, callback>>
      BY <1>9, AnsweredEffect
    <2>3. QED
      BY <2>1, <2>2 DEF Count
  <1>10. ASSUME NEW c \in Commands, ReachesDevice(c) PROVE Accounting'
    BY <1>10 DEF ReachesDevice, workVars
  <1>11. QED
    BY <1>1, <1>2, <1>3, <1>4, <1>5, <1>6, <1>7, <1>8, <1>9, <1>10, StepKinds

\* The numbers that the steps compare.
LEMMA Numbers ==
  ASSUME TypeOK
  PROVE  /\ stats \in [Counters -> Nat] /\ Received \in Nat
         /\ queue \in Seq(Commands) /\ written \in Seq(Commands)
         /\ Commands \subseteq Nat \ {0} /\ Nothing = 0
         /\ current \in Nat /\ callback \in Nat
         /\ \A i \in 1..Len(queue) : queue[i] \in Commands
         /\ \A c \in Touched : c \in Commands
  <1>1. /\ stats \in [Counters -> Nat] /\ Received \in Nat
        /\ queue \in Seq(Commands) /\ written \in Seq(Commands)
        /\ Commands \subseteq Nat \ {0} /\ Nothing = 0
        /\ current \in Nat /\ callback \in Nat
    BY CommandAssumption DEF TypeOK, Commands, Nothing, Received, Counters
  <1>2. /\ \A i \in 1..Len(queue) : queue[i] \in Commands
        /\ \A i \in 1..Len(written) : written[i] \in Commands
    BY <1>1
  <1>3. \A c \in Touched : c \in Commands
    BY <1>2 DEF Touched, Written, TypeOK
  <1>4. QED
    BY <1>1, <1>2, <1>3

\* Commands join the line at its end and move up in order.
LEMMA NextLine == TypeOK /\ WorkerInv /\ LineInv /\ [Next]_vars => LineInv'
  <1> SUFFICES ASSUME TypeOK, WorkerInv, LineInv, [Next]_vars PROVE LineInv'
    OBVIOUS
  <1>0. /\ stats \in [Counters -> Nat] /\ Received \in Nat
        /\ queue \in Seq(Commands) /\ Commands \subseteq Nat \ {0} /\ Nothing = 0
        /\ current \in Nat /\ callback \in Nat
        /\ \A i \in 1..Len(queue) : queue[i] \in Nat \ {0}
    BY Numbers
  <1> USE <1>0 DEF LineInv, queueVars
  <1>1. CASE UNCHANGED <<queue, callback, current, stats>>
    BY <1>1 DEF Received
  <1>2. ASSUME NEW c \in Commands, Malformed(c) PROVE LineInv'
    <2>1. Received' = Received + 1
      BY <1>2 DEF Malformed, Received, Counters
    <2>2. QED
      BY <1>2, <2>1 DEF Malformed, workVars
  <1>3. ASSUME NEW c \in Commands, Enqueue(c) PROVE LineInv'
    <2>1. Received' = c /\ c = Received + 1 /\ callback = 0
      BY <1>3 DEF Enqueue, Arrives, Count, Received, Counters
    <2>2. /\ Len(queue') = Len(queue) + 1
          /\ \A i \in 1..Len(queue) : queue'[i] = queue[i]
          /\ queue'[Len(queue) + 1] = c
      BY <1>3 DEF Enqueue
    <2>3. \A i \in 1..Len(queue') : i \in 1..Len(queue) \/ i = Len(queue) + 1
      BY <2>2
    <2>4. QED
      BY <1>3, <2>1, <2>2, <2>3 DEF Enqueue, workVars
  <1>4. ASSUME NEW c \in Commands, QueueFull(c) PROVE LineInv'
    <2>1. Received' = c /\ c = Received + 1 /\ callback' = c
      BY <1>4 DEF QueueFull, Arrives, Count, Received, Counters
    <2>2. QED
      BY <1>4, <2>1 DEF QueueFull, workVars
  <1>5. CASE Refuse
    <2>1. Received' = Received
      BY <1>5 DEF Refuse, Count, Received, Counters
    <2>2. QED
      BY <1>5, <2>1 DEF Refuse, workVars
  <1>6. CASE TakeCommand \/ DrainCommand
    <2>1. /\ queue # <<>> /\ current' = queue[1] /\ queue' = Tail(queue)
          /\ UNCHANGED <<callback, stats>>
      BY <1>6 DEF TakeCommand, DrainCommand, Take
    <2>2. /\ Len(queue) \in Nat /\ 1 <= Len(queue)
          /\ Len(queue') = Len(queue) - 1
          /\ \A i \in 1..Len(queue') : queue'[i] = queue[i + 1] /\ i + 1 \in 1..Len(queue)
      BY <2>1
    <2>3. QED
      BY <2>1, <2>2 DEF Received
  <1>7. CASE Answered
    <2>1. PICK k \in Counters \ {"received"} : Count(k)
      BY <1>7, AnsweredEffect
    <2>2. Received' = Received
      BY <2>1 DEF Count, Received, Counters
    <2>3. current' = 0 /\ UNCHANGED <<queue, callback>>
      BY <1>7, AnsweredEffect
    <2>4. QED
      BY <2>2, <2>3
  <1>8. CASE Quiet \/ Requests
    BY <1>1, <1>8, QuietEffect, RequestEffect
  <1>9. CASE Found \/ ShuttingDown \/ NotFound \/ \E c \in Commands : ReachesDevice(c)
    BY <1>1, <1>9 DEF Found, ShuttingDown, NotFound, Settle, ReachesDevice, workVars
  <1>10. QED
    BY <1>2, <1>3, <1>4, <1>5, <1>6, <1>7, <1>8, <1>9, StepKinds

\* A value that reaches a device is one more at the end.
LEMMA OneMoreWritten ==
  ASSUME TypeOK, NEW c \in Commands, written' = Append(written, c)
  PROVE  /\ Written' = Written \cup {c}
         /\ Len(written') = Len(written) + 1 /\ Len(written) \in Nat
         /\ \A i \in 1..Len(written) : written'[i] = written[i]
         /\ written'[Len(written) + 1] = c
  <1>1. written \in Seq(Commands)
    BY DEF TypeOK
  <1>2. /\ Len(written') = Len(written) + 1 /\ Len(written) \in Nat
        /\ \A i \in 1..Len(written) : written'[i] = written[i]
        /\ written'[Len(written) + 1] = c
    BY <1>1
  <1>3. \A i \in 1..Len(written') : i \in 1..Len(written) \/ i = Len(written) + 1
    BY <1>2
  <1>4. Written' \subseteq Written \cup {c}
    BY <1>2, <1>3 DEF Written
  <1>5. Written \cup {c} \subseteq Written'
    <2>1. \A i \in 1..Len(written) : i \in 1..Len(written')
      BY <1>2
    <2>2. Len(written) + 1 \in 1..Len(written')
      BY <1>2
    <2>3. QED
      BY <1>2, <2>1, <2>2 DEF Written
  <1>6. QED
    BY <1>2, <1>4, <1>5

\* What reaches a device is the command in hand, or was in doubt.
LEMMA TouchedGrows ==
  ASSUME TypeOK, WorkerInv, FieldInv, Requests \/ \E c \in Commands : ReachesDevice(c)
  PROVE  /\ Written \subseteq Written' /\ doubtful \subseteq doubtful'
         /\ \A c \in Touched' : c \in Touched \/ (Requests /\ c = current)
         /\ \A c \in Written' : c \in Written \/ (Requests /\ c = current) \/ c \in doubtful
  <1>1. CASE Requests
    <2>1. /\ current \in Commands
          /\ doubtful \subseteq doubtful' /\ doubtful' \subseteq doubtful \cup {current}
          /\ written' \in {written, Append(written, current)}
      BY <1>1, RequestEffect
    <2>2. Written \subseteq Written' /\ Written' \subseteq Written \cup {current}
      <3>1. CASE written' = Append(written, current)
        BY <2>1, <3>1, OneMoreWritten
      <3>2. CASE written' = written
        BY <3>2 DEF Written
      <3>3. QED
        BY <2>1, <3>1, <3>2
    <2>3. Touched' \subseteq Touched \cup {current}
      <3>1. Touched' = Written' \cup doubtful'
        BY DEF Touched
      <3>2. QED
        BY <2>1, <2>2, <3>1 DEF Touched
    <2>4. QED
      BY <1>1, <2>1, <2>2, <2>3
  <1>2. ASSUME NEW c \in Commands, ReachesDevice(c)
        PROVE  /\ Written \subseteq Written' /\ doubtful' = doubtful
               /\ \A d \in Written' : d \in Written \/ d \in doubtful
               /\ Touched' \subseteq Touched
    <2>1. written' = Append(written, c) /\ doubtful' = doubtful /\ c \in doubtful
      BY <1>2 DEF ReachesDevice, FieldInv
    <2>2. Written' = Written \cup {c}
      BY <2>1, OneMoreWritten
    <2>3. Touched' = Written' \cup doubtful'
      BY DEF Touched
    <2>4. QED
      BY <2>1, <2>2, <2>3 DEF Touched
  <1>3. QED
    <2>1. CASE Requests
      BY <1>1, <2>1
    <2>2. CASE \E c \in Commands : ReachesDevice(c)
      BY <1>2, <2>2
    <2>3. QED
      BY <2>1, <2>2

\* What was sent stays behind the line; what is under way was given up.
LEMMA NextField ==
  ASSUME TypeOK, WorkerInv, LineInv, FieldInv, [Next]_vars
  PROVE  FieldInv'
  <1>0. /\ stats \in [Counters -> Nat] /\ Received \in Nat
        /\ Commands \subseteq Nat \ {0} /\ Nothing = 0
        /\ current \in Nat /\ callback \in Nat
        /\ \A i \in 1..Len(queue) : queue[i] \in Nat
        /\ \A c \in Touched : c \in Nat
        /\ queue \in Seq(Commands)
    BY Numbers
  <1>1. ASSUME UNCHANGED fieldVars, workerPc' = "write" => workerPc \in {"write", "taken"},
               workerPc' = "write" => current' = current,
               \A c \in Touched :
                  /\ c <= Received'
                  /\ current' # Nothing => c <= current'
                  /\ workerPc' = "taken" => c < current'
                  /\ \A i \in 1..Len(queue') : c < queue'[i]
                  /\ callback' # Nothing => c < callback'
        PROVE  FieldInv'
    <2>1. Written' = Written /\ Touched' = Touched /\ wire' = wire /\ doubtful' = doubtful
      BY <1>1 DEF fieldVars, Written, Touched
    <2>2. workerPc' = "write" => \A c \in Written : c < current' \/ current' \in doubtful
      BY <1>1 DEF FieldInv, Touched
    <2>3. QED
      BY <1>1, <2>1, <2>2 DEF FieldInv
  <1>2. CASE Quiet
    <2>1. /\ UNCHANGED <<queue, callback, current, stats, fieldVars>>
          /\ \/ workerPc' = workerPc
             \/ current = Nothing /\ workerPc' \notin {"taken", "write", "answer"}
      BY <1>2, QuietEffect
    <2>2. Received' = Received
      BY <2>1 DEF Received
    <2>3. QED
      BY <1>1, <2>1, <2>2 DEF FieldInv
  <1>3. ASSUME NEW c \in Commands, Malformed(c) PROVE FieldInv'
    <2>1. Received' = Received + 1
      BY <1>0, <1>3 DEF Malformed, Received, Counters
    <2>2. UNCHANGED <<queue, callback, current, workerPc, fieldVars>>
      BY <1>3 DEF Malformed, workVars, queueVars
    <2>3. QED
      BY <1>0, <1>1, <2>1, <2>2 DEF FieldInv
  <1>4. ASSUME NEW c \in Commands, Enqueue(c) \/ QueueFull(c) PROVE FieldInv'
    <2>1. Received' = c /\ c = Received + 1
      BY <1>0, <1>4 DEF Enqueue, QueueFull, Arrives, Count, Received, Counters
    <2>2. /\ \A i \in 1..Len(queue') : queue'[i] = c \/ \E j \in 1..Len(queue) : queue'[i] = queue[j]
          /\ callback' \in {callback, c}
      BY <1>0, <1>4 DEF Enqueue, QueueFull
    <2>3. UNCHANGED <<current, workerPc, fieldVars>>
      BY <1>4 DEF Enqueue, QueueFull, workVars
    <2>4. \A d \in Touched : d < c
      BY <1>0, <2>1 DEF FieldInv
    <2>5. QED
      BY <1>0, <1>1, <2>1, <2>2, <2>3, <2>4 DEF FieldInv
  <1>5. CASE Refuse
    <2>1. UNCHANGED <<queue, current, workerPc, fieldVars>> /\ callback' = Nothing
      BY <1>5 DEF Refuse, workVars
    <2>2. Received' = Received
      BY <1>0, <1>5 DEF Refuse, Count, Received, Counters
    <2>3. QED
      BY <1>1, <2>1, <2>2 DEF FieldInv
  <1>6. CASE TakeCommand \/ DrainCommand
    <2>1. /\ queue # <<>> /\ current' = queue[1] /\ queue' = Tail(queue) /\ workerPc' = "taken"
          /\ UNCHANGED <<callback, stats, fieldVars>>
      BY <1>6 DEF TakeCommand, DrainCommand, Take, fieldVars
    <2>2. /\ 1 \in 1..Len(queue)
          /\ \A i \in 1..Len(queue') : \E j \in 1..Len(queue) : queue'[i] = queue[j]
      <3>1. \A i \in 1..Len(queue') : queue'[i] = queue[i + 1] /\ i + 1 \in 1..Len(queue)
        BY <1>0, <2>1
      <3>2. QED
        BY <1>0, <2>1, <3>1
    <2>3. Received' = Received
      BY <2>1 DEF Received
    <2>4. ASSUME NEW c \in Touched
          PROVE  /\ c <= Received' /\ c < current'
                 /\ \A i \in 1..Len(queue') : c < queue'[i]
                 /\ callback' # Nothing => c < callback'
      BY <2>1, <2>2, <2>3 DEF FieldInv
    <2>5. \A c \in Touched : c < current' => c <= current'
      BY <1>0, <2>1, <2>2
    <2>6. QED
      BY <1>1, <2>1, <2>4, <2>5
  <1>7. CASE Found \/ ShuttingDown \/ NotFound
    <2>1. /\ UNCHANGED <<queue, callback, current, stats, fieldVars>>
          /\ workerPc = "taken" /\ workerPc' \in {"write", "answer"}
      BY <1>7 DEF Found, ShuttingDown, NotFound, Settle, queueVars
    <2>2. Received' = Received
      BY <2>1 DEF Received
    <2>3. QED
      BY <1>1, <2>1, <2>2 DEF FieldInv
  <1>8. CASE Answered
    <2>1. PICK k \in Counters \ {"received"} : Count(k)
      BY <1>8, AnsweredEffect
    <2>2. Received' = Received
      BY <1>0, <2>1 DEF Count, Received, Counters
    <2>3. /\ current' = Nothing /\ UNCHANGED <<queue, callback, fieldVars>>
          /\ workerPc' \in {"select", "drain"}
      BY <1>8, AnsweredEffect
    <2>4. QED
      BY <1>1, <2>2, <2>3 DEF FieldInv
  <1>9. CASE Requests
    <2>1. /\ workerPc = "write" /\ current \in Commands
          /\ UNCHANGED <<queue, callback, current, stats>> /\ workerPc' \in {"write", "answer"}
      BY <1>9, RequestEffect
    <2>2. Received' = Received
      BY <2>1 DEF Received
    <2>3. ASSUME NEW c \in Touched'
          PROVE  /\ c <= Received' /\ c <= current'
                 /\ \A i \in 1..Len(queue') : c < queue'[i]
                 /\ callback' # Nothing => c < callback'
      <3>1. CASE c \in Touched
        BY <1>0, <2>1, <2>2, <3>1 DEF FieldInv
      <3>2. CASE c = current
        BY <1>0, <2>1, <2>2, <3>2 DEF LineInv
      <3>3. QED
        BY <1>9, <3>1, <3>2, TouchedGrows
    <2>4. ASSUME NEW c \in Commands, wire'[c] > 0 PROVE c \in doubtful'
      <3>1. \/ wire' = wire /\ doubtful \subseteq doubtful'
            \/ wire' = [wire EXCEPT ![current] = @ + 1] /\ doubtful' = doubtful \cup {current}
        BY <1>9, RequestEffect
      <3>2. CASE wire' = wire /\ doubtful \subseteq doubtful'
        BY <2>4, <3>2 DEF FieldInv
      <3>3. CASE wire' = [wire EXCEPT ![current] = @ + 1] /\ doubtful' = doubtful \cup {current}
        <4>1. c # current => wire'[c] = wire[c]
          BY <3>3 DEF TypeOK
        <4>2. QED
          BY <2>4, <3>3, <4>1 DEF FieldInv
      <3>4. QED
        BY <3>1, <3>2, <3>3
    <2>5. workerPc' = "write" => current \in doubtful'
      BY <1>9, RequestEffect
    <2>6. QED
      BY <2>1, <2>3, <2>4, <2>5 DEF FieldInv
  <1>10. ASSUME NEW c \in Commands, ReachesDevice(c) PROVE FieldInv'
    <2>1. /\ UNCHANGED <<queue, callback, current, stats, workerPc, doubtful>> /\ c \in doubtful
          /\ wire' = [wire EXCEPT ![c] = @ - 1]
      BY <1>10 DEF ReachesDevice, queueVars, workVars, FieldInv
    <2>2. Received' = Received
      BY <2>1 DEF Received
    <2>3. Touched' \subseteq Touched /\ Written' \subseteq Written \cup doubtful
      <3>1. written' = Append(written, c)
        BY <1>10 DEF ReachesDevice
      <3>2. Written' = Written \cup {c}
        BY <3>1, OneMoreWritten
      <3>3. QED
        BY <2>1, <3>2 DEF Touched
    <2>4. \A d \in Commands : wire'[d] > 0 => wire[d] > 0
      <3>1. wire[c] > 0 /\ wire \in [Commands -> Nat]
        BY <1>10 DEF ReachesDevice, TypeOK
      <3>2. \A d \in Commands : d # c => wire'[d] = wire[d]
        BY <2>1, <3>1
      <3>3. QED
        BY <3>1, <3>2
    <2>5. ASSUME workerPc' = "write", NEW d \in Written' PROVE d < current' \/ current' \in doubtful'
      <3>1. CASE d \in Written
        BY <2>1, <2>5, <3>1 DEF FieldInv
      <3>2. CASE d \in doubtful
        <4>1. d <= current
          BY <1>0, <2>1, <2>5, <3>2 DEF FieldInv, Touched, WorkerInv
        <4>2. d \in Nat
          BY <1>0, <3>2 DEF Touched
        <4>3. QED
          BY <1>0, <2>1, <3>2, <4>1, <4>2
      <3>3. QED
        BY <2>3, <3>1, <3>2
    <2>6. QED
      BY <2>1, <2>2, <2>3, <2>4, <2>5 DEF FieldInv
  <1>11. QED
    BY <1>2, <1>3, <1>4, <1>5, <1>6, <1>7, <1>8, <1>9, <1>10, StepKinds

\* A value joins the written ones in order, or in doubt.
LEMMA AppendInDoubt ==
  ASSUME TypeOK, OvertakenOnlyInDoubt, NEW c \in Commands, written' = Append(written, c),
         doubtful \subseteq doubtful', c \in doubtful' \/ \A d \in Written : d < c
  PROVE  OvertakenOnlyInDoubt'
  <1>1. /\ Len(written') = Len(written) + 1 /\ Len(written) \in Nat
        /\ \A i \in 1..Len(written) : written'[i] = written[i]
        /\ written'[Len(written) + 1] = c
    BY OneMoreWritten
  <1>2. \A i \in 1..Len(written') : i \in 1..Len(written) \/ i = Len(written) + 1
    BY <1>1
  <1>3. ASSUME NEW i \in 1..Len(written'), NEW j \in 1..Len(written'), i < j
        PROVE  written'[i] < written'[j] \/ written'[j] \in doubtful'
    <2>1. i \in 1..Len(written)
      BY <1>1, <1>3
    <2>2. CASE j \in 1..Len(written)
      BY <1>1, <1>3, <2>1, <2>2 DEF OvertakenOnlyInDoubt
    <2>3. CASE j = Len(written) + 1
      BY <1>1, <2>1, <2>3 DEF Written
    <2>4. QED
      BY <1>2, <2>2, <2>3
  <1>4. QED
    BY <1>3 DEF OvertakenOnlyInDoubt

\* The values reach the devices in order, unless in doubt.
LEMMA NextOrder ==
  ASSUME TypeOK, WorkerInv, FieldInv, OvertakenOnlyInDoubt, [Next]_vars
  PROVE  OvertakenOnlyInDoubt'
  <1>1. ASSUME written' = written, doubtful \subseteq doubtful' PROVE OvertakenOnlyInDoubt'
    BY <1>1 DEF OvertakenOnlyInDoubt
  <1>2. CASE Quiet
    BY <1>1, <1>2, QuietEffect DEF fieldVars
  <1>3. CASE \/ \E c \in Commands : Malformed(c) \/ Enqueue(c) \/ QueueFull(c)
             \/ Refuse \/ TakeCommand \/ DrainCommand \/ Found \/ ShuttingDown \/ NotFound
    BY <1>1, <1>3 DEF Malformed, Enqueue, QueueFull, Refuse, TakeCommand, DrainCommand, Found,
                      ShuttingDown, NotFound, fieldVars
  <1>4. CASE Answered
    BY <1>1, <1>4, AnsweredEffect DEF fieldVars
  <1>5. CASE Requests
    <2>1. /\ workerPc = "write" /\ current \in Commands /\ doubtful \subseteq doubtful'
          /\ written' \in {written, Append(written, current)}
      BY <1>5, RequestEffect
    <2>2. current \in doubtful' \/ \A d \in Written : d < current
      BY <2>1 DEF FieldInv
    <2>3. QED
      BY <1>1, <2>1, <2>2, AppendInDoubt
  <1>6. ASSUME NEW c \in Commands, ReachesDevice(c) PROVE OvertakenOnlyInDoubt'
    BY <1>6, AppendInDoubt DEF ReachesDevice, FieldInv
  <1>7. QED
    BY <1>2, <1>3, <1>4, <1>5, <1>6, StepKinds

\* One answer says one thing.
LEMMA OneAnswer ==
  ASSUME NEW o \in Outcomes
  PROVE  /\ Len(<<o>>) <= 1
         /\ <<o>> = <<"success">> => o = "success"
         /\ <<o>> = <<"refused">> => o = "refused"
  <1>1. <<o>>[1] = o /\ <<"success">>[1] = "success" /\ <<"refused">>[1] = "refused"
    OBVIOUS
  <1>2. Len(<<o>>) <= 1
    OBVIOUS
  <1>3. QED
    BY <1>1, <1>2

\* The answer of a command that had none, and that leaves the line.
LEMMA AnswerGiven ==
  ASSUME TypeOK, NEW c \in Commands, NEW o \in Outcomes, answers[c] = <<>>, c <= Received',
         c \notin Held', Held' \subseteq Held \cup {Nothing},
         Received' = Received, Written' = Written, Touched' = Touched,
         o = "success" => c \in Written, o = "refused" => c \notin Touched,
         \/ UNCHANGED answers
         \/ answers' = [answers EXCEPT ![c] = Append(@, o)],
         \A d \in Commands : Honest(d)
  PROVE  \A d \in Commands : Honest(d)'
  <1>0. Received \in Nat /\ answers \in [Commands -> Seq(Outcomes)] /\ \A d \in Commands : d # Nothing
    BY Numbers DEF TypeOK
  <1>1. ASSUME NEW d \in Commands, d # c PROVE Honest(d)'
    <2>1. answers'[d] = answers[d]
      BY <1>0, <1>1
    <2>2. d \in Held' => d \in Held
      BY <1>0, <1>1
    <2>3. QED
      BY <2>1, <2>2 DEF Honest
  <1>2. CASE UNCHANGED answers
    <2>1. answers'[c] = <<>> /\ Len(<<>>) <= 1
      BY <1>2
    <2>2. <<>> # <<"success">> /\ <<>> # <<"refused">>
      OBVIOUS
    <2>3. Honest(c)'
      BY <2>1, <2>2 DEF Honest
    <2>4. QED
      BY <1>1, <2>3
  <1>3. CASE answers' = [answers EXCEPT ![c] = Append(@, o)]
    <2>1. answers'[c] = <<o>>
      BY <1>0, <1>3
    <2>2. /\ Len(answers'[c]) <= 1
          /\ answers'[c] = <<"success">> => o = "success"
          /\ answers'[c] = <<"refused">> => o = "refused"
      BY <2>1, OneAnswer
    <2>3. ~(c > Received')
      BY <1>0, Numbers
    <2>4. Honest(c)'
      BY <2>2, <2>3 DEF Honest
    <2>5. QED
      BY <1>1, <2>4
  <1>4. QED
    BY <1>2, <1>3

\* An answer goes to a command that had none, and that leaves the line.
LEMMA NextAnswer ==
  ASSUME TypeOK, WorkerInv, LineInv, FieldInv, AnswerInv, [Next]_vars
  PROVE  AnswerInv'
  <1>0. /\ stats \in [Counters -> Nat] /\ Received \in Nat
        /\ Commands \subseteq Nat \ {0} /\ Nothing = 0
        /\ current \in Nat /\ callback \in Nat
        /\ \A i \in 1..Len(queue) : queue[i] \in Commands
        /\ \A c \in Touched : c \in Commands
        /\ queue \in Seq(Commands)
        /\ answers \in [Commands -> Seq(Outcomes)]
    BY Numbers DEF TypeOK
  <1>a. \A c \in Commands : c > Received => c \notin Held
    BY <1>0 DEF Held, Queued, LineInv
  <1>1. ASSUME UNCHANGED <<answers, fieldVars, current, verdict>>, Received' \in Nat,
               Received <= Received',
               \A c \in Commands : c \in Held' => c \in Held \/ c > Received
        PROVE  AnswerInv'
    <2>1. Written' = Written /\ Touched' = Touched
      BY <1>1 DEF fieldVars, Written, Touched
    <2>2. ASSUME NEW c \in Commands PROVE Honest(c)'
      <3>1. c > Received' => c > Received
        BY <1>0, <1>1
      <3>2. c \in Held' \/ c > Received' => c \in Held \/ c > Received
        BY <1>1, <3>1
      <3>3. Honest(c)
        BY DEF AnswerInv
      <3>4. QED
        BY <1>1, <2>1, <3>2, <3>3 DEF Honest
    <2>3. QED
      BY <1>1, <2>1, <2>2 DEF AnswerInv
  <1>2. CASE Quiet
    <2>1. UNCHANGED <<queue, callback, current, stats, answers, fieldVars, verdict>>
      BY <1>2, QuietEffect
    <2>2. Held' = Held /\ Received' = Received
      BY <2>1 DEF Held, Queued, Received
    <2>3. QED
      BY <1>0, <1>1, <2>1, <2>2
  <1>3. ASSUME NEW c \in Commands, Malformed(c) PROVE AnswerInv'
    <2>1. Received' = Received + 1
      BY <1>0, <1>3 DEF Malformed, Received, Counters
    <2>2. UNCHANGED <<queue, callback, current, answers, fieldVars, verdict>>
      BY <1>3 DEF Malformed, workVars, history, queueVars
    <2>3. Held' = Held
      BY <2>2 DEF Held, Queued
    <2>4. QED
      BY <1>0, <1>1, <2>1, <2>2, <2>3
  <1>4. ASSUME NEW c \in Commands, Enqueue(c) \/ QueueFull(c) PROVE AnswerInv'
    <2>1. Received' = c /\ c = Received + 1
      BY <1>0, <1>4 DEF Enqueue, QueueFull, Arrives, Count, Received, Counters
    <2>2. \A i \in 1..Len(queue') : queue'[i] = c \/ \E j \in 1..Len(queue) : queue'[i] = queue[j]
      BY <1>0, <1>4 DEF Enqueue, QueueFull
    <2>3. Held' \subseteq Held \cup {c}
      <3>1. current' = current /\ callback' \in {callback, c}
        BY <1>4 DEF Enqueue, QueueFull, workVars
      <3>2. Queued' \subseteq Queued \cup {c}
        BY <2>2 DEF Queued
      <3>3. QED
        BY <3>1, <3>2 DEF Held
    <2>4. UNCHANGED <<answers, fieldVars, current, verdict>>
      BY <1>4 DEF Enqueue, QueueFull, history, workVars
    <2>5. \A d \in Commands : d \in Held' => d \in Held \/ d > Received
      BY <1>0, <2>1, <2>3
    <2>6. QED
      BY <1>0, <1>1, <2>1, <2>4, <2>5
  <1>5. CASE Refuse
    <2>1. Received' = Received
      BY <1>0, <1>5 DEF Refuse, Count, Received, Counters
    <2>2. callback \in Commands /\ callback # Nothing /\ callback <= Received
      BY <1>5 DEF Refuse, TypeOK, LineInv
    <2>3. answers[callback] = <<>>
      BY <2>2 DEF AnswerInv, Honest, Held
    <2>4. callback \notin Touched
      BY <1>0, <2>2 DEF FieldInv
    <2>5. UNCHANGED <<queue, current, verdict, fieldVars>> /\ callback' = Nothing
      BY <1>5 DEF Refuse, workVars
    <2>6. callback \notin Held' /\ Held' \subseteq Held \cup {Nothing}
      BY <1>0, <2>2, <2>5 DEF Held, Queued, LineInv
    <2>7. Written' = Written /\ Touched' = Touched
      BY <2>5 DEF fieldVars, Written, Touched
    <2>8. \/ UNCHANGED answers
          \/ answers' = [answers EXCEPT ![callback] = Append(@, "refused")]
      BY <1>5 DEF Refuse, Answer
    <2>9. \A d \in Commands : Honest(d)'
      <3>1. "refused" \in Outcomes /\ "refused" # "success"
        BY DEF Outcomes
      <3>2. callback <= Received' /\ \A d \in Commands : Honest(d)
        BY <2>1, <2>2 DEF AnswerInv
      <3>3. QED
        BY <2>1, <2>2, <2>3, <2>4, <2>6, <2>7, <2>8, <3>1, <3>2, AnswerGiven
    <2>10. QED
      BY <2>5, <2>7, <2>9 DEF AnswerInv
  <1>6. CASE TakeCommand \/ DrainCommand
    <2>1. /\ queue # <<>> /\ current' = queue[1] /\ queue' = Tail(queue)
          /\ UNCHANGED <<callback, stats, answers, fieldVars, verdict>>
          /\ workerPc \in {"select", "drain"}
      BY <1>6 DEF TakeCommand, DrainCommand, Take, history
    <2>2. \A i \in 1..Len(queue') : \E j \in 1..Len(queue) : queue'[i] = queue[j]
      <3>1. \A i \in 1..Len(queue') : queue'[i] = queue[i + 1] /\ i + 1 \in 1..Len(queue)
        BY <1>0, <2>1
      <3>2. QED
        BY <3>1
    <2>3. 1 \in 1..Len(queue)
      BY <1>0, <2>1
    <2>4. Held' \subseteq Held
      BY <2>1, <2>2, <2>3 DEF Held, Queued
    <2>5. Written' = Written /\ Touched' = Touched /\ Received' = Received
      BY <2>1 DEF fieldVars, Written, Touched, Received
    <2>6. \A c \in Commands : Honest(c)'
      BY <2>1, <2>4, <2>5 DEF AnswerInv, Honest
    <2>7. verdict' = "none"
      BY <2>1 DEF WorkerInv
    <2>8. QED
      BY <2>6, <2>7 DEF AnswerInv
  <1>7. CASE Found
    <2>1. UNCHANGED <<queue, callback, current, stats, answers, fieldVars, verdict>>
      BY <1>7 DEF Found, queueVars, history
    <2>2. Held' = Held /\ Received' = Received
      BY <2>1 DEF Held, Queued, Received
    <2>3. QED
      BY <1>0, <1>1, <2>1, <2>2
  <1>8. CASE ShuttingDown \/ NotFound
    <2>1. /\ UNCHANGED <<queue, callback, current, stats, answers, fieldVars>>
          /\ verdict' \in {"refused", "failure"} /\ workerPc = "taken"
      BY <1>8 DEF ShuttingDown, NotFound, Settle, queueVars, history
    <2>2. Held' = Held /\ Written' = Written /\ Touched' = Touched /\ Received' = Received
      BY <2>1 DEF Held, Queued, fieldVars, Written, Touched, Received
    <2>3. current \notin Touched
      BY <1>0, <2>1 DEF FieldInv
    <2>4. \A c \in Commands : Honest(c)'
      BY <2>1, <2>2 DEF AnswerInv, Honest
    <2>5. QED
      BY <2>1, <2>2, <2>3, <2>4 DEF AnswerInv
  <1>9. CASE Requests
    <2>1. /\ workerPc = "write" /\ current \in Commands
          /\ UNCHANGED <<queue, callback, current, stats, answers>>
      BY <1>9, RequestEffect
    <2>2. Held' = Held /\ Received' = Received
      BY <2>1 DEF Held, Queued, Received
    <2>3. current \in Held /\ answers[current] = <<>>
      BY <2>1 DEF Held, AnswerInv, Honest
    <2>4. /\ Written \subseteq Written'
          /\ \A c \in Touched' : c \in Touched \/ c = current
      BY <1>9, TouchedGrows
    <2>5. ASSUME NEW c \in Commands PROVE Honest(c)'
      <3>1. <<>> # <<"refused">> /\ Honest(c)
        BY DEF AnswerInv
      <3>2. QED
        BY <2>1, <2>2, <2>3, <2>4, <3>1 DEF Honest
    <2>6. \/ verdict' = "success" /\ written' = Append(written, current)
          \/ verdict' \in {"failure", "none"}
      <3>1. verdict = "none"
        BY <2>1 DEF WorkerInv
      <3>2. QED
        BY <1>9, <3>1, RequestEffect
    <2>7. verdict' = "success" => current' \in Written'
      BY <2>1, <2>6, OneMoreWritten
    <2>8. QED
      BY <2>5, <2>6, <2>7 DEF AnswerInv
  <1>10. CASE Answered
    <2>0. PICK k \in Counters \ {"received"} : Count(k)
      BY <1>10, AnsweredEffect
    <2>1. Received' = Received
      BY <1>0, <2>0 DEF Count, Received, Counters
    <2>2. /\ current \in Commands /\ current' = Nothing /\ UNCHANGED <<queue, callback, fieldVars>>
          /\ verdict \in Outcomes /\ verdict' = "none"
      BY <1>10, AnsweredEffect
    <2>3. answers[current] = <<>> /\ current <= Received
      BY <2>2 DEF Held, AnswerInv, Honest, LineInv
    <2>4. current \notin Held' /\ Held' \subseteq Held \cup {Nothing}
      BY <1>0, <2>2 DEF Held, Queued, LineInv
    <2>5. Written' = Written /\ Touched' = Touched
      BY <2>2 DEF fieldVars, Written, Touched
    <2>6. \/ UNCHANGED answers
          \/ answers' = [answers EXCEPT ![current] = Append(@, verdict)]
      BY <1>10, AnsweredEffect
    <2>7. /\ verdict = "success" => current \in Written
          /\ verdict = "refused" => current \notin Touched
          /\ \A d \in Commands : Honest(d)
      BY DEF AnswerInv
    <2>8. \A d \in Commands : Honest(d)'
      BY <2>1, <2>2, <2>3, <2>4, <2>5, <2>6, <2>7, AnswerGiven
    <2>9. QED
      BY <2>2, <2>8 DEF AnswerInv
  <1>11. ASSUME NEW c \in Commands, ReachesDevice(c) PROVE AnswerInv'
    <2>1. UNCHANGED <<queue, callback, current, stats, answers, verdict>>
      BY <1>11 DEF ReachesDevice, queueVars, workVars, history
    <2>2. Held' = Held /\ Received' = Received
      BY <2>1 DEF Held, Queued, Received
    <2>3. c \in doubtful /\ written' = Append(written, c) /\ doubtful' = doubtful
      BY <1>11 DEF ReachesDevice, FieldInv
    <2>4. Written' = Written \cup {c}
      BY <2>3, OneMoreWritten
    <2>5. Touched' = Touched
      BY <2>3, <2>4 DEF Touched
    <2>6. \A d \in Commands : Honest(d)'
      BY <2>1, <2>2, <2>4, <2>5 DEF AnswerInv, Honest
    <2>7. QED
      BY <2>1, <2>4, <2>5, <2>6 DEF AnswerInv
  <1>12. QED
    BY <1>2, <1>3, <1>4, <1>5, <1>6, <1>7, <1>8, <1>9, <1>10, <1>11, StepKinds

\* The goroutine leaves an empty queue, or gives up; who comes later is noted.
LEMMA NextDrain == TypeOK /\ WorkerInv /\ CleanDrainSettlesAll /\ [Next]_vars
                      => CleanDrainSettlesAll'
  <1> SUFFICES ASSUME TypeOK, WorkerInv, CleanDrainSettlesAll, [Next]_vars
               PROVE  CleanDrainSettlesAll'
    OBVIOUS
  <1> USE DEF CleanDrainSettlesAll, Queued, workVars, queueVars, mainVars, deviceVars, history
  <1>1. CASE Lifecycle
    BY <1>1 DEF Lifecycle, Start, StartFails, StopCancels, StopUnsubscribes, StopReturns
  <1>2. CASE Unsubscribed \/ \E d \in Devices : AddDevice(d) \/ RemoveDevice(d)
    BY <1>2 DEF Unsubscribed, AddDevice, RemoveDevice
  <1>3. ASSUME NEW c \in Commands, Malformed(c) \/ QueueFull(c) \/ Refuse \/ ReachesDevice(c)
        PROVE  CleanDrainSettlesAll'
    BY <1>3 DEF Malformed, QueueFull, Refuse, ReachesDevice
  <1>4. ASSUME NEW c \in Commands, Enqueue(c) PROVE CleanDrainSettlesAll'
    <2>1. \A i \in 1..Len(queue') : queue'[i] = c \/ \E j \in 1..Len(queue) : queue'[i] = queue[j]
      BY <1>4 DEF Enqueue, TypeOK
    <2>2. workerPc' = "gone" /\ ~gaveUp' => late' = late \cup {c}
      BY <1>4 DEF Enqueue, WorkerGone
    <2>3. workerPc' = workerPc /\ gaveUp' = gaveUp
      BY <1>4 DEF Enqueue
    <2>4. QED
      BY <2>1, <2>2, <2>3
  <1>5. CASE TakeCommand \/ DrainCommand
    BY <1>5 DEF TakeCommand, DrainCommand, Take
  <1>6. CASE DrainEnds
    BY <1>6 DEF DrainEnds, DrainDone
  <1>7. CASE SeeStop \/ DrainTimesOut \/ Found \/ ShuttingDown \/ NotFound
    BY <1>7 DEF SeeStop, DrainTimesOut, Found, ShuttingDown, NotFound, Settle
  <1>8. CASE Requests
    BY <1>8, RequestEffect
  <1>9. CASE Answered
    BY <1>9, AnsweredEffect
  <1>10. CASE Idle \/ UNCHANGED vars
    BY <1>10 DEF Idle, vars
  <1>11. CASE Refuse
    BY <1>11 DEF Refuse
  <1>12. QED
    BY <1>1, <1>2, <1>3, <1>4, <1>5, <1>6, <1>7, <1>8, <1>9, <1>10, <1>11, StepKinds DEF Quiet

\* Every step keeps the inductive invariant.
LEMMA NextInv == IInv /\ [Next]_vars => IInv'
  BY NextType, NextWorker, NextAccounting, NextLine, NextField, NextOrder, NextAnswer, NextDrain
     DEF IInv

\* Whatever callbacks, the goroutine, the devices and Stop do, the inductive
\* invariant holds: the counters of command_handler.go agree with the queue, the
\* command in hand and the answers given, and what was sent stays behind the line of
\* the commands that wait.
THEOREM HandlerCorrect == Spec => []IInv
  BY InitInv, NextInv, PTL DEF Spec

-----------------------------------------------------------------------------
(* What follows.                                                           *)

\* What the invariant says of the answers and of what was never sent.
LEMMA Truthful ==
  ASSUME IInv
  PROVE  AnswersAreHonest
  <1>1. ASSUME NEW c \in Commands, c \notin Touched PROVE NeverWritten(c)
    <2>1. ~(wire[c] > 0) /\ wire[c] \in Nat
      BY <1>1 DEF IInv, FieldInv, Touched, TypeOK
    <2>2. QED
      BY <1>1, <2>1 DEF NeverWritten, Touched
  <1>2. ASSUME NEW c \in Commands, c \in Queued \cup {callback} PROVE c \notin Touched
    <2>1. /\ \A i \in 1..Len(queue) : queue[i] \in Nat
          /\ callback \in Nat /\ c # Nothing
      BY Numbers DEF IInv
    <2>2. QED
      BY <1>2, <2>1 DEF IInv, FieldInv, Queued
  <1>3. QED
    BY <1>1, <1>2 DEF IInv, AnswerInv, Honest, AnswersAreHonest

\* Types and balanced counters; one answer at most, and a true one: a success has
\* reached the device, a refusal never will, even by a request that comes late; and
\* values in the order of arrival unless a request went unanswered
\* (command_handler.go: queueing, drain, refusals and the end of the context).
THEOREM AlwaysHandlerSafe == Spec => []HandlerSafe
  <1>1. IInv => HandlerSafe
    BY Truthful DEF IInv, HandlerSafe
  <1>2. QED
    BY <1>1, HandlerCorrect, PTL

\* A Stop whose drain did not time out leaves no command that was queued before it
\* without its answer (command_handler.go: Stop, drainCommandQueue).
THEOREM AlwaysCleanDrain == Spec => []CleanDrainSettlesAll
  <1>1. IInv => CleanDrainSettlesAll
    BY DEF IInv
  <1>2. QED
    BY <1>1, HandlerCorrect, PTL

\* After Stop has returned the handler takes no command and sends no request: its
\* goroutine is gone (command_handler.go: Stop).  A value that reaches a device after
\* that belongs to a request that had been given up unanswered.
THEOREM NothingBegunAfterStop == Spec => StoppedStartsNothing
  <1>1. IInv /\ [Next]_vars =>
          [mainPc = "stopped" =>
             /\ UNCHANGED <<current, doubtful>>
             /\ written' = written \/ \E c \in doubtful : written' = Append(written, c)]_vars
    <2> SUFFICES ASSUME IInv, [Next]_vars, mainPc = "stopped"
                 PROVE  /\ UNCHANGED <<current, doubtful>>
                        /\ written' = written \/ \E c \in doubtful : written' = Append(written, c)
      OBVIOUS
    <2>1. /\ workerPc = "gone" /\ TypeOK /\ WorkerInv /\ FieldInv
      BY DEF IInv, WorkerInv
    <2>2. /\ ~TakeCommand /\ ~DrainCommand /\ ~Found /\ ~ShuttingDown /\ ~NotFound /\ ~Answered
          /\ ~Requests
      BY <2>1, RequestEffect
         DEF TakeCommand, DrainCommand, Found, ShuttingDown, NotFound, Answered
    <2>3. CASE Quiet
      BY <2>1, <2>3, QuietEffect DEF fieldVars
    <2>4. CASE Refuse \/ \E c \in Commands : Malformed(c) \/ Enqueue(c) \/ QueueFull(c)
      BY <2>4 DEF Malformed, Enqueue, QueueFull, Refuse, workVars, fieldVars
    <2>5. ASSUME NEW c \in Commands, ReachesDevice(c)
          PROVE  UNCHANGED <<current, doubtful>> /\ c \in doubtful /\ written' = Append(written, c)
      BY <2>1, <2>5 DEF ReachesDevice, FieldInv, workVars
    <2>6. QED
      BY <2>2, <2>3, <2>4, <2>5, StepKinds
  <1>2. QED
    BY <1>1, HandlerCorrect, PTL DEF Spec, StoppedStartsNothing
=============================================================================
