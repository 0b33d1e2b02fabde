------------------------ MODULE EvidencePipelineProofs ------------------------
(***************************************************************************)
(* Theorems about the evidence pipeline for any number of items, workers,  *)
(* retries and crashes.                                                    *)
(***************************************************************************)
EXTENDS EvidencePipelineProps, Inductions

\* The task a step belongs to; both kinds of dispatching task end the same way.
StepOfTask ==
    \A w \in Workers :
        /\ At(w, "screen") => job[w].msg.task = "assess"
        /\ job[w].step \in {"walk", "compare", "decide"} => job[w].msg.task = "acquire"
        /\ job[w].step \in {"segment", "ask", "save"} => job[w].msg.task = "extract"
        /\ At(w, "dispatch") => job[w].msg.task \in {"assess", "acquire"}

TypeInv == TypeOK /\ StepOfTask

LEMMA InitTypeInv == Init => TypeInv
<1> SUFFICES ASSUME Init PROVE TypeInv
  OBVIOUS
<1> USE PipelineAssumption DEF Init
<1>1. TypeOK
  BY DEF TypeOK, Decisions, Contents, Idle
<1>2. StepOfTask
  BY DEF StepOfTask, At, Idle
<1> QED
  BY <1>1, <1>2 DEF TypeInv

\* A busy worker's delivery, and the item it is about.
LEMMA BusyWorker ==
    ASSUME TypeInv, NEW w \in Workers, job[w] # Idle
    PROVE  /\ job[w] \in Job
           /\ job[w].msg \in Message
           /\ ItemOf(w) \in Items
           /\ job[w].step \in Steps
  BY DEF TypeInv, TypeOK, Job, Message, ItemOf

LEMMA AtStepBusy ==
    ASSUME TypeInv, NEW w \in Workers, NEW s \in Steps, At(w, s)
    PROVE  job[w] # Idle
  BY DEF At, Idle, Steps

\* Moving on: the delivery stays, the step changes, other workers are as they were.
LEMMA Moved ==
    ASSUME TypeInv, NEW w \in Workers, job[w] # Idle, NEW s \in Steps, Goto(w, s)
    PROVE  /\ job' \in [Workers -> Job \union {Idle}]
           /\ job'[w] = [msg |-> job[w].msg, step |-> s]
           /\ job'[w] # Idle
           /\ \A v \in Workers \ {w} : job'[v] = job[v]
<1>1. job[w] \in Job /\ job[w].msg \in Message
  BY BusyWorker
<1>2. [job[w] EXCEPT !.step = s] = [msg |-> job[w].msg, step |-> s]
  BY <1>1 DEF Job
<1>3. [msg |-> job[w].msg, step |-> s] \in Job
  BY <1>1 DEF Job
<1>4. s # "idle"
  BY DEF Steps
<1>5. job' = [job EXCEPT ![w] = [msg |-> job[w].msg, step |-> s]]
  BY <1>2 DEF Goto
<1>6. [msg |-> job[w].msg, step |-> s] # Idle
  BY <1>4 DEF Idle
<1>7. job \in [Workers -> Job \union {Idle}]
  BY DEF TypeInv, TypeOK
<1> HIDE DEF Idle
<1> QED
  BY <1>3, <1>5, <1>6, <1>7

LEMMA FirstStepType ==
    ASSUME TypeInv, NEW m \in Message
    PROVE  /\ FirstStep(m) \in Steps
           /\ FirstStep(m) = "screen" => m.task = "assess"
           /\ FirstStep(m) \in {"walk", "compare", "decide"} => m.task = "acquire"
           /\ FirstStep(m) \in {"segment", "ask", "save"} => m.task = "extract"
           /\ FirstStep(m) = "dispatch" => m.task \in {"assess", "acquire"}
<1>1. m.task \in Tasks
  BY DEF Message
<1>2. CASE m.task = "assess"
  BY <1>2 DEF FirstStep, AfterScreening, Steps
<1>3. CASE m.task = "acquire"
  BY <1>3 DEF FirstStep, Steps
<1>4. CASE m.task = "extract"
  BY <1>4 DEF FirstStep, Steps
<1> QED
  BY <1>1, <1>2, <1>3, <1>4 DEF Tasks

\* Steps that only move one worker on keep StepOfTask.
Fits(s, t) ==
    /\ s = "screen" => t = "assess"
    /\ s \in {"walk", "compare", "decide"} => t = "acquire"
    /\ s \in {"segment", "ask", "save"} => t = "extract"
    /\ s = "dispatch" => t \in {"assess", "acquire"}

LEMMA MovedFits ==
    ASSUME TypeInv, NEW w \in Workers, job[w] # Idle, NEW s \in Steps, Goto(w, s),
           Fits(s, job[w].msg.task)
    PROVE  StepOfTask' /\ job' \in [Workers -> Job \union {Idle}]
<1>1. /\ job' \in [Workers -> Job \union {Idle}]
      /\ job'[w] = [msg |-> job[w].msg, step |-> s]
      /\ \A v \in Workers \ {w} : job'[v] = job[v]
  BY Moved
<1>2. SUFFICES ASSUME NEW v \in Workers
      PROVE  Fits(job'[v].step, job'[v].msg.task)
  BY <1>1 DEF StepOfTask, Fits, At
<1>3. CASE v = w
  BY <1>1, <1>3
<1>4. CASE v # w
  BY <1>1, <1>4 DEF TypeInv, StepOfTask, Fits, At
<1> QED
  BY <1>3, <1>4

LEMMA SendType ==
    ASSUME TypeInv, NEW m \in Message, Send(m)
    PROVE  queue' \in [Message -> Nat]
  BY DEF TypeInv, TypeOK, Send

LEMMA MsgType ==
    ASSUME NEW t \in Tasks, NEW i \in Items
    PROVE  Msg(t, i) \in Message
  BY PipelineAssumption DEF Msg, Message

\* A worker back at rest.
LEMMA RestType ==
    ASSUME TypeInv, NEW w \in Workers, job' = [job EXCEPT ![w] = Idle]
    PROVE  StepOfTask' /\ job' \in [Workers -> Job \union {Idle}]
<1>1. job' \in [Workers -> Job \union {Idle}]
  BY DEF TypeInv, TypeOK
<1>2. SUFFICES ASSUME NEW v \in Workers
      PROVE  Fits(job'[v].step, job'[v].msg.task)
  BY <1>1 DEF StepOfTask, Fits, At
<1>3. CASE v = w
  <2>1. job'[v] = Idle
    BY <1>3 DEF TypeInv, TypeOK
  <2> QED
    BY <2>1 DEF Idle, Fits
<1>4. CASE v # w
  <2>1. job'[v] = job[v]
    BY <1>4 DEF TypeInv, TypeOK
  <2> QED
    BY <2>1 DEF TypeInv, StepOfTask, Fits, At
<1> QED
  BY <1>1, <1>3, <1>4

\* A comparison confirms items that have a transcript, and no other.
LEMMA ConfirmedHasText ==
    ASSUME NEW i, NEW match \in Confirmed(i)
    PROVE  match \subseteq transcripts
  BY DEF Confirmed

LEMMA LoadedAsItIs ==
    ASSUME ScanLoad, NEW row \in scan'
    PROVE  /\ row \in [item : Present, text : BOOLEAN]
           /\ row.text => row.item \in transcripts
<1>1. PICK i \in Present \ duplicates : row = [item |-> i, text |-> i \in transcripts]
  BY Zenon DEF ScanLoad
<1>2. \/ i \in transcripts /\ row = [item |-> i, text |-> TRUE]
      \/ row = [item |-> i, text |-> FALSE]
  <2>1. CASE i \in transcripts
    <3>1. (i \in transcripts) = TRUE
      BY <2>1
    <3> QED
      BY <1>1, <2>1, <3>1, Zenon
  <2>2. CASE i \notin transcripts
    <3>1. (i \in transcripts) = FALSE
      BY <2>2
    <3> QED
      BY <1>1, <3>1, Zenon
  <2> QED
    BY <2>1, <2>2
<1>3. CASE i \in transcripts /\ row = [item |-> i, text |-> TRUE]
  <2>1. row \in [item : Present, text : BOOLEAN]
    BY <1>3
  <2>2. row.item = i
    BY <1>3
  <2> QED
    BY <1>3, <2>1, <2>2, Zenon
<1>4. CASE row = [item |-> i, text |-> FALSE]
  <2>1. row \in [item : Present, text : BOOLEAN]
    BY <1>4
  <2>2. ~ row.text
    BY <1>4, Zenon
  <2> QED
    BY <2>1, <2>2, Zenon
<1> QED
  BY <1>2, <1>3, <1>4, Zenon

LEMMA WorkType ==
    ASSUME TypeInv, NEW w \in Workers, Work(w)
    PROVE  TypeInv'
<1> USE DEF TypeInv, TypeOK, command
<1>1. ASSUME NEW v \in Verdicts, Judge(w, v) PROVE TypeInv'
  <2>1. job[w] # Idle /\ ItemOf(w) \in Items /\ job[w].msg.task = "assess"
    BY <1>1, AtStepBusy, BusyWorker DEF Judge, Steps, StepOfTask
  <2>2. AfterScreening(v) \in Steps /\ Fits(AfterScreening(v), "assess")
    BY DEF AfterScreening, Steps, Fits
  <2>3. StepOfTask' /\ job' \in [Workers -> Job \union {Idle}]
    BY <1>1, <2>1, <2>2, MovedFits DEF Judge
  <2>4. decision' \in [Items -> Decisions \union {"absent"}] /\ passed' \subseteq Items
    BY <1>1, <2>1 DEF Judge, Verdicts
  <2> QED
    BY <1>1, <2>3, <2>4 DEF Judge
<1>2. CASE CannotJudge(w)
  <2>1. job[w] # Idle
    BY <1>2, AtStepBusy DEF CannotJudge, Steps
  <2>2. StepOfTask' /\ job' \in [Workers -> Job \union {Idle}]
    BY <1>2, <2>1, MovedFits DEF CannotJudge, Steps, Fits
  <2> QED
    BY <1>2, <2>2 DEF CannotJudge, rows, history
<1>3. CASE DispatchNext(w)
  <2>1. job[w] # Idle /\ ItemOf(w) \in Items
    BY <1>3, AtStepBusy, BusyWorker DEF DispatchNext, Steps
  <2>2. StepOfTask' /\ job' \in [Workers -> Job \union {Idle}]
    BY <1>3, <2>1, MovedFits DEF DispatchNext, Steps, Fits
  <2>3. queue' \in [Message -> Nat]
    BY <1>3, <2>1, MsgType, SendType DEF DispatchNext, Tasks
  <2> QED
    BY <1>3, <2>2, <2>3 DEF DispatchNext, rows, history
<1>4. CASE Transcribe(w)
  <2>1. job[w] # Idle /\ ItemOf(w) \in Items /\ job[w].msg.task = "acquire"
    BY <1>4, AtStepBusy, BusyWorker DEF Transcribe, Steps, StepOfTask, At
  <2>2. Fits("done", "acquire") /\ Fits("compare", "acquire")
    BY DEF Fits
  <2>3. StepOfTask' /\ job' \in [Workers -> Job \union {Idle}]
    BY <1>4, <2>1, <2>2, MovedFits DEF Transcribe, Steps
  <2>4. content' \in [Items -> Contents] /\ transcripts' \subseteq Items
    BY <1>4, <2>1 DEF Transcribe, Contents
  <2> QED
    BY <1>4, <2>3, <2>4 DEF Transcribe, history
<1>5. CASE WriteOff(w)
  <2>1. job[w] # Idle /\ ItemOf(w) \in Items
    BY <1>5, AtStepBusy, BusyWorker DEF WriteOff, Steps
  <2>2. StepOfTask' /\ job' \in [Workers -> Job \union {Idle}]
    BY <1>5, <2>1, MovedFits DEF WriteOff, Steps, Fits
  <2>3. content' \in [Items -> Contents]
    BY <1>5, <2>1 DEF WriteOff, Contents
  <2> QED
    BY <1>5, <2>2, <2>3 DEF WriteOff, history
<1>6. CASE Broken(w)
  <2>1. job[w] # Idle /\ job[w].msg \in Message /\ ItemOf(w) \in Items
    BY <1>6, AtStepBusy, BusyWorker DEF Broken, Steps
  <2>2. StepOfTask' /\ job' \in [Workers -> Job \union {Idle}]
    BY <1>6, <2>1, MovedFits DEF Broken, Steps, Fits
  <2>3. job[w].msg.tries < MaxRetries
          => [job[w].msg EXCEPT !.tries = @ + 1] \in Message
    BY <2>1, PipelineAssumption DEF Message
  <2>4. queue' \in [Message -> Nat] /\ gaveUp' \subseteq Items
    BY <1>6, <2>1, <2>3, SendType DEF Broken
  <2> QED
    BY <1>6, <2>2, <2>4 DEF Broken, rows
<1>7. CASE Compare(w)
  <2>1. job[w] # Idle /\ ItemOf(w) \in Items /\ job[w].msg.task = "acquire"
    BY <1>7, AtStepBusy, BusyWorker DEF Compare, Steps, StepOfTask, At
  <2>2. Fits("decide", "acquire")
    BY DEF Fits
  <2>3. StepOfTask' /\ job' \in [Workers -> Job \union {Idle}]
    BY <1>7, <2>1, <2>2, MovedFits DEF Compare, Steps
  <2>4. duplicates' \subseteq Items
    BY <1>7, ConfirmedHasText DEF Compare
  <2> QED
    BY <1>7, <2>3, <2>4 DEF Compare, history
<1>8. CASE BuildSegments(w)
  <2>1. job[w] # Idle /\ ItemOf(w) \in Items /\ job[w].msg.task = "extract"
    BY <1>8, AtStepBusy, BusyWorker DEF BuildSegments, Steps, StepOfTask, At
  <2>2. Fits("done", "extract") /\ Fits("ask", "extract")
    BY DEF Fits
  <2>3. StepOfTask' /\ job' \in [Workers -> Job \union {Idle}]
    BY <1>8, <2>1, <2>2, MovedFits DEF BuildSegments, Steps
  <2> QED
    BY <1>8, <2>1, <2>3 DEF BuildSegments, history
<1>9. ASSUME NEW outcome \in Outcomes, Ask(w, outcome) PROVE TypeInv'
  <2>1. job[w] # Idle /\ ItemOf(w) \in Items /\ job[w].msg.task = "extract"
    BY <1>9, AtStepBusy, BusyWorker DEF Ask, Steps, StepOfTask, At
  <2>2. Fits("done", "extract") /\ Fits("save", "extract")
    BY DEF Fits
  <2>3. StepOfTask' /\ job' \in [Workers -> Job \union {Idle}]
    BY <1>9, <2>1, <2>2, MovedFits DEF Ask, Steps
  <2>4. runs' \in [Items -> SUBSET Outcomes]
    BY <1>9, <2>1 DEF Ask
  <2> QED
    BY <1>9, <2>3, <2>4 DEF Ask, history
<1>10. ASSUME NEW someClaims \in BOOLEAN, Save(w, someClaims) PROVE TypeInv'
  <2>1. job[w] # Idle /\ ItemOf(w) \in Items
    BY <1>10, AtStepBusy, BusyWorker DEF Save, Steps
  <2>2. StepOfTask' /\ job' \in [Workers -> Job \union {Idle}]
    BY <1>10, <2>1, MovedFits DEF Save, Steps, Fits
  <2>3. claims' \in [Items -> 0 .. 2]
    BY <1>10, <2>1 DEF Save
  <2> QED
    BY <1>10, <2>2, <2>3 DEF Save, history
<1>11. CASE Ack(w)
  <2>1. StepOfTask' /\ job' \in [Workers -> Job \union {Idle}]
    BY <1>11, RestType DEF Ack
  <2> QED
    BY <1>11, <2>1 DEF Ack, rows, history
<1>12. CASE Decide(w)
  <2>1. job[w] # Idle /\ job[w].msg.task = "acquire"
    BY <1>12, AtStepBusy DEF Decide, Steps, StepOfTask, At
  <2>2. Fits("done", "acquire") /\ Fits("dispatch", "acquire")
    BY DEF Fits
  <2>3. StepOfTask' /\ job' \in [Workers -> Job \union {Idle}]
    BY <1>12, <2>1, <2>2, MovedFits DEF Decide, Steps
  <2> QED
    BY <1>12, <2>3 DEF Decide, rows, history
<1> QED
  BY <1>1, <1>2, <1>3, <1>4, <1>5, <1>6, <1>7, <1>8, <1>9, <1>10, <1>11, <1>12 DEF Work

LEMMA NextTypeInv == TypeInv /\ [Next]_vars => TypeInv'
<1> SUFFICES ASSUME TypeInv, [Next]_vars PROVE TypeInv'
  OBVIOUS
<1> USE DEF TypeInv, TypeOK, command
<1>1. ASSUME NEW i \in Items, NEW hasText \in BOOLEAN, NEW dispatched \in BOOLEAN,
             Discover(i, hasText, dispatched)
      PROVE  TypeInv'
  <2>1. queue' \in [Message -> Nat]
    BY <1>1, MsgType, SendType DEF Discover, Tasks
  <2>2. /\ decision' \in [Items -> Decisions \union {"absent"}]
        /\ content' \in [Items -> Contents]
        /\ transcripts' \subseteq Items
    BY <1>1 DEF Discover, Decisions, Contents
  <2> QED
    BY <1>1, <2>1, <2>2 DEF Discover, history, StepOfTask, At
<1>2. ASSUME NEW w \in Workers, NEW m \in Message, Take(w, m) PROVE TypeInv'
  <2>1. queue' \in [Message -> Nat]
    BY <1>2 DEF Take
  <2> DEFINE j == [msg |-> m, step |-> FirstStep(m)]
  <2>2. j \in Job /\ Fits(j.step, j.msg.task)
    BY FirstStepType DEF Job, Fits
  <2>3. job' = [job EXCEPT ![w] = j]
    BY <1>2 DEF Take
  <2> HIDE DEF j
  <2>4. job' \in [Workers -> Job \union {Idle}]
    BY <2>2, <2>3
  <2>5. ASSUME NEW v \in Workers PROVE Fits(job'[v].step, job'[v].msg.task)
    <3>1. CASE v = w
      BY <2>2, <2>3, <3>1
    <3>2. CASE v # w
      BY <2>3, <3>2 DEF StepOfTask, Fits, At
    <3> QED
      BY <3>1, <3>2
  <2>6. StepOfTask'
    BY <2>5 DEF StepOfTask, Fits, At
  <2> QED
    BY <1>2, <2>1, <2>4, <2>6 DEF Take, rows, history
<1>3. ASSUME NEW w \in Workers, Work(w) PROVE TypeInv'
  BY <1>3, WorkType
<1>4. ASSUME NEW w \in Workers, Crash(w) PROVE TypeInv'
  <2>1. StepOfTask' /\ job' \in [Workers -> Job \union {Idle}]
    BY <1>4, RestType DEF Crash
  <2>2. queue' \in [Message -> Nat]
    BY <1>4, BusyWorker, SendType DEF Crash
  <2>3. crashes' \in 0 .. MaxCrashes
    BY <1>4, PipelineAssumption DEF Crash
  <2> QED
    BY <1>4, <2>1, <2>2, <2>3 DEF Crash, rows, history
<1>5. CASE Sweep
  <2>1. queue' \in [Message -> Nat]
    BY <1>5 DEF Sweep
  <2> QED
    BY <1>5, <2>1 DEF Sweep, rows, history, StepOfTask, At
<1>6. ASSUME NEW i \in Items, RetryAnalysis(i) PROVE TypeInv'
  <2>1. queue' \in [Message -> Nat]
    BY <1>6, MsgType, SendType DEF RetryAnalysis, Tasks
  <2> QED
    BY <1>6, <2>1 DEF RetryAnalysis, rows, history, StepOfTask, At
<1>7. CASE UNCHANGED vars
  BY <1>7 DEF vars, rows, history, StepOfTask, At
<1>8. CASE ScanLoad
  <2>1. scan' \subseteq LoadedRow
    BY <1>8, LoadedAsItIs DEF ScanLoad, Present, LoadedRow
  <2>2. scans' \in 0 .. MaxScans
    BY <1>8, PipelineAssumption DEF ScanLoad
  <2> QED
    BY <1>8, <2>1, <2>2 DEF ScanLoad, rows, history, StepOfTask, At
<1>9. ASSUME NEW row \in scan, ScanCheck(row) PROVE TypeInv'
  <2>1. duplicates' \subseteq Items /\ released' \subseteq Items
    BY <1>9, ConfirmedHasText DEF ScanCheck, CheckLoaded
  <2> QED
    BY <1>9, <2>1 DEF ScanCheck, history, StepOfTask, At
<1> QED
  BY <1>1, <1>2, <1>3, <1>4, <1>5, <1>6, <1>7, <1>8, <1>9 DEF Next

(***************************************************************************)
(* The pipeline never leaves its types: every delivery is of a task, an    *)
(* item and a retry number the code can send, and every worker runs one.   *)
(***************************************************************************)
THEOREM PipelineTypeCorrect == Spec => []TypeOK
<1>1. TypeInv => TypeOK
  BY DEF TypeInv
<1> QED
  BY <1>1, InitTypeInv, NextTypeInv, PTL DEF Spec

(***************************************************************************)
(* Spending.  Whoever is beyond the gate was let through by it: the row,   *)
(* every delivery of the later tasks, and every worker that runs one or is *)
(* about to send one.  The set of items let through only grows.            *)
(***************************************************************************)
BeyondGate(w) == job[w].msg.task # "assess" \/ job[w].step = "dispatch"

RowsSpend == \A i \in Items : NeedsTranscript(decision[i]) \/ runs[i] # {} => i \in passed
QueueSpends == \A m \in Message : m.task # "assess" /\ queue[m] > 0 => m.item \in passed
WorkersSpend == \A w \in Workers : job[w] # Idle /\ BeyondGate(w) => ItemOf(w) \in passed
SpendInv == RowsSpend /\ QueueSpends /\ WorkersSpend

LEMMA InitSpendInv == Init => SpendInv
<1> SUFFICES ASSUME Init PROVE SpendInv
  OBVIOUS
<1> USE DEF Init
<1>1. RowsSpend
  BY DEF RowsSpend, NeedsTranscript
<1>2. QueueSpends
  BY DEF QueueSpends
<1>3. WorkersSpend
  BY DEF WorkersSpend
<1> QED
  BY <1>1, <1>2, <1>3 DEF SpendInv

LEMMA SpendSent ==
    ASSUME TypeInv, QueueSpends, NEW m \in Message, Send(m), passed \subseteq passed',
           m.task # "assess" => m.item \in passed'
    PROVE  QueueSpends'
<1>1. \A n \in Message : n # m => queue'[n] = queue[n]
  BY DEF TypeInv, TypeOK, Send
<1> QED
  BY <1>1 DEF QueueSpends

LEMMA SpendMoved ==
    ASSUME TypeInv, WorkersSpend, NEW w \in Workers, job[w] # Idle,
           NEW s \in Steps, Goto(w, s), passed \subseteq passed',
           s = "dispatch" => ItemOf(w) \in passed'
    PROVE  WorkersSpend'
<1>1. /\ job'[w] = [msg |-> job[w].msg, step |-> s]
      /\ \A v \in Workers \ {w} : job'[v] = job[v]
  BY Moved
<1>2. SUFFICES ASSUME NEW v \in Workers, job'[v] # Idle, BeyondGate(v)'
      PROVE  ItemOf(v)' \in passed'
  BY DEF WorkersSpend
<1>3. CASE v = w
  BY <1>1, <1>2, <1>3 DEF WorkersSpend, BeyondGate, ItemOf
<1>4. CASE v # w
  BY <1>1, <1>2, <1>4 DEF WorkersSpend, BeyondGate, ItemOf
<1> QED
  BY <1>3, <1>4

LEMMA SpendRested ==
    ASSUME TypeInv, WorkersSpend, NEW w \in Workers, job' = [job EXCEPT ![w] = Idle],
           passed' = passed
    PROVE  WorkersSpend'
<1>1. job'[w] = Idle /\ \A v \in Workers \ {w} : job'[v] = job[v]
  BY DEF TypeInv, TypeOK
<1>2. SUFFICES ASSUME NEW v \in Workers, job'[v] # Idle, BeyondGate(v)'
      PROVE  ItemOf(v)' \in passed'
  BY DEF WorkersSpend
<1> QED
  BY <1>1, <1>2 DEF WorkersSpend, BeyondGate, ItemOf

LEMMA WorkSpends ==
    ASSUME TypeInv, SpendInv, NEW w \in Workers, Work(w)
    PROVE  SpendInv'
<1> USE DEF SpendInv
<1> USE DEF history, rows
<1>0. job[w] # Idle => ItemOf(w) \in Items /\ job[w].msg \in Message
  BY BusyWorker
<1>1. ASSUME NEW v \in Verdicts, Judge(w, v) PROVE SpendInv'
  <2>1. job[w] # Idle
    BY <1>1, AtStepBusy DEF Judge, Steps
  <2>2. AfterScreening(v) \in Steps /\ passed \subseteq passed'
        /\ (AfterScreening(v) = "dispatch" => ItemOf(w) \in passed')
    BY <1>1 DEF AfterScreening, Steps, Judge
  <2>3. WorkersSpend'
    BY <1>1, <2>1, <2>2, SpendMoved DEF Judge
  <2>4. RowsSpend'
    BY <1>1, <2>2 DEF Judge, RowsSpend, TypeInv, TypeOK
  <2>5. QueueSpends'
    BY <1>1, <2>2 DEF Judge, QueueSpends
  <2> QED
    BY <2>3, <2>4, <2>5
<1>2. CASE CannotJudge(w)
  <2>1. WorkersSpend'
    BY <1>2, AtStepBusy, SpendMoved DEF CannotJudge, Steps
  <2> QED
    BY <1>2, <2>1 DEF CannotJudge, RowsSpend, QueueSpends
<1>3. CASE DispatchNext(w)
  <2>1. job[w] # Idle
    BY <1>3, AtStepBusy DEF DispatchNext, Steps
  <2>2. ItemOf(w) \in passed
    BY <1>3, <2>1 DEF DispatchNext, WorkersSpend, BeyondGate, At
  <2>3. WorkersSpend'
    BY <1>3, <2>1, SpendMoved DEF DispatchNext, Steps
  <2> DEFINE n == Msg(IF job[w].msg.task = "assess" THEN "acquire" ELSE "extract", ItemOf(w))
  <2>4. n \in Message /\ n.item = ItemOf(w)
    BY <1>0, <2>1, MsgType DEF Tasks, Msg
  <2>5. Send(n) /\ passed' = passed
    BY <1>3 DEF DispatchNext
  <2> HIDE DEF n
  <2>6. QueueSpends'
    BY <2>2, <2>4, <2>5, SpendSent
  <2> QED
    BY <1>3, <2>3, <2>6 DEF DispatchNext, RowsSpend
<1>4. CASE Transcribe(w)
  <2>1. WorkersSpend'
    BY <1>4, AtStepBusy, SpendMoved DEF Transcribe, Steps
  <2> QED
    BY <1>4, <2>1 DEF Transcribe, RowsSpend, QueueSpends
<1>5. CASE WriteOff(w)
  <2>1. WorkersSpend'
    BY <1>5, AtStepBusy, SpendMoved DEF WriteOff, Steps
  <2> QED
    BY <1>5, <2>1 DEF WriteOff, RowsSpend, QueueSpends
<1>6. CASE Broken(w)
  <2>1. job[w] # Idle /\ job[w].msg.task = "acquire" /\ passed' = passed
    BY <1>6, AtStepBusy DEF Broken, Steps, TypeInv, StepOfTask, At
  <2>2. WorkersSpend'
    BY <1>6, <2>1, SpendMoved DEF Broken, Steps
  <2>3. CASE job[w].msg.tries < MaxRetries
    <3> DEFINE n == [job[w].msg EXCEPT !.tries = @ + 1]
    <3>1. n \in Message /\ n.item = ItemOf(w)
      BY <1>0, <2>1, <2>3, PipelineAssumption DEF Message, ItemOf
    <3>2. ItemOf(w) \in passed
      BY <2>1 DEF WorkersSpend, BeyondGate
    <3>3. Send(n)
      BY <1>6, <2>3 DEF Broken
    <3> HIDE DEF n
    <3>4. QueueSpends'
      BY <2>1, <3>1, <3>2, <3>3, SpendSent
    <3> QED
      BY <1>6, <2>2, <3>4 DEF Broken, RowsSpend
  <2>4. CASE ~(job[w].msg.tries < MaxRetries)
    BY <1>6, <2>2, <2>4 DEF Broken, RowsSpend, QueueSpends
  <2> QED
    BY <2>3, <2>4
<1>7. CASE Compare(w)
  <2>1. job[w] # Idle /\ job[w].msg.task = "acquire"
    BY <1>7, AtStepBusy DEF Compare, Steps, TypeInv, StepOfTask, At
  <2>2. ItemOf(w) \in passed
    BY <2>1 DEF WorkersSpend, BeyondGate
  <2>3. WorkersSpend'
    BY <1>7, <2>1, <2>2, SpendMoved DEF Compare, Steps
  <2> QED
    BY <1>7, <2>3 DEF Compare, RowsSpend, QueueSpends
<1>8. CASE BuildSegments(w)
  <2>1. WorkersSpend'
    BY <1>8, AtStepBusy, SpendMoved DEF BuildSegments, Steps
  <2> QED
    BY <1>8, <2>1 DEF BuildSegments, RowsSpend, QueueSpends
<1>9. ASSUME NEW outcome \in Outcomes, Ask(w, outcome) PROVE SpendInv'
  <2>1. job[w] # Idle /\ job[w].msg.task = "extract"
    BY <1>9, AtStepBusy DEF Ask, Steps, TypeInv, StepOfTask, At
  <2>2. ItemOf(w) \in passed
    BY <2>1 DEF WorkersSpend, BeyondGate
  <2>3. WorkersSpend'
    BY <1>9, <2>1, SpendMoved DEF Ask, Steps
  <2>4. RowsSpend'
    BY <1>9, <2>2 DEF Ask, RowsSpend, TypeInv, TypeOK
  <2> QED
    BY <1>9, <2>3, <2>4 DEF Ask, QueueSpends
<1>10. ASSUME NEW someClaims \in BOOLEAN, Save(w, someClaims) PROVE SpendInv'
  <2>1. WorkersSpend'
    BY <1>10, AtStepBusy, SpendMoved DEF Save, Steps
  <2> QED
    BY <1>10, <2>1 DEF Save, RowsSpend, QueueSpends
<1>11. CASE Ack(w)
  <2>1. WorkersSpend'
    BY <1>11, SpendRested DEF Ack
  <2> QED
    BY <1>11, <2>1 DEF Ack, RowsSpend, QueueSpends
<1>12. CASE Decide(w)
  <2>1. job[w] # Idle /\ job[w].msg.task = "acquire"
    BY <1>12, AtStepBusy DEF Decide, Steps, TypeInv, StepOfTask, At
  <2>2. ItemOf(w) \in passed
    BY <2>1 DEF WorkersSpend, BeyondGate
  <2>3. WorkersSpend'
    BY <1>12, <2>1, <2>2, SpendMoved DEF Decide, Steps
  <2> QED
    BY <1>12, <2>3 DEF Decide, RowsSpend, QueueSpends
<1> QED
  BY <1>1, <1>2, <1>3, <1>4, <1>5, <1>6, <1>7, <1>8, <1>9, <1>10, <1>11, <1>12 DEF Work

LEMMA NextSpendInv == TypeInv /\ SpendInv /\ [Next]_vars => SpendInv'
<1> SUFFICES ASSUME TypeInv, SpendInv, [Next]_vars PROVE SpendInv'
  OBVIOUS
<1> USE DEF SpendInv, history, rows
<1>1. ASSUME NEW i \in Items, NEW hasText \in BOOLEAN, NEW dispatched \in BOOLEAN,
             Discover(i, hasText, dispatched)
      PROVE  SpendInv'
  <2>1. RowsSpend'
    BY <1>1 DEF Discover, RowsSpend, NeedsTranscript, TypeInv, TypeOK
  <2>2. Msg("assess", i) \in Message /\ Msg("assess", i).task = "assess"
    BY MsgType DEF Tasks, Msg
  <2>3. QueueSpends'
    <3>1. CASE dispatched
      BY <1>1, <2>2, <3>1, SpendSent DEF Discover
    <3>2. CASE ~dispatched
      BY <1>1, <3>2 DEF Discover, QueueSpends
    <3> QED
      BY <3>1, <3>2
  <2> QED
    BY <1>1, <2>1, <2>3 DEF Discover, WorkersSpend, BeyondGate, ItemOf
<1>2. ASSUME NEW w \in Workers, NEW m \in Message, Take(w, m) PROVE SpendInv'
  <2>1. QueueSpends'
    BY <1>2 DEF Take, QueueSpends, TypeInv, TypeOK
  <2>2. m.item \in Items /\ m.task \in Tasks
    BY DEF Message
  <2>3. FirstStep(m) = "dispatch" => m.item \in passed
    <3>1. FirstStep(m) = "dispatch" => m.task = "assess" /\ NeedsTranscript(decision[m.item])
      BY <2>2 DEF FirstStep, AfterScreening, Tasks
    <3> QED
      BY <2>2, <3>1 DEF RowsSpend
  <2>4. m.task # "assess" => m.item \in passed
    BY <1>2 DEF Take, QueueSpends
  <2>5. /\ job'[w] = [msg |-> m, step |-> FirstStep(m)]
        /\ \A v \in Workers \ {w} : job'[v] = job[v]
    BY <1>2 DEF Take, TypeInv, TypeOK
  <2>6. ASSUME NEW v \in Workers, job'[v] # Idle, BeyondGate(v)'
        PROVE  ItemOf(v)' \in passed
    <3>1. CASE v = w
      BY <2>3, <2>4, <2>5, <2>6, <3>1 DEF BeyondGate, ItemOf
    <3>2. CASE v # w
      BY <2>5, <2>6, <3>2 DEF WorkersSpend, BeyondGate, ItemOf
    <3> QED
      BY <3>1, <3>2
  <2>7. WorkersSpend'
    BY <1>2, <2>6 DEF WorkersSpend, Take
  <2> QED
    BY <1>2, <2>1, <2>7 DEF Take, RowsSpend
<1>3. ASSUME NEW w \in Workers, Work(w) PROVE SpendInv'
  BY <1>3, WorkSpends
<1>4. ASSUME NEW w \in Workers, Crash(w) PROVE SpendInv'
  <2>1. job[w].msg \in Message /\ passed' = passed
    BY <1>4, BusyWorker DEF Crash
  <2>2. job[w].msg.task # "assess" => job[w].msg.item \in passed
    BY <1>4 DEF Crash, WorkersSpend, BeyondGate, ItemOf
  <2>3. QueueSpends'
    BY <1>4, <2>1, <2>2, SpendSent DEF Crash
  <2>4. WorkersSpend'
    BY <1>4, <2>1, SpendRested DEF Crash
  <2> QED
    BY <1>4, <2>3, <2>4 DEF Crash, RowsSpend
<1>5. CASE Sweep
  <2>1. ASSUME NEW m \in Message, m.task # "assess" PROVE queue'[m] = queue[m]
    BY <1>5, <2>1 DEF Sweep, Msg
  <2>2. QueueSpends'
    BY <1>5, <2>1 DEF Sweep, QueueSpends
  <2> QED
    BY <1>5, <2>2 DEF Sweep, RowsSpend, WorkersSpend, BeyondGate, ItemOf
<1>6. ASSUME NEW i \in Items, RetryAnalysis(i) PROVE SpendInv'
  <2>1. Msg("extract", i) \in Message /\ Msg("extract", i).item = i
    BY MsgType DEF Tasks, Msg
  <2>2. i \in passed /\ passed' = passed
    BY <1>6 DEF RetryAnalysis, Unanalysed, RowsSpend
  <2>3. QueueSpends'
    BY <1>6, <2>1, <2>2, SpendSent DEF RetryAnalysis
  <2> QED
    BY <1>6, <2>3 DEF RetryAnalysis, RowsSpend, WorkersSpend, BeyondGate, ItemOf
<1>7. CASE UNCHANGED vars
  BY <1>7 DEF vars, RowsSpend, QueueSpends, WorkersSpend, BeyondGate, ItemOf
<1>8. CASE ScanLoad
  BY <1>8 DEF ScanLoad, RowsSpend, QueueSpends, WorkersSpend, BeyondGate, ItemOf
<1>9. ASSUME NEW row \in scan, ScanCheck(row) PROVE SpendInv'
  BY <1>9 DEF ScanCheck, RowsSpend, QueueSpends, WorkersSpend, BeyondGate, ItemOf
<1> QED
  BY <1>1, <1>2, <1>3, <1>4, <1>5, <1>6, <1>7, <1>8, <1>9 DEF Next

(***************************************************************************)
(* No ladder is walked and no extraction asked for on behalf of an item    *)
(* the gate never let through: assess_relevance's test of needs_transcript *)
(* and the filter behind RetryAnalysisView are enough, however deliveries  *)
(* are repeated and workers lost.                                          *)
(***************************************************************************)
THEOREM SpendingFollowsTheGate == Spec => []SpendsOnlyOnPassed
<1>1. TypeInv /\ SpendInv => SpendsOnlyOnPassed
  BY DEF SpendInv, RowsSpend, QueueSpends, WorkersSpend, BeyondGate, SpendsOnlyOnPassed
<1> QED
  BY <1>1, InitTypeInv, NextTypeInv, InitSpendInv, NextSpendInv, PTL DEF Spec

(***************************************************************************)
(* Nothing is lost.  First, what the tasks may rely on: content, once      *)
(* decided, stays decided; an extraction is sent only after that; and      *)
(* claims are written only after the run that found them.                  *)
(***************************************************************************)
HasText(w) ==
    \/ job[w].msg.task = "extract"
    \/ job[w].step \in {"compare", "decide"}
    \/ job[w].step = "dispatch" /\ job[w].msg.task = "acquire"

RowsText == \A i \in transcripts : content[i] # "metadata"
QueueText ==
    \A m \in Message : m.task = "extract" /\ queue[m] > 0 => content[m.item] # "metadata"
WorkersText ==
    \A w \in Workers : job[w] # Idle /\ HasText(w) => content[ItemOf(w)] # "metadata"
TextInv == RowsText /\ QueueText /\ WorkersText

ClaimsFollowRuns == \A i \in Items : claims[i] > 0 => runs[i] # {}
SavesFollowRuns == \A w \in Workers : At(w, "save") => runs[ItemOf(w)] # {}
RunInv == ClaimsFollowRuns /\ SavesFollowRuns

ContentStaysDecided ==
    \A i \in Items : content[i] # "metadata" => content'[i] # "metadata"
RunsStay == \A i \in Items : runs[i] # {} => runs'[i] # {}

LEMMA TextSent ==
    ASSUME TypeInv, QueueText, NEW m \in Message, Send(m), ContentStaysDecided,
           m.task = "extract" => content'[m.item] # "metadata"
    PROVE  QueueText'
<1>1. \A n \in Message : n # m => queue'[n] = queue[n]
  BY DEF TypeInv, TypeOK, Send
<1>2. \A n \in Message : n.item \in Items
  BY DEF Message
<1> QED
  BY <1>1, <1>2 DEF QueueText, ContentStaysDecided

LEMMA TextMoved ==
    ASSUME TypeInv, WorkersText, NEW w \in Workers, job[w] # Idle,
           NEW s \in Steps, Goto(w, s), ContentStaysDecided,
           s \in {"compare", "decide"} \/ (s = "dispatch" /\ job[w].msg.task = "acquire")
             => content'[ItemOf(w)] # "metadata"
    PROVE  WorkersText'
<1>1. /\ job'[w] = [msg |-> job[w].msg, step |-> s]
      /\ \A v \in Workers \ {w} : job'[v] = job[v]
  BY Moved
<1>2. SUFFICES ASSUME NEW v \in Workers, job'[v] # Idle, HasText(v)'
      PROVE  content'[ItemOf(v)'] # "metadata"
  BY DEF WorkersText
<1>3. CASE v = w
  <2>1. ItemOf(v)' = ItemOf(w) /\ ItemOf(w) \in Items
    BY <1>1, <1>3, BusyWorker DEF ItemOf
  <2>2. CASE job[w].msg.task = "extract"
    BY <2>1, <2>2 DEF WorkersText, HasText, ContentStaysDecided
  <2>3. CASE job[w].msg.task # "extract"
    BY <1>1, <1>2, <1>3, <2>1, <2>3 DEF HasText
  <2> QED
    BY <2>2, <2>3
<1>4. CASE v # w
  <2>1. job'[v] = job[v] /\ job[v] # Idle
    BY <1>1, <1>2, <1>4
  <2>2. ItemOf(v) \in Items
    BY <2>1, BusyWorker
  <2> QED
    BY <1>2, <2>1, <2>2 DEF WorkersText, HasText, ItemOf, ContentStaysDecided
<1> QED
  BY <1>3, <1>4

LEMMA RunsMoved ==
    ASSUME TypeInv, SavesFollowRuns, NEW w \in Workers, job[w] # Idle,
           NEW s \in Steps, Goto(w, s), RunsStay,
           s = "save" => runs'[ItemOf(w)] # {}
    PROVE  SavesFollowRuns'
<1>1. /\ job'[w] = [msg |-> job[w].msg, step |-> s]
      /\ \A v \in Workers \ {w} : job'[v] = job[v]
  BY Moved
<1>2. SUFFICES ASSUME NEW v \in Workers, At(v, "save")'
      PROVE  runs'[ItemOf(v)'] # {}
  BY DEF SavesFollowRuns
<1>3. CASE v = w
  BY <1>1, <1>2, <1>3 DEF At, ItemOf
<1>4. CASE v # w
  <2>1. job'[v] = job[v] /\ At(v, "save")
    BY <1>1, <1>2, <1>4 DEF At
  <2>2. ItemOf(v) \in Items
    BY <2>1, AtStepBusy, BusyWorker DEF Steps
  <2> QED
    BY <2>1, <2>2 DEF SavesFollowRuns, RunsStay, ItemOf
<1> QED
  BY <1>3, <1>4

\* A worker back at rest owes neither text nor a run.
LEMMA SupportRested ==
    ASSUME TypeInv, WorkersText, SavesFollowRuns, NEW w \in Workers,
           job' = [job EXCEPT ![w] = Idle], UNCHANGED <<content, runs>>
    PROVE  WorkersText' /\ SavesFollowRuns'
<1>1. job'[w] = Idle /\ \A v \in Workers \ {w} : job'[v] = job[v]
  BY DEF TypeInv, TypeOK
<1>2. WorkersText'
  BY <1>1 DEF WorkersText, HasText, ItemOf
<1>3. SavesFollowRuns'
  <2>1. ~ At(w, "save")'
    BY <1>1 DEF At, Idle
  <2> QED
    BY <1>1, <2>1 DEF SavesFollowRuns, At, ItemOf
<1> QED
  BY <1>2, <1>3

SupportInv == TextInv /\ RunInv

LEMMA InitSupportInv == Init => SupportInv
<1> SUFFICES ASSUME Init PROVE SupportInv
  OBVIOUS
<1> USE DEF Init
<1>1. TextInv
  BY DEF TextInv, RowsText, QueueText, WorkersText
<1>2. ClaimsFollowRuns
  BY DEF ClaimsFollowRuns
<1>3. SavesFollowRuns
  BY DEF SavesFollowRuns, At, Idle
<1> QED
  BY <1>1, <1>2, <1>3 DEF SupportInv, RunInv

LEMMA WorkSupport ==
    ASSUME TypeInv, SupportInv, NEW w \in Workers, Work(w)
    PROVE  SupportInv'
<1> USE DEF SupportInv, TextInv, RunInv
<1> USE DEF history, rows
<1>0. job[w] # Idle => ItemOf(w) \in Items /\ job[w].msg \in Message
  BY BusyWorker
<1>a. ASSUME UNCHANGED <<content, runs, claims, transcripts>>, job[w] # Idle,
             NEW s \in Steps, Goto(w, s),
             s \in {"compare", "decide"} \/ (s = "dispatch" /\ job[w].msg.task = "acquire")
               => content[ItemOf(w)] # "metadata",
             s = "save" => runs[ItemOf(w)] # {},
             QueueText'
      PROVE  SupportInv'
  <2>1. WorkersText' /\ SavesFollowRuns'
    BY <1>a, TextMoved, RunsMoved DEF ContentStaysDecided, RunsStay
  <2> QED
    BY <1>a, <2>1 DEF RowsText, ClaimsFollowRuns
<1>1. ASSUME NEW v \in Verdicts, Judge(w, v) PROVE SupportInv'
  <2>1. job[w] # Idle /\ job[w].msg.task = "assess"
    BY <1>1, AtStepBusy DEF Judge, Steps, TypeInv, StepOfTask
  <2>2. AfterScreening(v) \in {"dispatch", "done"}
    BY DEF AfterScreening
  <2>3. QueueText'
    BY <1>1 DEF Judge, QueueText
  <2> QED
    BY <1>1, <1>a, <2>1, <2>2, <2>3 DEF Judge, Steps
<1>2. CASE CannotJudge(w)
  <2>1. job[w] # Idle /\ QueueText'
    BY <1>2, AtStepBusy DEF CannotJudge, Steps, QueueText
  <2> QED
    BY <1>2, <1>a, <2>1 DEF CannotJudge, Steps
<1>3. CASE DispatchNext(w)
  <2>1. job[w] # Idle /\ job[w].msg.task \in {"assess", "acquire"}
    BY <1>3, AtStepBusy DEF DispatchNext, Steps, TypeInv, StepOfTask
  <2> DEFINE t == IF job[w].msg.task = "assess" THEN "acquire" ELSE "extract"
             n == Msg(t, ItemOf(w))
  <2>2. n \in Message /\ n.item = ItemOf(w) /\ n.task = t
    BY <1>0, <2>1, MsgType DEF Tasks, Msg
  <2>3. t = "extract" => content'[ItemOf(w)] # "metadata"
    BY <1>3, <2>1 DEF DispatchNext, WorkersText, HasText, At
  <2>4. Send(n) /\ ContentStaysDecided
    BY <1>3 DEF DispatchNext, ContentStaysDecided
  <2> HIDE DEF n, t
  <2>5. QueueText'
    BY <2>2, <2>3, <2>4, TextSent
  <2> QED
    BY <1>3, <1>a, <2>1, <2>5 DEF DispatchNext, Steps
<1>4. CASE Transcribe(w)
  <2>1. job[w] # Idle /\ ItemOf(w) \in Items
    BY <1>0, <1>4, AtStepBusy DEF Transcribe, Steps
  <2>2. ContentStaysDecided /\ RunsStay
    BY <1>4, <2>1 DEF Transcribe, ContentStaysDecided, RunsStay, TypeInv, TypeOK
  <2>3. WorkersText' /\ SavesFollowRuns'
    <3>1. CASE ItemOf(w) \in transcripts
      BY <1>4, <2>1, <2>2, <3>1, TextMoved, RunsMoved DEF Transcribe, Steps
    <3>2. CASE ItemOf(w) \notin transcripts
      <4>1. content'[ItemOf(w)] = "transcribed"
        BY <1>4, <2>1, <3>2 DEF Transcribe, TypeInv, TypeOK
      <4> QED
        BY <1>4, <2>1, <2>2, <3>2, <4>1, TextMoved, RunsMoved DEF Transcribe, Steps
    <3> QED
      BY <3>1, <3>2
  <2>4. QueueText'
    BY <1>4, <2>2 DEF Transcribe, QueueText, ContentStaysDecided, Message
  <2>5. RowsText'
    BY <1>4, <2>1 DEF Transcribe, RowsText, TypeInv, TypeOK
  <2> QED
    BY <1>4, <2>3, <2>4, <2>5 DEF Transcribe, ClaimsFollowRuns
<1>5. CASE WriteOff(w)
  <2>1. job[w] # Idle /\ ItemOf(w) \in Items
    BY <1>0, <1>5, AtStepBusy DEF WriteOff, Steps
  <2>2. ContentStaysDecided /\ RunsStay
    BY <1>5, <2>1 DEF WriteOff, ContentStaysDecided, RunsStay, TypeInv, TypeOK
  <2>3. WorkersText' /\ SavesFollowRuns'
    BY <1>5, <2>1, <2>2, TextMoved, RunsMoved DEF WriteOff, Steps
  <2>4. QueueText' /\ RowsText'
    BY <1>5, <2>2 DEF WriteOff, QueueText, RowsText, ContentStaysDecided, Message,
                      TypeInv, TypeOK
  <2> QED
    BY <1>5, <2>3, <2>4 DEF WriteOff, ClaimsFollowRuns
<1>6. CASE Broken(w)
  <2>1. job[w] # Idle /\ job[w].msg.task = "acquire"
    BY <1>6, AtStepBusy DEF Broken, Steps, TypeInv, StepOfTask, At
  <2>2. QueueText'
    <3>1. CASE job[w].msg.tries < MaxRetries
      <4> DEFINE n == [job[w].msg EXCEPT !.tries = @ + 1]
      <4>1. n \in Message /\ n.task = "acquire"
        BY <1>0, <2>1, <3>1, PipelineAssumption DEF Message
      <4>2. Send(n) /\ ContentStaysDecided
        BY <1>6, <3>1 DEF Broken, ContentStaysDecided
      <4> HIDE DEF n
      <4> QED
        BY <4>1, <4>2, TextSent
    <3>2. CASE ~(job[w].msg.tries < MaxRetries)
      BY <1>6, <3>2 DEF Broken, QueueText
    <3> QED
      BY <3>1, <3>2
  <2> QED
    BY <1>6, <1>a, <2>1, <2>2 DEF Broken, Steps
<1>7. CASE Compare(w)
  <2>1. job[w] # Idle /\ QueueText'
    BY <1>7, AtStepBusy DEF Compare, Steps, QueueText
  <2>2. content[ItemOf(w)] # "metadata"
    BY <1>7, <2>1 DEF Compare, WorkersText, HasText, At
  <2> QED
    BY <1>7, <1>a, <2>1, <2>2 DEF Compare, Steps
<1>8. CASE BuildSegments(w)
  <2>1. job[w] # Idle /\ QueueText'
    BY <1>8, AtStepBusy DEF BuildSegments, Steps, QueueText
  <2> QED
    BY <1>8, <1>a, <2>1 DEF BuildSegments, Steps
<1>9. ASSUME NEW outcome \in Outcomes, Ask(w, outcome) PROVE SupportInv'
  <2>1. job[w] # Idle /\ ItemOf(w) \in Items
    BY <1>0, <1>9, AtStepBusy DEF Ask, Steps
  <2>2. runs'[ItemOf(w)] # {} /\ RunsStay /\ ContentStaysDecided
    BY <1>9, <2>1 DEF Ask, RunsStay, ContentStaysDecided, TypeInv, TypeOK
  <2>3. WorkersText' /\ SavesFollowRuns'
    BY <1>9, <2>1, <2>2, TextMoved, RunsMoved DEF Ask, Steps
  <2> QED
    BY <1>9, <2>2, <2>3 DEF Ask, QueueText, RowsText, ClaimsFollowRuns, RunsStay
<1>10. ASSUME NEW someClaims \in BOOLEAN, Save(w, someClaims) PROVE SupportInv'
  <2>1. job[w] # Idle /\ ItemOf(w) \in Items
    BY <1>0, <1>10, AtStepBusy DEF Save, Steps
  <2>2. RunsStay /\ ContentStaysDecided /\ runs[ItemOf(w)] # {}
    BY <1>10 DEF Save, RunsStay, ContentStaysDecided, SavesFollowRuns
  <2>3. WorkersText' /\ SavesFollowRuns'
    BY <1>10, <2>1, <2>2, TextMoved, RunsMoved DEF Save, Steps
  <2>4. ClaimsFollowRuns'
    BY <1>10, <2>1, <2>2 DEF Save, ClaimsFollowRuns, TypeInv, TypeOK
  <2> QED
    BY <1>10, <2>3, <2>4 DEF Save, QueueText, RowsText
<1>11. CASE Ack(w)
  <2>1. WorkersText' /\ SavesFollowRuns'
    BY <1>11, SupportRested DEF Ack
  <2> QED
    BY <1>11, <2>1 DEF Ack, QueueText, RowsText, ClaimsFollowRuns
<1>12. CASE Decide(w)
  <2>1. job[w] # Idle /\ QueueText'
    BY <1>12, AtStepBusy DEF Decide, Steps, QueueText
  <2>2. content[ItemOf(w)] # "metadata"
    BY <1>12, <2>1 DEF Decide, WorkersText, HasText, At
  <2> QED
    BY <1>12, <1>a, <2>1, <2>2 DEF Decide, Steps
<1> QED
  BY <1>1, <1>2, <1>3, <1>4, <1>5, <1>6, <1>7, <1>8, <1>9, <1>10, <1>11, <1>12 DEF Work

LEMMA NextSupportInv == TypeInv /\ SupportInv /\ [Next]_vars => SupportInv'
<1> SUFFICES ASSUME TypeInv, SupportInv, [Next]_vars PROVE SupportInv'
  OBVIOUS
<1> USE DEF SupportInv, TextInv, RunInv
<1> USE DEF history, rows
<1>1. ASSUME NEW i \in Items, NEW hasText \in BOOLEAN, NEW dispatched \in BOOLEAN,
             Discover(i, hasText, dispatched)
      PROVE  SupportInv'
  <2>1. ContentStaysDecided
    BY <1>1 DEF Discover, ContentStaysDecided, TypeInv, TypeOK
  <2>2. RowsText'
    BY <1>1 DEF Discover, RowsText, TypeInv, TypeOK
  <2>3. Msg("assess", i) \in Message /\ Msg("assess", i).task = "assess"
    BY MsgType DEF Tasks, Msg
  <2>4. QueueText'
    <3>1. CASE dispatched
      BY <1>1, <2>1, <2>3, <3>1, TextSent DEF Discover
    <3>2. CASE ~dispatched
      BY <1>1, <2>1, <3>2 DEF Discover, QueueText, ContentStaysDecided, Message
    <3> QED
      BY <3>1, <3>2
  <2>5. ASSUME NEW w \in Workers, job[w] # Idle, HasText(w)
        PROVE  content'[ItemOf(w)] # "metadata"
    BY <2>1, <2>5, BusyWorker DEF WorkersText, ContentStaysDecided
  <2>6. WorkersText'
    BY <1>1, <2>5 DEF Discover, WorkersText, HasText, ItemOf
  <2> QED
    BY <1>1, <2>2, <2>4, <2>6
       DEF Discover, ClaimsFollowRuns, SavesFollowRuns, At, ItemOf
<1>2. ASSUME NEW w \in Workers, NEW m \in Message, Take(w, m) PROVE SupportInv'
  <2>1. QueueText'
    BY <1>2 DEF Take, QueueText, TypeInv, TypeOK
  <2>2. m.item \in Items /\ m.task \in Tasks
    BY DEF Message
  <2>3. /\ job'[w] = [msg |-> m, step |-> FirstStep(m)]
        /\ \A v \in Workers \ {w} : job'[v] = job[v]
    BY <1>2 DEF Take, TypeInv, TypeOK
  <2>4. FirstStep(m) # "save"
    BY <2>2 DEF FirstStep, AfterScreening, Tasks
  <2>5. /\ FirstStep(m) \in {"compare", "decide"} => m.item \in transcripts
        /\ FirstStep(m) = "dispatch" => m.task = "assess"
    BY <2>2 DEF FirstStep, AfterScreening, Tasks
  <2>6. ASSUME NEW v \in Workers, job'[v] # Idle, HasText(v)'
        PROVE  content[ItemOf(v)'] # "metadata"
    <3>1. CASE v = w
      <4>1. ItemOf(v)' = m.item
        BY <2>3, <3>1 DEF ItemOf
      <4>2. m.task = "extract" \/ FirstStep(m) \in {"compare", "decide"}
        BY <2>3, <2>5, <2>6, <3>1 DEF HasText
      <4> QED
        BY <1>2, <2>5, <4>1, <4>2 DEF RowsText, QueueText, Take
    <3>2. CASE v # w
      BY <2>3, <2>6, <3>2 DEF WorkersText, HasText, ItemOf
    <3> QED
      BY <3>1, <3>2
  <2>7. WorkersText'
    BY <1>2, <2>6 DEF Take, WorkersText
  <2>8. SavesFollowRuns'
    BY <1>2, <2>3, <2>4 DEF Take, SavesFollowRuns, At, ItemOf
  <2> QED
    BY <1>2, <2>1, <2>7, <2>8 DEF Take, RowsText, ClaimsFollowRuns
<1>3. ASSUME NEW w \in Workers, Work(w) PROVE SupportInv'
  BY <1>3, WorkSupport
<1>4. ASSUME NEW w \in Workers, Crash(w) PROVE SupportInv'
  <2>1. job[w].msg \in Message /\ ContentStaysDecided
    BY <1>4, BusyWorker DEF Crash, ContentStaysDecided
  <2>2. job[w].msg.task = "extract" => content'[job[w].msg.item] # "metadata"
    BY <1>4 DEF Crash, WorkersText, HasText, ItemOf
  <2>3. QueueText'
    BY <1>4, <2>1, <2>2, TextSent DEF Crash
  <2>4. WorkersText' /\ SavesFollowRuns'
    BY <1>4, SupportRested DEF Crash
  <2> QED
    BY <1>4, <2>3, <2>4 DEF Crash, RowsText, ClaimsFollowRuns
<1>5. CASE Sweep
  <2>1. ASSUME NEW m \in Message, m.task # "assess" PROVE queue'[m] = queue[m]
    BY <1>5, <2>1 DEF Sweep, Msg
  <2>2. QueueText'
    BY <1>5, <2>1 DEF Sweep, QueueText
  <2> QED
    BY <1>5, <2>2 DEF Sweep, RowsText, WorkersText, HasText, ItemOf, ClaimsFollowRuns,
                      SavesFollowRuns, At
<1>6. ASSUME NEW i \in Items, RetryAnalysis(i) PROVE SupportInv'
  <2>1. Msg("extract", i) \in Message /\ Msg("extract", i).item = i
    BY MsgType DEF Tasks, Msg
  <2>2. content'[i] # "metadata" /\ ContentStaysDecided
    BY <1>6 DEF RetryAnalysis, Unanalysed, ContentStaysDecided
  <2>3. QueueText'
    BY <1>6, <2>1, <2>2, TextSent DEF RetryAnalysis
  <2> QED
    BY <1>6, <2>3 DEF RetryAnalysis, RowsText, WorkersText, HasText, ItemOf,
                      ClaimsFollowRuns, SavesFollowRuns, At
<1>7. CASE UNCHANGED vars
  BY <1>7 DEF vars, RowsText, QueueText, WorkersText, HasText, ItemOf,
              ClaimsFollowRuns, SavesFollowRuns, At
<1>8. CASE ScanLoad
  BY <1>8 DEF ScanLoad, RowsText, QueueText, WorkersText, HasText, ItemOf,
              ClaimsFollowRuns, SavesFollowRuns, At
<1>9. ASSUME NEW row \in scan, ScanCheck(row) PROVE SupportInv'
  BY <1>9 DEF ScanCheck, RowsText, QueueText, WorkersText, HasText, ItemOf,
              ClaimsFollowRuns, SavesFollowRuns, At
<1> QED
  BY <1>1, <1>2, <1>3, <1>4, <1>5, <1>6, <1>7, <1>8, <1>9 DEF Next

(***************************************************************************)
(* Who really carries an item.  A worker about to return does not, nor one *)
(* at the gate (another may have judged the item already), nor a walker or *)
(* a segmenter that somebody has overtaken: its insert will raise.         *)
(***************************************************************************)
Carries(w, i) ==
    /\ job[w] # Idle
    /\ ItemOf(w) = i
    /\ \/ job[w].step \in {"dispatch", "compare", "decide", "ask", "save"}
       \/ job[w].step = "walk" /\ i \notin transcripts
       \/ job[w].step = "segment" /\ i \notin segments

Waits(i) == \E m \in Message : m.item = i /\ queue[m] > 0
Safe(i) == Waits(i) \/ (\E w \in Workers : Carries(w, i)) \/ Settled(i) \/ i \in released
CarriedInv == \A i \in Items : NeedsTranscript(decision[i]) => Safe(i)

LEMMA InitCarriedInv == Init => CarriedInv
  BY DEF Init, CarriedInv, NeedsTranscript

\* What a step leaves as it found it for i.
LEMMA Undisturbed ==
    ASSUME CarriedInv, NEW i \in Items, NeedsTranscript(decision[i]),
           \A v \in Workers : Carries(v, i) => Carries(v, i)',
           Settled(i) => Settled(i)', Waits(i) => Waits(i)',
           i \in released => i \in released'
    PROVE  Safe(i)'
  BY DEF CarriedInv, Safe

LEMMA OthersCarry ==
    ASSUME TypeInv, NEW w \in Workers, job[w] # Idle, NEW s \in Steps, Goto(w, s),
           NEW i \in Items, ~ Carries(w, i),
           i \in transcripts' => i \in transcripts,
           i \in segments' => i \in segments
    PROVE  \A v \in Workers : Carries(v, i) => Carries(v, i)'
<1>1. \A v \in Workers \ {w} : job'[v] = job[v]
  BY Moved
<1> QED
  BY <1>1 DEF Carries, ItemOf

LEMMA MovedCarries ==
    ASSUME TypeInv, NEW w \in Workers, job[w] # Idle, NEW i \in Items, i = ItemOf(w),
           NEW s \in {"dispatch", "compare", "decide", "ask", "save"}, Goto(w, s)
    PROVE  Safe(i)'
<1>1. s \in Steps
  BY DEF Steps
<1>2. job'[w] = [msg |-> job[w].msg, step |-> s] /\ job'[w] # Idle
  BY <1>1, Moved
<1>3. Carries(w, i)'
  BY <1>2 DEF Carries, ItemOf
<1> QED
  BY <1>3 DEF Safe

LEMMA WaitsGrow ==
    ASSUME TypeInv, NEW i \in Items, \A m \in Message : queue'[m] >= queue[m],
           queue' \in [Message -> Nat]
    PROVE  Waits(i) => Waits(i)'
  BY DEF Waits, TypeInv, TypeOK

LEMMA SentWaits ==
    ASSUME TypeInv, NEW m \in Message, Send(m)
    PROVE  /\ Waits(m.item)'
           /\ \A n \in Message : queue'[n] >= queue[n]
           /\ queue' \in [Message -> Nat]
<1>1. queue \in [Message -> Nat]
  BY DEF TypeInv, TypeOK
<1>2. queue'[m] > 0 /\ (\A n \in Message : queue'[n] >= queue[n]) /\ queue' \in [Message -> Nat]
  BY <1>1 DEF Send
<1> QED
  BY <1>2 DEF Waits

LEMMA WorkCarries ==
    ASSUME TypeInv, SupportInv, CarriedInv, NEW w \in Workers, Work(w),
           NEW i \in Items, NeedsTranscript(decision'[i])
    PROVE  Safe(i)'
<1> USE DEF history, rows, command
<1>0. job[w] # Idle => ItemOf(w) \in Items /\ job[w].msg \in Message
  BY BusyWorker
\* A step of w that w does not carry i through, and that unsettles nothing.
<1>a. ASSUME job[w] # Idle, NEW s \in Steps, Goto(w, s), ~ Carries(w, i),
             decision'[i] = decision[i],
             i \in transcripts' => i \in transcripts,
             i \in segments' => i \in segments,
             Settled(i) => Settled(i)', Waits(i) => Waits(i)',
             i \in released => i \in released'
      PROVE  Safe(i)'
  BY <1>a, OthersCarry, Undisturbed
<1>1. ASSUME NEW v \in Verdicts, Judge(w, v) PROVE Safe(i)'
  <2>1. job[w] # Idle
    BY <1>1, AtStepBusy DEF Judge, Steps
  <2>2. CASE i = ItemOf(w)
    <3>1. decision'[i] = v
      BY <1>1, <2>2 DEF Judge, TypeInv, TypeOK
    <3>2. AfterScreening(v) = "dispatch"
      BY <3>1 DEF AfterScreening
    <3> QED
      BY <1>1, <2>1, <2>2, <3>2, MovedCarries DEF Judge
  <2>3. CASE i # ItemOf(w)
    <3>1. ~ Carries(w, i) /\ AfterScreening(v) \in Steps /\ decision'[i] = decision[i]
      BY <1>1, <2>3 DEF Carries, AfterScreening, Steps, Judge, TypeInv, TypeOK
    <3>2. (Settled(i) => Settled(i)') /\ (Waits(i) => Waits(i)')
      BY <1>1 DEF Judge, Settled, Waits
    <3> QED
      BY <1>1, <1>a, <2>1, <3>1, <3>2 DEF Judge
  <2> QED
    BY <2>2, <2>3
<1>2. CASE CannotJudge(w)
  <2>1. job[w] # Idle /\ ~ Carries(w, i)
    BY <1>2, AtStepBusy DEF CannotJudge, Steps, Carries, At
  <2>2. (Settled(i) => Settled(i)') /\ (Waits(i) => Waits(i)')
    BY <1>2 DEF CannotJudge, Settled, Waits
  <2> QED
    BY <1>2, <1>a, <2>1, <2>2 DEF CannotJudge, Steps
<1>3. CASE DispatchNext(w)
  <2>1. job[w] # Idle
    BY <1>3, AtStepBusy DEF DispatchNext, Steps
  <2> DEFINE n == Msg(IF job[w].msg.task = "assess" THEN "acquire" ELSE "extract", ItemOf(w))
  <2>2. n \in Message /\ n.item = ItemOf(w)
    BY <1>0, <2>1, MsgType DEF Tasks, Msg
  <2>3. Send(n)
    BY <1>3 DEF DispatchNext
  <2> HIDE DEF n
  <2>4. CASE i = ItemOf(w)
    BY <2>2, <2>3, <2>4, SentWaits DEF Safe
  <2>5. CASE i # ItemOf(w)
    <3>1. ~ Carries(w, i) /\ (Settled(i) => Settled(i)')
      BY <1>3, <2>5 DEF Carries, DispatchNext, Settled
    <3>2. Waits(i) => Waits(i)'
      BY <2>2, <2>3, SentWaits, WaitsGrow
    <3> QED
      BY <1>3, <1>a, <2>1, <3>1, <3>2 DEF DispatchNext, Steps
  <2> QED
    BY <2>4, <2>5
<1>4. CASE Transcribe(w)
  <2>1. job[w] # Idle /\ ItemOf(w) \in Items
    BY <1>0, <1>4, AtStepBusy DEF Transcribe, Steps
  <2>2. Waits(i) => Waits(i)'
    BY <1>4 DEF Transcribe, Waits
  <2>3. CASE ItemOf(w) \in transcripts
    <3>1. ~ Carries(w, i) /\ (Settled(i) => Settled(i)')
      BY <1>4, <2>3 DEF Transcribe, Carries, Settled, At
    <3> QED
      BY <1>4, <1>a, <2>1, <2>2, <2>3, <3>1 DEF Transcribe, Steps
  <2>4. CASE ItemOf(w) \notin transcripts /\ i = ItemOf(w)
    BY <1>4, <2>1, <2>4, MovedCarries DEF Transcribe
  <2>5. CASE ItemOf(w) \notin transcripts /\ i # ItemOf(w)
    <3>1. ~ Carries(w, i) /\ (Settled(i) => Settled(i)')
          /\ (i \in transcripts' => i \in transcripts)
      BY <1>4, <2>5 DEF Transcribe, Carries, Settled, TypeInv, TypeOK
    <3> QED
      BY <1>4, <1>a, <2>1, <2>2, <2>5, <3>1 DEF Transcribe, Steps
  <2> QED
    BY <2>3, <2>4, <2>5
<1>5. CASE WriteOff(w)
  <2>1. job[w] # Idle
    BY <1>5, AtStepBusy DEF WriteOff, Steps
  <2>2. CASE i = ItemOf(w)
    BY <1>5, <2>2 DEF WriteOff, Safe, Settled, TypeInv, TypeOK
  <2>3. CASE i # ItemOf(w)
    <3>1. ~ Carries(w, i) /\ (Settled(i) => Settled(i)') /\ (Waits(i) => Waits(i)')
      BY <1>5, <2>3 DEF WriteOff, Carries, Settled, Waits, TypeInv, TypeOK
    <3> QED
      BY <1>5, <1>a, <2>1, <3>1 DEF WriteOff, Steps
  <2> QED
    BY <2>2, <2>3
<1>6. CASE Broken(w)
  <2>1. job[w] # Idle
    BY <1>6, AtStepBusy DEF Broken, Steps
  <2> DEFINE n == [job[w].msg EXCEPT !.tries = @ + 1]
  <2>2. CASE job[w].msg.tries < MaxRetries
    <3>1. n \in Message /\ n.item = ItemOf(w)
      BY <1>0, <2>1, <2>2, PipelineAssumption DEF Message, ItemOf
    <3>2. Send(n)
      BY <1>6, <2>2 DEF Broken
    <3> HIDE DEF n
    <3>3. CASE i = ItemOf(w)
      BY <3>1, <3>2, <3>3, SentWaits DEF Safe
    <3>4. CASE i # ItemOf(w)
      <4>1. ~ Carries(w, i) /\ (Settled(i) => Settled(i)')
        BY <1>6, <2>2, <3>4 DEF Carries, Broken, Settled
      <4>2. Waits(i) => Waits(i)'
        BY <3>1, <3>2, SentWaits, WaitsGrow
      <4> QED
        BY <1>6, <1>a, <2>1, <4>1, <4>2 DEF Broken, Steps
    <3> QED
      BY <3>3, <3>4
  <2>3. CASE ~(job[w].msg.tries < MaxRetries)
    <3>1. CASE i = ItemOf(w)
      BY <1>6, <2>3, <3>1 DEF Broken, Safe, Settled
    <3>2. CASE i # ItemOf(w)
      <4>1. ~ Carries(w, i) /\ (Settled(i) => Settled(i)') /\ (Waits(i) => Waits(i)')
        BY <1>6, <2>3, <3>2 DEF Broken, Carries, Settled, Waits
      <4> QED
        BY <1>6, <1>a, <2>1, <4>1 DEF Broken, Steps
    <3> QED
      BY <3>1, <3>2
  <2> QED
    BY <2>2, <2>3
<1>7. CASE Compare(w)
  <2>1. job[w] # Idle /\ ItemOf(w) \in Items
    BY <1>0, <1>7, AtStepBusy DEF Compare, Steps
  <2>2. (Settled(i) => Settled(i)') /\ (Waits(i) => Waits(i)')
    BY <1>7 DEF Compare, Settled, Waits
  <2>3. CASE i # ItemOf(w)
    <3>1. ~ Carries(w, i)
      BY <2>3 DEF Carries
    <3> QED
      BY <1>7, <1>a, <2>1, <2>2, <3>1 DEF Compare, Steps
  <2>4. CASE i = ItemOf(w)
    BY <1>7, <2>1, <2>4, MovedCarries DEF Compare
  <2> QED
    BY <2>3, <2>4
<1>8. CASE BuildSegments(w)
  <2>1. job[w] # Idle /\ ItemOf(w) \in Items
    BY <1>0, <1>8, AtStepBusy DEF BuildSegments, Steps
  <2>2. (Settled(i) => Settled(i)') /\ (Waits(i) => Waits(i)')
    BY <1>8 DEF BuildSegments, Settled, Waits
  <2>3. CASE i = ItemOf(w) /\ i \notin segments
    BY <1>8, <2>1, <2>3, MovedCarries DEF BuildSegments
  <2>4. CASE i # ItemOf(w) \/ i \in segments
    <3>1. ~ Carries(w, i) /\ (i \in segments' => i \in segments)
      BY <1>8, <2>4 DEF BuildSegments, Carries, At
    <3> QED
      BY <1>8, <1>a, <2>1, <2>2, <3>1 DEF BuildSegments, Steps
  <2> QED
    BY <2>3, <2>4
<1>9. ASSUME NEW outcome \in Outcomes, Ask(w, outcome) PROVE Safe(i)'
  <2>1. job[w] # Idle /\ ItemOf(w) \in Items
    BY <1>0, <1>9, AtStepBusy DEF Ask, Steps
  <2>2. CASE i = ItemOf(w)
    BY <1>9, <2>2 DEF Ask, Safe, Settled, TypeInv, TypeOK
  <2>3. CASE i # ItemOf(w)
    <3>1. ~ Carries(w, i) /\ (Settled(i) => Settled(i)') /\ (Waits(i) => Waits(i)')
      BY <1>9, <2>3 DEF Ask, Carries, Settled, Waits, TypeInv, TypeOK
    <3> QED
      BY <1>9, <1>a, <2>1, <3>1 DEF Ask, Steps
  <2> QED
    BY <2>2, <2>3
<1>10. ASSUME NEW someClaims \in BOOLEAN, Save(w, someClaims) PROVE Safe(i)'
  <2>1. job[w] # Idle
    BY <1>10, AtStepBusy DEF Save, Steps
  <2>2. (Settled(i) => Settled(i)') /\ (Waits(i) => Waits(i)')
    BY <1>10 DEF Save, Settled, Waits
  <2>3. CASE i = ItemOf(w)
    BY <1>10, <2>2, <2>3 DEF Save, Safe, Settled, SupportInv, RunInv, SavesFollowRuns
  <2>4. CASE i # ItemOf(w)
    <3>1. ~ Carries(w, i)
      BY <2>4 DEF Carries
    <3> QED
      BY <1>10, <1>a, <2>1, <2>2, <3>1 DEF Save, Steps
  <2> QED
    BY <2>3, <2>4
<1>11. CASE Ack(w)
  <2>1. \A v \in Workers \ {w} : job'[v] = job[v]
    BY <1>11 DEF Ack, TypeInv, TypeOK
  <2>2. ~ Carries(w, i)
    BY <1>11 DEF Ack, At, Carries
  <2>3. \A v \in Workers : Carries(v, i) => Carries(v, i)'
    BY <1>11, <2>1, <2>2 DEF Ack, Carries, ItemOf
  <2>4. (Settled(i) => Settled(i)') /\ (Waits(i) => Waits(i)')
    BY <1>11 DEF Ack, Settled, Waits
  <2> QED
    BY <1>11, <2>3, <2>4, Undisturbed DEF Ack
<1>12. CASE Decide(w)
  <2>1. job[w] # Idle /\ ItemOf(w) \in Items
    BY <1>0, <1>12, AtStepBusy DEF Decide, Steps
  <2>2. (Settled(i) => Settled(i)') /\ (Waits(i) => Waits(i)')
    BY <1>12 DEF Decide, Settled, Waits
  <2>3. CASE i # ItemOf(w)
    <3>1. ~ Carries(w, i)
      BY <2>3 DEF Carries
    <3> QED
      BY <1>12, <1>a, <2>1, <2>2, <3>1 DEF Decide, Steps
  <2>4. CASE i = ItemOf(w) /\ i \in duplicates
    BY <1>12, <2>4 DEF Decide, Safe, Settled
  <2>5. CASE i = ItemOf(w) /\ i \notin duplicates
    BY <1>12, <2>1, <2>5, MovedCarries DEF Decide
  <2> QED
    BY <2>3, <2>4, <2>5
<1> QED
  BY <1>1, <1>2, <1>3, <1>4, <1>5, <1>6, <1>7, <1>8, <1>9, <1>10, <1>11, <1>12 DEF Work

LEMMA NextCarriedInv == TypeInv /\ SupportInv /\ CarriedInv /\ [Next]_vars => CarriedInv'
<1> SUFFICES ASSUME TypeInv, SupportInv, CarriedInv, [Next]_vars,
                    NEW i \in Items, NeedsTranscript(decision'[i])
             PROVE  Safe(i)'
  BY DEF CarriedInv
<1> USE DEF history, rows, command
\* A step that takes no work from any worker.
<1>a. ASSUME decision'[i] = decision[i], job' = job, segments' = segments,
             i \in transcripts' => i \in transcripts,
             Settled(i) => Settled(i)', Waits(i) => Waits(i)',
             i \in released => i \in released'
      PROVE  Safe(i)'
  <2>1. \A v \in Workers : Carries(v, i) => Carries(v, i)'
    BY <1>a DEF Carries, ItemOf
  <2> QED
    BY <1>a, <2>1, Undisturbed
<1>1. ASSUME NEW k \in Items, NEW hasText \in BOOLEAN, NEW dispatched \in BOOLEAN,
             Discover(k, hasText, dispatched)
      PROVE  Safe(i)'
  <2>1. i # k /\ decision'[i] = decision[i]
    BY <1>1 DEF Discover, NeedsTranscript, TypeInv, TypeOK
  <2>2. (Settled(i) => Settled(i)') /\ (i \in transcripts' => i \in transcripts)
    BY <1>1, <2>1 DEF Discover, Settled, TypeInv, TypeOK
  <2>3. Waits(i) => Waits(i)'
    <3>1. CASE dispatched
      BY <1>1, <3>1, MsgType, SentWaits, WaitsGrow DEF Discover, Tasks
    <3>2. CASE ~dispatched
      BY <1>1, <3>2 DEF Discover, Waits
    <3> QED
      BY <3>1, <3>2
  <2> QED
    BY <1>1, <1>a, <2>1, <2>2, <2>3 DEF Discover
<1>2. ASSUME NEW w \in Workers, NEW m \in Message, Take(w, m) PROVE Safe(i)'
  <2>1. /\ job'[w] = [msg |-> m, step |-> FirstStep(m)]
        /\ \A v \in Workers \ {w} : job'[v] = job[v]
    BY <1>2 DEF Take, TypeInv, TypeOK
  <2>2. (Settled(i) => Settled(i)') /\ decision' = decision /\ released' = released
        /\ transcripts' = transcripts /\ segments' = segments
    BY <1>2 DEF Take, Settled
  <2>3. CASE i # m.item
    <3>1. \A v \in Workers : Carries(v, i) => Carries(v, i)'
      BY <1>2, <2>1, <2>2 DEF Take, Carries, ItemOf
    <3>2. Waits(i) => Waits(i)'
      BY <1>2, <2>3 DEF Take, Waits, TypeInv, TypeOK
    <3> QED
      BY <2>2, <3>1, <3>2, Undisturbed
  <2>4. CASE i = m.item
    <3>0. m.task \in Tasks /\ NeedsTranscript(decision[i])
      BY <2>2 DEF Message
    <3>1. job'[w] # Idle /\ ItemOf(w)' = i
      BY <2>1, <2>4, FirstStepType DEF Idle, Steps, ItemOf
    <3>2. ASSUME \/ FirstStep(m) \in {"dispatch", "compare", "decide", "ask", "save"}
                 \/ FirstStep(m) = "walk" /\ i \notin transcripts
                 \/ FirstStep(m) = "segment" /\ i \notin segments
          PROVE  Safe(i)'
      BY <2>1, <2>2, <3>1, <3>2 DEF Safe, Carries
    <3>3. CASE m.task = "assess"
      <4>1. decision[i] # "pending"
        BY <3>0 DEF NeedsTranscript
      <4> QED
        BY <2>4, <3>0, <3>2, <3>3, <4>1 DEF FirstStep, AfterScreening
    <3>4. CASE m.task = "acquire"
      BY <2>4, <3>2, <3>4 DEF FirstStep
    <3>5. CASE m.task = "extract"
      <4>1. CASE IsMetadataOnly(i) \/ i \in duplicates \/ claims[i] > 0
        <5>1. content[i] # "metadata"
          BY <1>2, <2>4, <3>5 DEF Take, SupportInv, TextInv, QueueText
        <5>2. IsMetadataOnly(i) => content[i] = "written off"
          BY <5>1 DEF IsMetadataOnly, TypeInv, TypeOK, Contents
        <5>3. claims[i] > 0 => runs[i] # {}
          BY DEF SupportInv, RunInv, ClaimsFollowRuns
        <5> QED
          BY <2>2, <4>1, <5>2, <5>3 DEF Safe, Settled
      <4>2. CASE ~(IsMetadataOnly(i) \/ i \in duplicates \/ claims[i] > 0)
        BY <2>4, <3>2, <3>5, <4>2 DEF FirstStep
      <4> QED
        BY <4>1, <4>2
    <3> QED
      BY <3>0, <3>3, <3>4, <3>5 DEF Tasks
  <2> QED
    BY <2>3, <2>4
<1>3. ASSUME NEW w \in Workers, Work(w) PROVE Safe(i)'
  BY <1>3, WorkCarries
<1>4. ASSUME NEW w \in Workers, Crash(w) PROVE Safe(i)'
  <2>1. job[w].msg \in Message /\ Send(job[w].msg)
    BY <1>4, BusyWorker DEF Crash
  <2>2. CASE i = ItemOf(w)
    BY <2>1, <2>2, SentWaits DEF Safe, ItemOf
  <2>3. CASE i # ItemOf(w)
    <3>1. \A v \in Workers \ {w} : job'[v] = job[v]
      BY <1>4 DEF Crash, TypeInv, TypeOK
    <3>2. \A v \in Workers : Carries(v, i) => Carries(v, i)'
      BY <1>4, <2>3, <3>1 DEF Crash, Carries, ItemOf
    <3>3. (Settled(i) => Settled(i)') /\ decision' = decision /\ released' = released
      BY <1>4 DEF Crash, Settled
    <3>4. Waits(i) => Waits(i)'
      BY <2>1, SentWaits, WaitsGrow
    <3> QED
      BY <3>2, <3>3, <3>4, Undisturbed
  <2> QED
    BY <2>2, <2>3
<1>5. CASE Sweep
  <2>1. Settled(i) => Settled(i)'
    BY <1>5 DEF Sweep, Settled
  <2>2. queue' \in [Message -> Nat] /\ \A m \in Message : queue'[m] >= queue[m]
    BY <1>5 DEF Sweep, TypeInv, TypeOK
  <2>3. Waits(i) => Waits(i)'
    BY <2>2, WaitsGrow
  <2> QED
    BY <1>5, <1>a, <2>1, <2>3 DEF Sweep
<1>6. ASSUME NEW k \in Items, RetryAnalysis(k) PROVE Safe(i)'
  <2>1. Settled(i) => Settled(i)'
    BY <1>6 DEF RetryAnalysis, Settled
  <2>2. Waits(i) => Waits(i)'
    BY <1>6, MsgType, SentWaits, WaitsGrow DEF RetryAnalysis, Tasks
  <2> QED
    BY <1>6, <1>a, <2>1, <2>2 DEF RetryAnalysis
<1>7. CASE UNCHANGED vars
  <2>1. (Settled(i) => Settled(i)') /\ (Waits(i) => Waits(i)')
    BY <1>7 DEF vars, Settled, Waits
  <2> QED
    BY <1>7, <1>a, <2>1 DEF vars
<1>8. CASE ScanLoad
  <2>1. (Settled(i) => Settled(i)') /\ (Waits(i) => Waits(i)')
    BY <1>8 DEF ScanLoad, Settled, Waits
  <2> QED
    BY <1>8, <1>a, <2>1 DEF ScanLoad
<1>9. ASSUME NEW row \in scan, ScanCheck(row) PROVE Safe(i)'
  <2>1. i \in duplicates => i \in duplicates' \/ i \in released'
    BY <1>9 DEF ScanCheck, CheckLoaded
  <2>2. CASE i \in released'
    BY <2>2 DEF Safe
  <2>3. CASE i \notin released'
    <3>1. (Settled(i) => Settled(i)') /\ (Waits(i) => Waits(i)')
      BY <1>9, <2>1, <2>3 DEF ScanCheck, Settled, Waits
    <3>2. i \notin released
      BY <1>9, <2>3 DEF ScanCheck, CheckLoaded
    <3> QED
      BY <1>9, <1>a, <3>1, <3>2 DEF ScanCheck
  <2> QED
    BY <2>2, <2>3
<1> QED
  BY <1>1, <1>2, <1>3, <1>4, <1>5, <1>6, <1>7, <1>8, <1>9 DEF Next

(***************************************************************************)
(* Only items with a transcript are ever confirmed, so only such a one can *)
(* be released; and a row loaded with its text keeps it.                   *)
(***************************************************************************)
MarkedText == duplicates \subseteq transcripts /\ released \subseteq transcripts
LoadedText == \A row \in scan : row.text => row.item \in transcripts
MarkedInv == MarkedText /\ LoadedText

LEMMA InitMarkedInv == Init => MarkedInv
  BY DEF Init, MarkedInv, MarkedText, LoadedText

LEMMA WorkMarks ==
    ASSUME MarkedInv, NEW w \in Workers, Work(w)
    PROVE  MarkedInv'
<1> USE DEF MarkedInv, MarkedText, LoadedText, rows, command
<1>1. CASE Compare(w)
  BY <1>1, ConfirmedHasText DEF Compare
<1>2. CASE Transcribe(w)
  BY <1>2 DEF Transcribe
<1>3. ASSUME UNCHANGED <<duplicates, transcripts, released, scan>> PROVE MarkedInv'
  BY <1>3
<1>4. ASSUME ~ Compare(w), ~ Transcribe(w)
      PROVE  UNCHANGED <<duplicates, transcripts, released, scan>>
  BY <1>4 DEF Work, Judge, CannotJudge, DispatchNext, WriteOff, Broken, Decide,
              BuildSegments, Ask, Save, Ack
<1> QED
  BY <1>1, <1>2, <1>3, <1>4

LEMMA NextMarkedInv == MarkedInv /\ [Next]_vars => MarkedInv'
<1> SUFFICES ASSUME MarkedInv, [Next]_vars PROVE MarkedInv'
  OBVIOUS
<1> USE DEF MarkedInv, MarkedText, LoadedText, rows, command
<1>1. ASSUME NEW i \in Items, NEW hasText \in BOOLEAN, NEW dispatched \in BOOLEAN,
             Discover(i, hasText, dispatched)
      PROVE  MarkedInv'
  BY <1>1 DEF Discover
<1>2. ASSUME NEW w \in Workers, NEW m \in Message, Take(w, m) PROVE MarkedInv'
  BY <1>2 DEF Take
<1>3. ASSUME NEW w \in Workers, Work(w) PROVE MarkedInv'
  BY <1>3, WorkMarks
<1>4. ASSUME NEW w \in Workers, Crash(w) PROVE MarkedInv'
  BY <1>4 DEF Crash
<1>5. CASE Sweep
  BY <1>5 DEF Sweep
<1>6. ASSUME NEW i \in Items, RetryAnalysis(i) PROVE MarkedInv'
  BY <1>6 DEF RetryAnalysis
<1>7. CASE UNCHANGED vars
  BY <1>7 DEF vars
<1>8. CASE ScanLoad
  BY <1>8, LoadedAsItIs DEF ScanLoad
<1>9. ASSUME NEW row \in scan, ScanCheck(row) PROVE MarkedInv'
  BY <1>9, ConfirmedHasText DEF ScanCheck, CheckLoaded
<1> QED
  BY <1>1, <1>2, <1>3, <1>4, <1>5, <1>6, <1>7, <1>8, <1>9 DEF Next

\* An item that was released, and is neither settled nor a duplicate again, is
\* one that failures.unanalysed shows.
LEMMA ReleasedIsShown ==
    ASSUME TypeInv, SupportInv, MarkedInv, NEW i \in released,
           NeedsTranscript(decision[i]), ~ Settled(i)
    PROVE  i \in Unanalysed
<1>1. i \in Items /\ i \in transcripts
  BY DEF MarkedInv, MarkedText, TypeInv, TypeOK
<1>2. content[i] = "transcribed"
  BY <1>1 DEF SupportInv, TextInv, RowsText, Settled, TypeInv, TypeOK, Contents
<1>3. runs[i] = {} /\ i \notin duplicates
  BY DEF Settled
<1>4. claims[i] = 0
  BY <1>1, <1>3 DEF SupportInv, RunInv, ClaimsFollowRuns, TypeInv, TypeOK
<1> QED
  BY <1>1, <1>2, <1>3, <1>4 DEF Unanalysed

(***************************************************************************)
(* An item the gate let through is in flight, or has come to an end of the *)
(* pipeline, whatever deliveries are repeated, overtaken or lost with their*)
(* worker: late acknowledgement and the order "write, send, return" of     *)
(* every task are enough for any number of items, workers and crashes.  The*)
(* one exception is an item whose mark find_duplicates wrote over, from a  *)
(* row loaded before; and failures.unanalysed shows every such item.       *)
(***************************************************************************)
THEOREM PipelineLosesNothing == Spec => []NothingIsLost
<1>1. TypeInv /\ SupportInv /\ MarkedInv /\ CarriedInv => NothingIsLost
  <2> SUFFICES ASSUME TypeInv, SupportInv, MarkedInv, CarriedInv, NEW i \in Items,
                      NeedsTranscript(decision[i]), ~ InFlight(i), ~ Settled(i)
               PROVE  LeftToOperator(i)
    BY DEF NothingIsLost
  <2>1. i \in released
    BY DEF CarriedInv, Safe, Waits, Carries, InFlight
  <2> QED
    BY <2>1, ReleasedIsShown DEF LeftToOperator
<1> QED
  BY <1>1, InitTypeInv, NextTypeInv, InitSupportInv, NextSupportInv,
     InitMarkedInv, NextMarkedInv, InitCarriedInv, NextCarriedInv, PTL DEF Spec

(***************************************************************************)
(* Extracting once.  The test "claims already exist" is made when the task *)
(* reads its rows; as long as no two workers are between that test and the *)
(* save for the same item, what the test found still holds at the save.    *)
(***************************************************************************)
Extracting(w) == job[w].step \in {"segment", "ask", "save"}

OneExtraction ==
    \A v, w \in Workers : v # w /\ Extracting(v) /\ Extracting(w) => ItemOf(v) # ItemOf(w)

NotYetExtracted == \A w \in Workers : Extracting(w) => claims[ItemOf(w)] = 0

\* A step that leaves the claims alone, and starts no extraction of its own.
LEMMA NotYetMoved ==
    ASSUME TypeInv, NotYetExtracted, NEW w \in Workers, job[w] # Idle, NEW s \in Steps,
           Goto(w, s), s \in {"segment", "ask", "save"} => Extracting(w), claims' = claims
    PROVE  NotYetExtracted'
<1>1. /\ job'[w] = [msg |-> job[w].msg, step |-> s]
      /\ \A v \in Workers \ {w} : job'[v] = job[v]
  BY Moved
<1>2. SUFFICES ASSUME NEW v \in Workers, Extracting(v)' PROVE claims'[ItemOf(v)'] = 0
  BY DEF NotYetExtracted
<1>3. CASE v = w
  BY <1>1, <1>2, <1>3 DEF NotYetExtracted, Extracting, ItemOf
<1>4. CASE v # w
  BY <1>1, <1>2, <1>4 DEF NotYetExtracted, Extracting, ItemOf
<1> QED
  BY <1>3, <1>4

LEMMA NotYetRested ==
    ASSUME TypeInv, NotYetExtracted, NEW w \in Workers, job' = [job EXCEPT ![w] = Idle],
           claims' = claims
    PROVE  NotYetExtracted'
<1>1. job'[w] = Idle /\ \A v \in Workers \ {w} : job'[v] = job[v]
  BY DEF TypeInv, TypeOK
<1> QED
  BY <1>1 DEF NotYetExtracted, Extracting, ItemOf, Idle

LEMMA SavedOnce ==
    ASSUME TypeInv, OneExtraction, NotYetExtracted, ExtractedOnce, NEW w \in Workers,
           NEW someClaims \in BOOLEAN, Save(w, someClaims)
    PROVE  ExtractedOnce' /\ NotYetExtracted'
<1>1. job[w] # Idle /\ ItemOf(w) \in Items /\ Extracting(w) /\ claims[ItemOf(w)] = 0
  BY AtStepBusy, BusyWorker DEF Save, Steps, At, Extracting, NotYetExtracted
<1>2. /\ job'[w] = [msg |-> job[w].msg, step |-> "done"]
      /\ \A v \in Workers \ {w} : job'[v] = job[v]
  BY <1>1, Moved DEF Save, Steps
<1>3. \A i \in Items : i # ItemOf(w) => claims'[i] = claims[i]
  BY <1>1 DEF Save, TypeInv, TypeOK
<1>4. claims'[ItemOf(w)] <= 1
  BY <1>1 DEF Save, TypeInv, TypeOK
<1>5. ExtractedOnce'
  BY <1>3, <1>4 DEF ExtractedOnce
<1>6. ASSUME NEW v \in Workers, Extracting(v)' PROVE claims'[ItemOf(v)'] = 0
  <2>1. v # w
    BY <1>2, <1>6 DEF Extracting
  <2>2. job'[v] = job[v] /\ Extracting(v) /\ ItemOf(v)' = ItemOf(v)
    BY <1>2, <1>6, <2>1 DEF Extracting, ItemOf
  <2>3. job[v] # Idle
    BY <2>2 DEF Extracting, Idle
  <2>4. ItemOf(v) \in Items /\ ItemOf(v) # ItemOf(w)
    BY <1>1, <2>1, <2>2, <2>3, BusyWorker DEF OneExtraction
  <2> QED
    BY <1>3, <2>2, <2>4 DEF NotYetExtracted
<1> QED
  BY <1>5, <1>6 DEF NotYetExtracted

LEMMA WorkExtractsOnce ==
    ASSUME TypeInv, OneExtraction, NotYetExtracted, ExtractedOnce, NEW w \in Workers, Work(w)
    PROVE  ExtractedOnce' /\ NotYetExtracted'
<1>a. claims' = claims => ExtractedOnce'
  BY DEF ExtractedOnce
<1>1. ASSUME NEW v \in Verdicts, Judge(w, v) PROVE ExtractedOnce' /\ NotYetExtracted'
  <2>1. job[w] # Idle /\ claims' = claims
    BY <1>1, AtStepBusy DEF Judge, Steps
  <2>2. AfterScreening(v) \in {"dispatch", "done"}
    BY DEF AfterScreening
  <2>3. NotYetExtracted'
    BY <1>1, <2>1, <2>2, NotYetMoved DEF Judge, Steps
  <2> QED
    BY <1>a, <2>1, <2>3
<1>2. CASE CannotJudge(w)
  <2>1. job[w] # Idle /\ claims' = claims
    BY <1>2, AtStepBusy DEF CannotJudge, Steps, rows
  <2>2. NotYetExtracted'
    BY <1>2, <2>1, NotYetMoved DEF CannotJudge, Steps
  <2> QED
    BY <1>a, <2>1, <2>2
<1>3. CASE DispatchNext(w)
  <2>1. job[w] # Idle /\ claims' = claims
    BY <1>3, AtStepBusy DEF DispatchNext, Steps, rows
  <2>2. NotYetExtracted'
    BY <1>3, <2>1, NotYetMoved DEF DispatchNext, Steps
  <2> QED
    BY <1>a, <2>1, <2>2
<1>4. CASE Transcribe(w)
  <2>1. job[w] # Idle /\ claims' = claims
    BY <1>4, AtStepBusy DEF Transcribe, Steps
  <2>2. NotYetExtracted'
    BY <1>4, <2>1, NotYetMoved DEF Transcribe, Steps
  <2> QED
    BY <1>a, <2>1, <2>2
<1>5. CASE WriteOff(w)
  <2>1. job[w] # Idle /\ claims' = claims
    BY <1>5, AtStepBusy DEF WriteOff, Steps
  <2>2. NotYetExtracted'
    BY <1>5, <2>1, NotYetMoved DEF WriteOff, Steps
  <2> QED
    BY <1>a, <2>1, <2>2
<1>6. CASE Broken(w)
  <2>1. job[w] # Idle /\ claims' = claims
    BY <1>6, AtStepBusy DEF Broken, Steps, rows
  <2>2. NotYetExtracted'
    BY <1>6, <2>1, NotYetMoved DEF Broken, Steps
  <2> QED
    BY <1>a, <2>1, <2>2
<1>7. CASE Compare(w)
  <2>1. job[w] # Idle /\ claims' = claims
    BY <1>7, AtStepBusy DEF Compare, Steps
  <2>2. NotYetExtracted'
    BY <1>7, <2>1, NotYetMoved DEF Compare, Steps
  <2> QED
    BY <1>a, <2>1, <2>2
<1>8. CASE BuildSegments(w)
  <2>1. job[w] # Idle /\ claims' = claims /\ Extracting(w)
    BY <1>8, AtStepBusy DEF BuildSegments, Steps, Extracting, At
  <2>2. NotYetExtracted'
    BY <1>8, <2>1, NotYetMoved DEF BuildSegments, Steps
  <2> QED
    BY <1>a, <2>1, <2>2
<1>9. ASSUME NEW outcome \in Outcomes, Ask(w, outcome) PROVE ExtractedOnce' /\ NotYetExtracted'
  <2>1. job[w] # Idle /\ claims' = claims /\ Extracting(w)
    BY <1>9, AtStepBusy DEF Ask, Steps, Extracting, At
  <2>2. NotYetExtracted'
    BY <1>9, <2>1, NotYetMoved DEF Ask, Steps
  <2> QED
    BY <1>a, <2>1, <2>2
<1>10. ASSUME NEW someClaims \in BOOLEAN, Save(w, someClaims)
       PROVE  ExtractedOnce' /\ NotYetExtracted'
  BY <1>10, SavedOnce
<1>11. CASE Ack(w)
  <2>1. claims' = claims
    BY <1>11 DEF Ack, rows
  <2> QED
    BY <1>11, <1>a, <2>1, NotYetRested DEF Ack
<1>12. CASE Decide(w)
  <2>1. job[w] # Idle /\ claims' = claims
    BY <1>12, AtStepBusy DEF Decide, Steps, rows
  <2>2. NotYetExtracted'
    BY <1>12, <2>1, NotYetMoved DEF Decide, Steps
  <2> QED
    BY <1>a, <2>1, <2>2
<1> QED
  BY <1>1, <1>2, <1>3, <1>4, <1>5, <1>6, <1>7, <1>8, <1>9, <1>10, <1>11, <1>12 DEF Work

LEMMA NextExtractsOnce ==
    TypeInv /\ OneExtraction /\ NotYetExtracted /\ ExtractedOnce /\ [Next]_vars
        => ExtractedOnce' /\ NotYetExtracted'
<1> SUFFICES ASSUME TypeInv, OneExtraction, NotYetExtracted, ExtractedOnce, [Next]_vars
             PROVE  ExtractedOnce' /\ NotYetExtracted'
  OBVIOUS
<1>a. claims' = claims => ExtractedOnce'
  BY DEF ExtractedOnce
<1>b. claims' = claims /\ job' = job => NotYetExtracted'
  BY DEF NotYetExtracted, Extracting, ItemOf
<1>1. ASSUME NEW w \in Workers, NEW m \in Message, Take(w, m)
      PROVE  ExtractedOnce' /\ NotYetExtracted'
  <2>1. claims' = claims
    BY <1>1 DEF Take, rows
  <2>2. job'[w] = [msg |-> m, step |-> FirstStep(m)] /\ \A v \in Workers \ {w} : job'[v] = job[v]
    BY <1>1 DEF Take, TypeInv, TypeOK
  <2>3. FirstStep(m) \in {"segment", "ask", "save"} => claims[m.item] = 0
    <3>1. m.task \in Tasks /\ m.item \in Items
      BY DEF Message
    <3>2. claims[m.item] \in 0 .. 2
      BY <3>1 DEF TypeInv, TypeOK
    <3>3. FirstStep(m) \in {"segment", "ask", "save"} => m.task = "extract"
      BY FirstStepType
    <3>4. m.task = "extract" /\ claims[m.item] > 0 => FirstStep(m) = "done"
      BY DEF FirstStep
    <3> QED
      BY <3>2, <3>3, <3>4
  <2>4. ASSUME NEW v \in Workers, Extracting(v)' PROVE claims'[ItemOf(v)'] = 0
    <3>1. CASE v = w
      BY <2>1, <2>2, <2>3, <2>4, <3>1 DEF Extracting, ItemOf
    <3>2. CASE v # w
      BY <2>1, <2>2, <2>4, <3>2 DEF Extracting, ItemOf, NotYetExtracted
    <3> QED
      BY <3>1, <3>2
  <2> QED
    BY <1>a, <2>1, <2>4 DEF NotYetExtracted
<1>2. ASSUME NEW w \in Workers, Work(w) PROVE ExtractedOnce' /\ NotYetExtracted'
  BY <1>2, WorkExtractsOnce
<1>3. ASSUME NEW w \in Workers, Crash(w) PROVE ExtractedOnce' /\ NotYetExtracted'
  <2>1. claims' = claims
    BY <1>3 DEF Crash, rows
  <2> QED
    BY <1>3, <1>a, <2>1, NotYetRested DEF Crash
<1>4. CASE \E i \in Items, hasText, dispatched \in BOOLEAN : Discover(i, hasText, dispatched)
  BY <1>4, <1>a, <1>b DEF Discover
<1>5. CASE Sweep
  BY <1>5, <1>a, <1>b DEF Sweep, rows
<1>6. CASE \E i \in Items : RetryAnalysis(i)
  BY <1>6, <1>a, <1>b DEF RetryAnalysis, rows
<1>7. CASE UNCHANGED vars
  BY <1>7, <1>a, <1>b DEF vars, rows
<1>8. CASE ScanLoad
  BY <1>8, <1>a, <1>b DEF ScanLoad, rows
<1>9. ASSUME NEW row \in scan, ScanCheck(row) PROVE ExtractedOnce' /\ NotYetExtracted'
  BY <1>9, <1>a, <1>b DEF ScanCheck
<1> QED
  BY <1>1, <1>2, <1>3, <1>4, <1>5, <1>6, <1>7, <1>8, <1>9 DEF Next

(***************************************************************************)
(* "once per item, ever": in behaviours where no two workers are between   *)
(* the read and the save of one item's extraction, no item's claims are    *)
(* saved twice, whatever is delivered again, retried or lost with its      *)
(* worker.  Two workers at one item is all that breaks the promise.        *)
(***************************************************************************)
THEOREM ExtractionIsOnceOneAtATime == Spec /\ []OneExtraction => []ExtractedOnce
<1>1. Init => ExtractedOnce /\ NotYetExtracted
  BY DEF Init, ExtractedOnce, NotYetExtracted, Extracting, Idle
<1> QED
  BY <1>1, InitTypeInv, NextTypeInv, NextExtractsOnce, PTL DEF Spec

(***************************************************************************)
(* The queue drains.  Each delivery, and each task under way, is worth the *)
(* number of steps it can still cause, the messages it sends on included;  *)
(* the sum of them falls with every step a worker takes.                   *)
(***************************************************************************)
TriesLeft(m) == MaxRetries - m.tries

Weight(m) ==
    CASE m.task = "extract" -> 5
      [] m.task = "acquire" -> 11 + 3 * TriesLeft(m)
      [] m.task = "assess"  -> 15 + 3 * MaxRetries

Rest(m, s) ==
    CASE s = "done"     -> 1
      [] s = "save"     -> 2
      [] s = "ask"      -> 3
      [] s = "segment"  -> 4
      [] s = "decide"   -> 8
      [] s = "compare"  -> 9
      [] s = "walk"     -> 10 + 3 * TriesLeft(m)
      [] s = "screen"   -> 14 + 3 * MaxRetries
      [] s = "dispatch" -> IF m.task = "assess" THEN 13 + 3 * MaxRetries ELSE 7

WaitingWorth(q) == [m \in Message |-> q[m] * Weight(m)]
UnderwayWorth(j) == [w \in Workers |-> IF j[w] = Idle THEN 0 ELSE Rest(j[w].msg, j[w].step)]
Owed == SumFunctionOnSet(WaitingWorth(queue), Message)
            + SumFunctionOnSet(UnderwayWorth(job), Workers)

LEMMA MessageIsFinite == IsFiniteSet(Message)
<1> DEFINE P == Tasks \X (Items \X (0 .. MaxRetries))
           f == [p \in P |-> [task |-> p[1], item |-> p[2][1], tries |-> p[2][2]]]
<1>0. IsFiniteSet(1 .. NumItems) /\ IsFiniteSet(0 .. MaxRetries)
  BY PipelineAssumption, FS_Interval
<1>1. IsFiniteSet(Items \X (0 .. MaxRetries))
  BY <1>0, FS_Product DEF Items
<1>2. IsFiniteSet({"assess"}) /\ IsFiniteSet({"acquire"}) /\ IsFiniteSet({"extract"})
  BY FS_Singleton
<1>3. IsFiniteSet({"assess"} \union {"acquire"})
  BY <1>2, FS_Union
<1>4. IsFiniteSet({"assess"} \union {"acquire"} \union {"extract"})
  BY <1>2, <1>3, FS_Union
<1>5. {"assess"} \union {"acquire"} \union {"extract"} = Tasks
  BY DEF Tasks
<1>6. IsFiniteSet(P)
  BY <1>1, <1>4, <1>5, FS_Product
<1>7. ASSUME NEW m \in Message PROVE m \in {f[p] : p \in P}
  <2>1. <<m.task, <<m.item, m.tries>>>> \in P
    BY DEF Message
  <2>2. m = f[<<m.task, <<m.item, m.tries>>>>]
    BY <2>1 DEF Message
  <2> QED
    BY <2>1, <2>2
<1>8. IsFiniteSet({f[p] : p \in P})
  <2> HIDE DEF f, P
  <2> QED
    BY <1>6, ImageIsFinite
<1> QED
  <2> HIDE DEF f, P
  <2> QED
    BY <1>7, <1>8, FS_Subset

LEMMA WeightIsNat == ASSUME NEW m \in Message PROVE Weight(m) \in Nat
<1>1. TriesLeft(m) \in Nat /\ m.task \in Tasks
  BY PipelineAssumption DEF Message, TriesLeft
<1> HIDE DEF TriesLeft
<1> QED
  BY <1>1, PipelineAssumption DEF Weight, Tasks

LEMMA RestIsNat == ASSUME NEW m \in Message, NEW s \in Steps PROVE Rest(m, s) \in Nat
<1>1. TriesLeft(m) \in Nat
  BY PipelineAssumption DEF Message, TriesLeft
<1> HIDE DEF TriesLeft
<1> QED
  BY <1>1, PipelineAssumption DEF Rest, Steps

LEMMA WaitingIsNat ==
    ASSUME NEW q \in [Message -> Nat], NEW m \in Message PROVE WaitingWorth(q)[m] \in Nat
<1>1. q[m] \in Nat /\ Weight(m) \in Nat
  BY WeightIsNat
<1>2. q[m] * Weight(m) \in Nat
  <2> DEFINE a == q[m]  b == Weight(m)
  <2> HIDE DEF a, b
  <2>1. a \in Nat /\ b \in Nat => a * b \in Nat
    OBVIOUS
  <2> QED
    BY <1>1, <2>1 DEF a, b
<1> QED
  BY <1>2 DEF WaitingWorth

LEMMA UnderwayIsNat ==
    ASSUME NEW j \in [Workers -> Job \union {Idle}], NEW w \in Workers
    PROVE  UnderwayWorth(j)[w] \in Nat
<1>1. j[w] # Idle => j[w].msg \in Message /\ j[w].step \in Steps
  BY DEF Job
<1> QED
  BY <1>1, RestIsNat DEF UnderwayWorth

LEMMA OwedIsNat == ASSUME TypeInv, IsFiniteSet(Workers) PROVE Owed \in Nat
<1>1. SumFunctionOnSet(WaitingWorth(queue), Message) \in Nat
  BY WaitingIsNat, MessageIsFinite, SumIsNat DEF TypeInv, TypeOK
<1>2. SumFunctionOnSet(UnderwayWorth(job), Workers) \in Nat
  BY UnderwayIsNat, SumIsNat DEF TypeInv, TypeOK
<1> QED
  BY <1>1, <1>2 DEF Owed

\* What the queue is worth when one delivery more, or one less, waits.
LEMMA QueueWorth ==
    ASSUME NEW q \in [Message -> Nat], NEW r \in [Message -> Nat], NEW m \in Message,
           \A n \in Message : n # m => r[n] = q[n]
    PROVE  LET worth(x) == SumFunctionOnSet(WaitingWorth(x), Message)
           IN  /\ worth(q) \in Nat /\ worth(r) \in Nat
               /\ r[m] = q[m] + 1 => worth(r) = worth(q) + Weight(m)
               /\ q[m] = r[m] + 1 => worth(q) = worth(r) + Weight(m)
<1> DEFINE e == WaitingWorth(q)
           f == WaitingWorth(r)
<1>1. /\ \A n \in Message : e[n] \in Nat /\ f[n] \in Nat
      /\ \A n \in Message \ {m} : f[n] = e[n]
  BY WaitingIsNat DEF WaitingWorth
<1>2. e[m] = q[m] * Weight(m) /\ f[m] = r[m] * Weight(m)
  BY DEF WaitingWorth
<1>3. Weight(m) \in Nat /\ q[m] \in Nat /\ r[m] \in Nat
  BY WeightIsNat
<1>4. \A a, b \in Nat : (a + 1) * b = a * b + b
  OBVIOUS
<1>5. /\ r[m] = q[m] + 1 => f[m] = e[m] + Weight(m)
      /\ q[m] = r[m] + 1 => e[m] = f[m] + Weight(m)
  BY <1>2, <1>3, <1>4
<1> HIDE DEF e, f
<1>6. /\ SumFunctionOnSet(f, Message) = SumFunctionOnSet(e, Message) - e[m] + f[m]
      /\ SumFunctionOnSet(e, Message) \in Nat /\ SumFunctionOnSet(f, Message) \in Nat
  BY <1>1, MessageIsFinite, SumOfChanged, SumIsNat
<1>7. e[m] \in Nat /\ f[m] \in Nat
  BY <1>1
<1>8. /\ r[m] = q[m] + 1 => SumFunctionOnSet(f, Message) = SumFunctionOnSet(e, Message) + Weight(m)
      /\ q[m] = r[m] + 1 => SumFunctionOnSet(e, Message) = SumFunctionOnSet(f, Message) + Weight(m)
  BY <1>3, <1>5, <1>6, <1>7
<1> QED
  BY <1>6, <1>8 DEF e, f

\* What the workers' tasks are worth when one worker moved.
LEMMA TasksWorth ==
    ASSUME IsFiniteSet(Workers), NEW j \in [Workers -> Job \union {Idle}],
           NEW k \in [Workers -> Job \union {Idle}], NEW w \in Workers,
           \A v \in Workers : v # w => k[v] = j[v]
    PROVE  LET worth(x) == SumFunctionOnSet(UnderwayWorth(x), Workers)
           IN  /\ worth(j) \in Nat /\ worth(k) \in Nat
               /\ worth(k) + UnderwayWorth(j)[w] = worth(j) + UnderwayWorth(k)[w]
<1> DEFINE e == UnderwayWorth(j)
           f == UnderwayWorth(k)
<1>1. /\ \A v \in Workers : e[v] \in Nat /\ f[v] \in Nat
      /\ \A v \in Workers \ {w} : f[v] = e[v]
  BY UnderwayIsNat DEF UnderwayWorth
<1> HIDE DEF e, f
<1>2. /\ SumFunctionOnSet(f, Workers) = SumFunctionOnSet(e, Workers) - e[w] + f[w]
      /\ SumFunctionOnSet(e, Workers) \in Nat /\ SumFunctionOnSet(f, Workers) \in Nat
  BY <1>1, SumOfChanged, SumIsNat
<1>3. e[w] \in Nat /\ f[w] \in Nat
  BY <1>1
<1>4. SumFunctionOnSet(f, Workers) + e[w] = SumFunctionOnSet(e, Workers) + f[w]
  BY <1>2, <1>3
<1> QED
  BY <1>2, <1>4 DEF e, f

\* A step that sends nothing owes less when what it leaves of its task does.
LEMMA MovedOwes ==
    ASSUME TypeInv, IsFiniteSet(Workers), NEW w \in Workers, job[w] # Idle,
           NEW s \in Steps, Goto(w, s), queue' = queue,
           Rest(job[w].msg, s) < Rest(job[w].msg, job[w].step)
    PROVE  Owed' < Owed
<1>1. /\ job' \in [Workers -> Job \union {Idle}]
      /\ job'[w] = [msg |-> job[w].msg, step |-> s]
      /\ job'[w] # Idle
      /\ \A v \in Workers \ {w} : job'[v] = job[v]
  BY Moved
<1>2. /\ UnderwayWorth(job)[w] = Rest(job[w].msg, job[w].step)
      /\ UnderwayWorth(job')[w] = Rest(job[w].msg, s)
  BY <1>1 DEF UnderwayWorth
<1>3. job \in [Workers -> Job \union {Idle}] /\ queue \in [Message -> Nat]
  BY DEF TypeInv, TypeOK
<1>4. /\ UnderwayWorth(job)[w] \in Nat /\ UnderwayWorth(job')[w] \in Nat
  BY <1>1, <1>3, UnderwayIsNat
<1>5. /\ SumFunctionOnSet(UnderwayWorth(job), Workers) \in Nat
      /\ SumFunctionOnSet(UnderwayWorth(job'), Workers) \in Nat
      /\ SumFunctionOnSet(UnderwayWorth(job'), Workers) + UnderwayWorth(job)[w]
            = SumFunctionOnSet(UnderwayWorth(job), Workers) + UnderwayWorth(job')[w]
  BY <1>1, <1>3, TasksWorth
<1>6. SumFunctionOnSet(WaitingWorth(queue), Message) \in Nat
  BY <1>3, WaitingIsNat, MessageIsFinite, SumIsNat
<1> QED
  BY <1>2, <1>4, <1>5, <1>6 DEF Owed

\* A step that sends m owes less when m is worth less than what the task loses.
LEMMA SenderOwes ==
    ASSUME TypeInv, IsFiniteSet(Workers), NEW w \in Workers, job[w] # Idle,
           NEW s \in Steps, Goto(w, s), NEW m \in Message, Send(m),
           Rest(job[w].msg, s) + Weight(m) < Rest(job[w].msg, job[w].step)
    PROVE  Owed' < Owed
<1>1. /\ job' \in [Workers -> Job \union {Idle}]
      /\ job'[w] = [msg |-> job[w].msg, step |-> s]
      /\ job'[w] # Idle
      /\ \A v \in Workers \ {w} : job'[v] = job[v]
  BY Moved
<1>2. /\ UnderwayWorth(job)[w] = Rest(job[w].msg, job[w].step)
      /\ UnderwayWorth(job')[w] = Rest(job[w].msg, s)
  BY <1>1 DEF UnderwayWorth
<1>3. job \in [Workers -> Job \union {Idle}] /\ queue \in [Message -> Nat]
  BY DEF TypeInv, TypeOK
<1>4. /\ UnderwayWorth(job)[w] \in Nat /\ UnderwayWorth(job')[w] \in Nat
  BY <1>1, <1>3, UnderwayIsNat
<1>5. /\ SumFunctionOnSet(UnderwayWorth(job), Workers) \in Nat
      /\ SumFunctionOnSet(UnderwayWorth(job'), Workers) \in Nat
      /\ SumFunctionOnSet(UnderwayWorth(job'), Workers) + UnderwayWorth(job)[w]
            = SumFunctionOnSet(UnderwayWorth(job), Workers) + UnderwayWorth(job')[w]
  BY <1>1, <1>3, TasksWorth
<1>6. /\ queue' \in [Message -> Nat] /\ queue'[m] = queue[m] + 1
      /\ \A n \in Message : n # m => queue'[n] = queue[n]
  BY <1>3 DEF Send
<1>7. /\ SumFunctionOnSet(WaitingWorth(queue), Message) \in Nat
      /\ SumFunctionOnSet(WaitingWorth(queue'), Message)
            = SumFunctionOnSet(WaitingWorth(queue), Message) + Weight(m)
  BY <1>3, <1>6, QueueWorth
<1>8. Weight(m) \in Nat
  BY WeightIsNat
<1> QED
  BY <1>2, <1>4, <1>5, <1>7, <1>8 DEF Owed

\* A delivery is worth more than the task that takes it.
LEMMA FirstStepOwes ==
    ASSUME TypeInv, NEW m \in Message
    PROVE  Rest(m, FirstStep(m)) < Weight(m)
<1>1. TriesLeft(m) \in Nat /\ m.task \in Tasks
  BY PipelineAssumption DEF Message, TriesLeft
<1> HIDE DEF TriesLeft
<1>2. CASE m.task = "assess"
  <2>1. FirstStep(m) \in {"screen", "dispatch", "done"}
    BY <1>2 DEF FirstStep, AfterScreening
  <2> QED
    BY <1>2, <2>1, PipelineAssumption DEF Rest, Weight
<1>3. CASE m.task = "acquire"
  <2>1. FirstStep(m) \in {"compare", "decide", "walk"}
    BY <1>3 DEF FirstStep
  <2> QED
    BY <1>1, <1>3, <2>1 DEF Rest, Weight
<1>4. CASE m.task = "extract"
  <2>1. FirstStep(m) \in {"segment", "ask", "done"}
    BY <1>4 DEF FirstStep
  <2> QED
    BY <1>4, <2>1 DEF Rest, Weight
<1> QED
  BY <1>1, <1>2, <1>3, <1>4 DEF Tasks

LEMMA TakeOwes ==
    ASSUME TypeInv, IsFiniteSet(Workers), NEW w \in Workers, NEW m \in Message, Take(w, m)
    PROVE  Owed' < Owed
<1>1. job \in [Workers -> Job \union {Idle}] /\ queue \in [Message -> Nat]
  BY DEF TypeInv, TypeOK
<1> DEFINE j == [msg |-> m, step |-> FirstStep(m)]
<1>2. j \in Job /\ FirstStep(m) \in Steps
  BY FirstStepType DEF Job
<1>3. j # Idle
  <2>1. FirstStep(m) # "idle"
    BY <1>2 DEF Steps
  <2> QED
    BY <2>1 DEF Idle
<1>4. j.msg = m /\ j.step = FirstStep(m)
  OBVIOUS
<1>5. job' = [job EXCEPT ![w] = j] /\ queue' = [queue EXCEPT ![m] = @ - 1]
      /\ job[w] = Idle /\ queue[m] > 0
  BY DEF Take
<1> HIDE DEF j
<1>6. /\ job' \in [Workers -> Job \union {Idle}] /\ job'[w] = j
      /\ \A v \in Workers : v # w => job'[v] = job[v]
  BY <1>1, <1>2, <1>5
<1>7. /\ UnderwayWorth(job)[w] = 0
      /\ UnderwayWorth(job')[w] = Rest(m, FirstStep(m))
  BY <1>3, <1>4, <1>5, <1>6 DEF UnderwayWorth
<1>8. /\ SumFunctionOnSet(UnderwayWorth(job), Workers) \in Nat
      /\ SumFunctionOnSet(UnderwayWorth(job'), Workers) \in Nat
      /\ SumFunctionOnSet(UnderwayWorth(job'), Workers) + UnderwayWorth(job)[w]
            = SumFunctionOnSet(UnderwayWorth(job), Workers) + UnderwayWorth(job')[w]
  BY <1>1, <1>6, TasksWorth
<1>9. /\ queue' \in [Message -> Nat] /\ queue[m] = queue'[m] + 1
      /\ \A n \in Message : n # m => queue'[n] = queue[n]
  BY <1>1, <1>5
<1>10. /\ SumFunctionOnSet(WaitingWorth(queue'), Message) \in Nat
       /\ SumFunctionOnSet(WaitingWorth(queue), Message)
             = SumFunctionOnSet(WaitingWorth(queue'), Message) + Weight(m)
  BY <1>1, <1>9, QueueWorth
<1>11. Weight(m) \in Nat /\ Rest(m, FirstStep(m)) \in Nat
  BY <1>2, WeightIsNat, RestIsNat
<1> QED
  BY <1>7, <1>8, <1>10, <1>11, FirstStepOwes DEF Owed

\* What each step of a task is worth, next to those that may follow it.
LEMMA RestFalls ==
    ASSUME NEW m \in Message
    PROVE  /\ Rest(m, "dispatch") < Rest(m, "screen") /\ Rest(m, "done") < Rest(m, "screen")
           /\ Rest(m, "compare") < Rest(m, "walk") /\ Rest(m, "done") < Rest(m, "walk")
           /\ Rest(m, "decide") < Rest(m, "compare")
           /\ Rest(m, "dispatch") < Rest(m, "decide") \/ m.task = "assess"
           /\ Rest(m, "done") < Rest(m, "decide")
           /\ Rest(m, "ask") < Rest(m, "segment") /\ Rest(m, "done") < Rest(m, "segment")
           /\ Rest(m, "save") < Rest(m, "ask") /\ Rest(m, "done") < Rest(m, "ask")
           /\ Rest(m, "done") < Rest(m, "save")
           /\ Rest(m, "done") = 1
<1>1. TriesLeft(m) \in Nat
  BY PipelineAssumption DEF Message, TriesLeft
<1> HIDE DEF TriesLeft
<1> QED
  BY <1>1, PipelineAssumption DEF Rest

LEMMA WorkOwes ==
    ASSUME TypeInv, IsFiniteSet(Workers), NEW w \in Workers, Work(w)
    PROVE  Owed' < Owed
<1>0. job[w] # Idle => job[w].msg \in Message /\ ItemOf(w) \in Items
  BY BusyWorker
<1>1. ASSUME NEW v \in Verdicts, Judge(w, v) PROVE Owed' < Owed
  <2>1. job[w] # Idle /\ job[w].step = "screen" /\ Goto(w, AfterScreening(v)) /\ queue' = queue
    BY <1>1, AtStepBusy DEF Judge, Steps, At
  <2>2. AfterScreening(v) \in {"dispatch", "done"}
    BY DEF AfterScreening
  <2> QED
    BY <1>0, <2>1, <2>2, RestFalls, MovedOwes DEF Steps
<1>2. CASE CannotJudge(w)
  <2>1. job[w] # Idle /\ job[w].step = "screen" /\ Goto(w, "done") /\ queue' = queue
    BY <1>2, AtStepBusy DEF CannotJudge, Steps, At
  <2> QED
    BY <1>0, <2>1, RestFalls, MovedOwes DEF Steps
<1>3. CASE DispatchNext(w)
  <2> DEFINE t == IF job[w].msg.task = "assess" THEN "acquire" ELSE "extract"
  <2>1. job[w] # Idle /\ job[w].step = "dispatch" /\ Goto(w, "done") /\ Send(Msg(t, ItemOf(w)))
    BY <1>3, AtStepBusy DEF DispatchNext, Steps, At
  <2>2. t \in Tasks /\ Msg(t, ItemOf(w)) \in Message
    BY <1>0, <2>1, MsgType DEF Tasks
  <2>3. Weight(Msg(t, ItemOf(w))) = IF job[w].msg.task = "assess"
                                   THEN 11 + 3 * MaxRetries ELSE 5
    BY PipelineAssumption DEF Weight, Msg, TriesLeft
  <2>4. Rest(job[w].msg, "done") + Weight(Msg(t, ItemOf(w))) < Rest(job[w].msg, "dispatch")
    BY <2>3, PipelineAssumption DEF Rest
  <2> HIDE DEF t
  <2> QED
    BY <1>0, <2>1, <2>2, <2>4, SenderOwes DEF Steps
<1>4. CASE Transcribe(w)
  <2>1. job[w] # Idle /\ job[w].step = "walk" /\ queue' = queue
        /\ (Goto(w, "done") \/ Goto(w, "compare"))
    BY <1>4, AtStepBusy DEF Transcribe, Steps, At
  <2> QED
    BY <1>0, <2>1, RestFalls, MovedOwes DEF Steps
<1>5. CASE WriteOff(w)
  <2>1. job[w] # Idle /\ job[w].step = "walk" /\ Goto(w, "done") /\ queue' = queue
    BY <1>5, AtStepBusy DEF WriteOff, Steps, At
  <2> QED
    BY <1>0, <2>1, RestFalls, MovedOwes DEF Steps
<1>6. CASE Broken(w)
  <2>1. job[w] # Idle /\ job[w].step = "walk" /\ Goto(w, "done")
    BY <1>6, AtStepBusy DEF Broken, Steps, At
  <2>2. CASE job[w].msg.tries < MaxRetries
    <3> DEFINE m == job[w].msg
               n == [m EXCEPT !.tries = @ + 1]
    <3>1. m \in Message /\ m.tries \in 0 .. MaxRetries /\ m.task = "acquire" /\ Send(n)
      BY <1>0, <1>6, <2>1, <2>2 DEF Broken, Message, TypeInv, StepOfTask
    <3>2. n \in Message /\ n.tries = m.tries + 1 /\ n.task = "acquire"
      BY <2>2, <3>1, PipelineAssumption DEF Message
    <3> HIDE DEF m, n
    <3>3. TriesLeft(m) \in Nat /\ TriesLeft(n) = TriesLeft(m) - 1
      BY <2>2, <3>1, <3>2, PipelineAssumption DEF TriesLeft
    <3> HIDE DEF TriesLeft
    <3>4. Rest(m, "done") + Weight(n) < Rest(m, "walk")
      BY <3>2, <3>3 DEF Rest, Weight
    <3> QED
      BY <2>1, <3>1, <3>2, <3>4, SenderOwes DEF m, Steps
  <2>3. CASE ~(job[w].msg.tries < MaxRetries)
    <3>1. queue' = queue
      BY <1>6, <2>3 DEF Broken
    <3> QED
      BY <1>0, <2>1, <3>1, RestFalls, MovedOwes DEF Steps
  <2> QED
    BY <2>2, <2>3
<1>7. CASE Compare(w)
  <2>1. job[w] # Idle /\ job[w].step = "compare" /\ queue' = queue /\ Goto(w, "decide")
    BY <1>7, AtStepBusy DEF Compare, Steps, At
  <2> QED
    BY <1>0, <2>1, RestFalls, MovedOwes DEF Steps
<1>8. CASE BuildSegments(w)
  <2>1. job[w] # Idle /\ job[w].step = "segment" /\ queue' = queue
        /\ (Goto(w, "done") \/ Goto(w, "ask"))
    BY <1>8, AtStepBusy DEF BuildSegments, Steps, At
  <2> QED
    BY <1>0, <2>1, RestFalls, MovedOwes DEF Steps
<1>9. ASSUME NEW outcome \in Outcomes, Ask(w, outcome) PROVE Owed' < Owed
  <2>1. job[w] # Idle /\ job[w].step = "ask" /\ queue' = queue
        /\ (Goto(w, "done") \/ Goto(w, "save"))
    BY <1>9, AtStepBusy DEF Ask, Steps, At
  <2> QED
    BY <1>0, <2>1, RestFalls, MovedOwes DEF Steps
<1>10. ASSUME NEW someClaims \in BOOLEAN, Save(w, someClaims) PROVE Owed' < Owed
  <2>1. job[w] # Idle /\ job[w].step = "save" /\ Goto(w, "done") /\ queue' = queue
    BY <1>10, AtStepBusy DEF Save, Steps, At
  <2> QED
    BY <1>0, <2>1, RestFalls, MovedOwes DEF Steps
<1>11. CASE Ack(w)
  <2>1. job[w] # Idle /\ job[w].step = "done" /\ job' = [job EXCEPT ![w] = Idle] /\ queue' = queue
    BY <1>11, AtStepBusy DEF Ack, Steps, At
  <2>2. job \in [Workers -> Job \union {Idle}] /\ queue \in [Message -> Nat]
    BY DEF TypeInv, TypeOK
  <2>3. /\ job' \in [Workers -> Job \union {Idle}] /\ job'[w] = Idle
        /\ \A v \in Workers : v # w => job'[v] = job[v]
    BY <2>1, <2>2
  <2>4. UnderwayWorth(job)[w] = 1 /\ UnderwayWorth(job')[w] = 0
    BY <1>0, <2>1, <2>3, RestFalls DEF UnderwayWorth
  <2>5. /\ SumFunctionOnSet(UnderwayWorth(job), Workers) \in Nat
        /\ SumFunctionOnSet(UnderwayWorth(job'), Workers) \in Nat
        /\ SumFunctionOnSet(UnderwayWorth(job'), Workers) + UnderwayWorth(job)[w]
              = SumFunctionOnSet(UnderwayWorth(job), Workers) + UnderwayWorth(job')[w]
    BY <2>2, <2>3, TasksWorth
  <2>6. SumFunctionOnSet(WaitingWorth(queue), Message) \in Nat
    BY <2>2, WaitingIsNat, MessageIsFinite, SumIsNat
  <2> QED
    BY <2>1, <2>4, <2>5, <2>6 DEF Owed
<1>12. CASE Decide(w)
  <2>1. job[w] # Idle /\ job[w].step = "decide" /\ queue' = queue
        /\ (Goto(w, "done") \/ Goto(w, "dispatch"))
    BY <1>12, AtStepBusy DEF Decide, Steps, At
  <2>2. job[w].msg.task = "acquire"
    BY <2>1 DEF TypeInv, StepOfTask
  <2> QED
    BY <1>0, <2>1, <2>2, RestFalls, MovedOwes DEF Steps
<1> QED
  BY <1>1, <1>2, <1>3, <1>4, <1>5, <1>6, <1>7, <1>8, <1>9, <1>10, <1>11, <1>12 DEF Work

\* A worker takes a delivery, or a step with the one it holds.
Worked == (\E w \in Workers : Work(w)) \/ (\E w \in Workers, m \in Message : Take(w, m))

(***************************************************************************)
(* The queue drains.  What is owed is a natural number, and every step of  *)
(* a worker makes it smaller: between two arrivals (a new item, a sweep, a *)
(* click, a lost worker) the workers take no more steps than were owed,    *)
(* retries and dispatched legs included, and nothing circles.              *)
(***************************************************************************)
THEOREM QueueDrains ==
    ASSUME IsFiniteSet(Workers)
    PROVE  Spec => [](Owed \in Nat) /\ [][Worked => Owed' < Owed]_vars
<1>1. TypeInv => Owed \in Nat
  BY OwedIsNat
<1>2. TypeInv /\ [Next]_vars => [Worked => Owed' < Owed]_vars
  BY WorkOwes, TakeOwes DEF Worked
<1> QED
  BY <1>1, <1>2, InitTypeInv, NextTypeInv, PTL DEF Spec

=============================================================================
