--------------------------- MODULE ChatQueueProofs ---------------------------
(***************************************************************************)
(* The queue of online chat, for any number of agents, conversations, tasks *)
(* and requests.  IInv says what a request knows of the rows and the hash    *)
(* while it is under way; the theorems of ChatQueue rest on it.             *)
(***************************************************************************)
EXTENDS ChatQueue, TLAPS, FiniteSetTheorems

\* Who is active is with an agent, and who is not yet served has none.
ConvInv ==
  \A c \in Convs :
    /\ conv[c].status \in {"none", "queued"} => conv[c].agent = NoAgent
    /\ conv[c].status = "active" => conv[c].agent \in Agents

\* A visitor's request creates the row, and counts the agent it has chosen.
EntryInv ==
  \A c \in Convs :
    /\ entry[c].pc \in {"out", "selected"} <=> conv[c].status = "none"
    /\ entry[c].pc = "counting" =>
         /\ entry[c].agent \in Agents
         /\ conv[c].status \in {"active", "closed"}

\* A task is of a conversation that exists, and one that is being assigned or
\* was, of a conversation that no longer waits.
Given == {"assigning", "assigned"}
Past == {"active", "closed"}
TaskInv ==
  \A t \in Tasks :
    /\ task[t] # "none" => conv[ConvOf[t]].status # "none"
    /\ task[t] \in Given => conv[ConvOf[t]].status \in Past

\* Which fields a request of the staff or a scheduler has filled in, by its place.
WithTask == {"locked", "reserved", "dispatching", "dispatched", "chosen", "given", "settling"}
WithAgent == JobStates \ {"idle", "ending", "moved", "dispatching"}
WithTarget == {"moving", "ended", "clamping", "moved", "filling", "listing", "enqueuing",
               "inserting", "pulling", "locked", "reserved", "given"}

FieldsFit(r) ==
  /\ IF r.pc \in WithTask THEN r.task \in Tasks ELSE r.task = NoTask
  /\ r.pc \in WithAgent => r.agent \in Agents
  /\ r.pc \in {"ending", "moving", "inserting"} => r.conv \in Convs
  /\ r.pc \in {"moving", "moved"} => r.target \in Agents
  /\ r.pc = "chosen" => ByHand(r)
  /\ r.target # NoAgent => r.pc \in WithTarget

\* What it has locked is still queued, unless a page has read it before; what it
\* has given, or ends, has been served; what it has listed exists.
FitsIn(r, convs, tasks) ==
  /\ FieldsFit(r)
  /\ r.pc \in WithTask => tasks[r.task] # "none"
  /\ r.pc \in Locking /\ ~ByHand(r) => tasks[r.task] = "queued"
  /\ r.pc \in {"given", "settling"} => convs[ConvOf[r.task]].status \in Past
  /\ r.pc = "ending" => convs[r.conv].agent \in Agents
  /\ \A c \in r.todo : convs[c].status # "none"
  /\ r.pc = "inserting" => convs[r.conv].status # "none"

JobFits(r) == FitsIn(r, conv, task)

JobInv == \A j \in Jobs : JobFits(job[j])

\* A row is locked by one transaction.
LockInv ==
  \A i \in Jobs, j \in Jobs :
    job[i].task = job[j].task /\ job[i].pc \in Locking /\ job[j].pc \in Locking => i = j

IInv == TypeOK /\ ConvInv /\ EntryInv /\ TaskInv /\ JobInv /\ LockInv

\* The initial states satisfy it.
LEMMA InitIInv == Init => IInv
<1> SUFFICES ASSUME Init PROVE IInv
  OBVIOUS
<1> USE DEF Init
<1>1. TypeOK
  BY DEF TypeOK, NoRequest, Idle, JobType, JobStates, EntryStates, RowStates, ConvStates,
         TaskStates, AgentOrNone
<1>2. ConvInv /\ EntryInv /\ TaskInv /\ JobInv /\ LockInv
  BY TasksAssumption DEF ConvInv, EntryInv, TaskInv, JobInv, JobFits, FitsIn, FieldsFit, LockInv, NoRequest, Idle, WithTask, WithAgent, Locking, Given
<1> QED BY <1>1, <1>2 DEF IInv

-----------------------------------------------------------------------------

\* What a step does to the rows: a conversation does not go back, and is not
\* without an agent again; a row that was made stays, and a task is given only
\* when its conversation is.
ConvsGrow ==
  \A d \in Convs : /\ conv[d].agent \in Agents => conv'[d].agent \in Agents
                   /\ conv[d].status # "none" => conv'[d].status # "none"
                   /\ conv[d].status \in Past => conv'[d].status \in Past
TasksGrow ==
  \A t \in Tasks :
    /\ task[t] # "none" => task'[t] # "none"
    /\ task'[t] # "none" => task[t] # "none" \/ conv'[ConvOf[t]].status # "none"
    /\ task'[t] \in Given => task[t] \in Given \/ conv'[ConvOf[t]].status \in Past

LEMMA RowsGrow ==
  ASSUME TaskInv, ConvsGrow, TasksGrow
  PROVE  TaskInv'
BY TasksAssumption DEF TaskInv, ConvsGrow, TasksGrow

\* What is known of a job stays known, if its lock is respected.
LEMMA FitsOn ==
  ASSUME TypeOK, ConvsGrow, TasksGrow, NEW r \in JobType, JobFits(r),
         r.pc \in Locking => task'[r.task] = task[r.task]
  PROVE  FitsIn(r, conv', task')
<1>1. /\ r.pc \in WithTask => r.task \in Tasks /\ ConvOf[r.task] \in Convs
      /\ r.pc \in {"ending", "inserting"} => r.conv \in Convs
      /\ r.todo \subseteq Convs
  BY TasksAssumption DEF JobFits, FitsIn, FieldsFit, JobType
<1>2. Locking \subseteq WithTask /\ {"given", "settling"} \subseteq WithTask
  BY DEF WithTask, Locking
<1> QED BY <1>1, <1>2 DEF JobFits, FitsIn, ConvsGrow, TasksGrow

\* A step that is none of a job's keeps what is known of the jobs, if it leaves
\* the tasks alone that are locked.
LEMMA JobStays ==
  ASSUME IInv, UNCHANGED job, ConvsGrow, TasksGrow,
         \A t \in Tasks : Locked(t) => task'[t] = task[t]
  PROVE  TaskInv' /\ JobInv' /\ LockInv'
<1>1. JobInv'
  <2> SUFFICES ASSUME NEW i \in Jobs PROVE FitsIn(job[i], conv', task')
    BY DEF JobInv, JobFits
  <2>1. TypeOK /\ job[i] \in JobType /\ JobFits(job[i])
    BY DEF IInv, JobInv, TypeOK
  <2>2. job[i].pc \in Locking => task'[job[i].task] = task[job[i].task]
    <3> SUFFICES ASSUME job[i].pc \in Locking PROVE task'[job[i].task] = task[job[i].task]
      OBVIOUS
    <3>1. job[i].task \in Tasks
      BY <2>1 DEF JobFits, FitsIn, FieldsFit, WithTask, Locking
    <3>2. Locked(job[i].task)
      BY DEF Locked
    <3> QED BY <3>1, <3>2
  <2> QED BY <2>1, <2>2, FitsOn
<1>2. LockInv'
  BY DEF IInv, LockInv
<1>3. TaskInv'
  BY RowsGrow DEF IInv
<1> QED BY <1>1, <1>2, <1>3

\* A visitor's requests keep the invariant.
LEMMA EntryKeepsIInv ==
  ASSUME IInv, NEW c \in Convs, EntryNext(c)
  PROVE  IInv'
<1> USE AgentsAssumption, TasksAssumption
<1> USE DEF TypeOK, ConvInv, EntryInv, AgentOrNone, EntryStates, RowStates, ConvStates, TaskStates
<1>s. UNCHANGED <<conv, task>> => ConvsGrow /\ TasksGrow
  BY DEF ConvsGrow, TasksGrow
<1>1. CASE SelectAgent(c)
  <2>1. PICK a \in AgentOrNone :
          entry' = [entry EXCEPT ![c] = [@ EXCEPT !.pc = "selected", !.agent = a]]
    BY <1>1 DEF SelectAgent
  <2>2. /\ entry[c] \in [pc : EntryStates, agent : AgentOrNone, row : RowStates]
        /\ conv[c].status = "none"
    BY <1>1 DEF IInv, SelectAgent
  <2>3. entry' \in [Convs -> [pc : EntryStates, agent : AgentOrNone, row : RowStates]]
    BY <2>1, <2>2 DEF IInv
  <2>4. entry'[c].pc = "selected" /\ \A d \in Convs \ {c} : entry'[d] = entry[d]
    BY <2>1, <2>2 DEF IInv
  <2>5. TypeOK' /\ ConvInv' /\ EntryInv'
    BY <1>1, <2>2, <2>3, <2>4 DEF IInv, SelectAgent
  <2>6. TaskInv' /\ JobInv' /\ LockInv'
    BY <1>1, <1>s, JobStays DEF SelectAgent
  <2> QED BY <2>5, <2>6 DEF IInv
<1>2. CASE CreateConversation(c)
  <2>a. /\ entry' \in [Convs -> [pc : EntryStates, agent : AgentOrNone, row : RowStates]]
        /\ entry'[c].pc = (IF entry[c].agent = NoAgent THEN "enqueuing" ELSE "counting")
        /\ entry'[c].agent = entry[c].agent
        /\ \A d \in Convs \ {c} : entry'[d] = entry[d]
    <3> HIDE DEF ConvInv, EntryInv
    <3> QED BY <1>2 DEF IInv, CreateConversation, EntryStep
  <2>b. /\ conv' \in [Convs -> [status : ConvStates, agent : AgentOrNone]]
        /\ conv'[c].status = (IF entry[c].agent = NoAgent THEN "queued" ELSE "active")
        /\ conv'[c].agent = entry[c].agent
        /\ \A d \in Convs \ {c} : conv'[d] = conv[d]
    <3> HIDE DEF ConvInv, EntryInv
    <3> QED BY <1>2 DEF IInv, CreateConversation
  <2>c. entry[c].agent = NoAgent \/ entry[c].agent \in Agents
    BY DEF IInv
  <2>1. TypeOK' /\ ConvInv' /\ EntryInv'
    BY <1>2, <2>a, <2>b, <2>c DEF IInv, CreateConversation
  <2>2. ConvsGrow /\ TasksGrow
    <3>1. conv[c].status = "none" /\ conv[c].agent \notin Agents
      BY <1>2 DEF IInv, CreateConversation, EntryStep
    <3> QED BY <1>2, <2>b, <3>1 DEF CreateConversation, ConvsGrow, TasksGrow, Past
  <2>3. TaskInv' /\ JobInv' /\ LockInv'
    BY <1>2, <2>2, JobStays DEF CreateConversation
  <2> QED BY <2>1, <2>3 DEF IInv
<1>3. CASE CountSelected(c)
  <2>1. TypeOK' /\ ConvInv' /\ EntryInv'
    BY <1>3 DEF IInv, CountSelected, EntryStep, NoRequest
  <2>2. TaskInv' /\ JobInv' /\ LockInv'
    BY <1>3, <1>s, JobStays DEF CountSelected
  <2> QED BY <2>1, <2>2 DEF IInv
<1>4. CASE Reenter(c)
  <2>1. PICK row \in RowStates : entry' = [entry EXCEPT ![c] = [@ EXCEPT !.pc = "enqueuing", !.row = row]]
    BY <1>4 DEF Reenter
  <2>2. entry[c] \in [pc : EntryStates, agent : AgentOrNone, row : RowStates]
    BY DEF IInv
  <2>3. entry' \in [Convs -> [pc : EntryStates, agent : AgentOrNone, row : RowStates]]
    BY <2>1, <2>2 DEF IInv
  <2>4. entry'[c].pc = "enqueuing" /\ \A d \in Convs \ {c} : entry'[d] = entry[d]
    BY <2>1, <2>2 DEF IInv
  <2>5. TypeOK' /\ ConvInv' /\ EntryInv'
    BY <1>4, <2>3, <2>4 DEF IInv, Reenter, Waiting
  <2>6. TaskInv' /\ JobInv' /\ LockInv'
    BY <1>4, <1>s, JobStays DEF Reenter
  <2> QED BY <2>5, <2>6 DEF IInv
<1>5. CASE CheckDuplicate(c)
  <2>1. TypeOK' /\ ConvInv' /\ EntryInv'
    BY <1>5 DEF IInv, CheckDuplicate, EntryStep, NoRequest
  <2>2. TaskInv' /\ JobInv' /\ LockInv'
    BY <1>5, <1>s, JobStays DEF CheckDuplicate
  <2> QED BY <2>1, <2>2 DEF IInv
<1>6. CASE InsertTask(c)
  <2>1. /\ entry' \in [Convs -> [pc : EntryStates, agent : AgentOrNone, row : RowStates]]
        /\ entry[c].pc = "inserting" /\ entry'[c].pc = "done"
        /\ \A d \in Convs \ {c} : entry'[d] = entry[d]
        /\ UNCHANGED <<conv, online, count, job, requests, spoiled>>
    BY <1>6 DEF IInv, InsertTask, EntryStep, NoRequest
  <2>2. PICK t \in Tasks : /\ ConvOf[t] = c /\ task[t] = "none"
                           /\ task' = [task EXCEPT ![t] = "queued"]
    BY <1>6 DEF InsertTask, Enqueue
  <2>3. conv[c].status # "none"
    BY <2>1 DEF IInv
  <2>4. ~Locked(t)
    BY <2>2 DEF IInv, JobInv, JobFits, FitsIn, FieldsFit, WithTask, Locked
  <2>5. TypeOK' /\ ConvInv' /\ EntryInv'
    BY <2>1, <2>2 DEF IInv
  <2>6. ConvsGrow /\ TasksGrow
    BY <2>1, <2>2, <2>3 DEF IInv, ConvsGrow, TasksGrow, Given
  <2>7. \A u \in Tasks : Locked(u) => task'[u] = task[u]
    BY <2>2, <2>4 DEF IInv
  <2>8. TaskInv' /\ JobInv' /\ LockInv'
    BY <2>1, <2>6, <2>7, JobStays
  <2> QED BY <2>5, <2>8 DEF IInv
<1>7. CASE RefuseTask(c)
  <2>1. TypeOK' /\ ConvInv' /\ EntryInv'
    BY <1>7 DEF IInv, RefuseTask, EntryStep, NoRequest
  <2>2. TaskInv' /\ JobInv' /\ LockInv'
    BY <1>7, <1>s, JobStays DEF RefuseTask
  <2> QED BY <2>1, <2>2 DEF IInv
<1>8. CASE AskToLeave(c)
  <2>1. /\ entry' \in [Convs -> [pc : EntryStates, agent : AgentOrNone, row : RowStates]]
        /\ entry'[c].pc = "leaving"
        /\ \A d \in Convs \ {c} : entry'[d] = entry[d]
    <3>1. entry' = [entry EXCEPT ![c].pc = "leaving"]
      BY <1>8 DEF AskToLeave
    <3>2. /\ entry \in [Convs -> [pc : EntryStates, agent : AgentOrNone, row : RowStates]]
          /\ "leaving" \in EntryStates
      BY DEF IInv, TypeOK, EntryStates
    <3> HIDE DEF ConvInv, EntryInv, TypeOK, EntryStates, RowStates, AgentOrNone
    <3> QED BY <3>1, <3>2
  <2>2. TypeOK' /\ ConvInv' /\ EntryInv'
    BY <1>8, <2>1 DEF IInv, AskToLeave
  <2>3. TaskInv' /\ JobInv' /\ LockInv'
    BY <1>8, <1>s, JobStays DEF AskToLeave
  <2> QED BY <2>2, <2>3 DEF IInv
<1>9. CASE LeaveQueue(c)
  <2>1. /\ entry' \in [Convs -> [pc : EntryStates, agent : AgentOrNone, row : RowStates]]
        /\ entry'[c].pc \in {"done", "refused"}
        /\ \A d \in Convs \ {c} : entry'[d] = entry[d]
        /\ entry[c].pc = "leaving"
    BY <1>9 DEF IInv, LeaveQueue, EntryStep, NoRequest
  <2>2. /\ task' \in [Tasks -> TaskStates]
        /\ \A t \in Tasks : task'[t] # task[t] =>
             ~Locked(t) /\ task[t] # "none" /\ task'[t] = "canceled"
    BY <1>9 DEF IInv, LeaveQueue, OpenTasks, Open
  <2>3. /\ conv' = conv \/ Close(c)
        /\ spoiled' = spoiled \/ spoiled' = spoiled \cup Robbed(c)
        /\ UNCHANGED <<online, count, job, requests>>
    BY <1>9 DEF LeaveQueue
  <2>4. Robbed(c) \in SUBSET Agents
    BY DEF IInv, Robbed
  <2>5. /\ conv' \in [Convs -> [status : ConvStates, agent : AgentOrNone]]
        /\ conv'[c] = conv[c] \/ (conv'[c].status = "closed" /\ conv'[c].agent = conv[c].agent)
        /\ \A d \in Convs \ {c} : conv'[d] = conv[d]
    <3> HIDE DEF EntryStates, RowStates, TaskStates
    <3>1. CASE conv' = conv
      BY <3>1 DEF IInv
    <3>2. CASE Close(c)
      BY <3>2 DEF IInv, Close
    <3> QED BY <2>3, <3>1, <3>2
  <2> HIDE DEF EntryStates, RowStates, TaskStates, ConvStates
  <2>6. TypeOK'
    BY <2>1, <2>2, <2>3, <2>4, <2>5 DEF IInv
  <2>7. ConvInv'
    <3> SUFFICES ASSUME NEW d \in Convs
                 PROVE  /\ conv'[d].status \in {"none", "queued"} => conv'[d].agent = NoAgent
                        /\ conv'[d].status = "active" => conv'[d].agent \in Agents
      BY DEF ConvInv
    <3>1. CASE d = c
      BY <2>5, <3>1 DEF IInv
    <3>2. CASE d # c
      BY <2>5, <3>2 DEF IInv
    <3> QED BY <3>1, <3>2
  <2>8. EntryInv'
    <3> SUFFICES ASSUME NEW d \in Convs
                 PROVE  /\ entry'[d].pc \in {"out", "selected"} <=> conv'[d].status = "none"
                        /\ entry'[d].pc = "counting" =>
                             /\ entry'[d].agent \in Agents
                             /\ conv'[d].status \in {"active", "closed"}
      BY DEF EntryInv
    <3>1. CASE d = c
      <4>1. conv[c].status # "none"
        BY <2>1 DEF IInv
      <4> QED BY <2>1, <2>5, <3>1, <4>1
    <3>2. CASE d # c
      BY <2>1, <2>5, <3>2 DEF IInv
    <3> QED BY <3>1, <3>2
  <2>9. ConvsGrow
    <3> SUFFICES ASSUME NEW d \in Convs
                 PROVE  /\ conv[d].agent \in Agents => conv'[d].agent \in Agents
                        /\ conv[d].status # "none" => conv'[d].status # "none"
                        /\ conv[d].status \in Past => conv'[d].status \in Past
      BY DEF ConvsGrow
    <3>1. CASE d = c
      BY <2>5, <3>1 DEF Past
    <3>2. CASE d # c
      BY <2>5, <3>2
    <3> QED BY <3>1, <3>2
  <2>10. TasksGrow /\ \A t \in Tasks : Locked(t) => task'[t] = task[t]
    BY <2>2 DEF TasksGrow, Given
  <2>11. TaskInv' /\ JobInv' /\ LockInv'
    BY <2>3, <2>9, <2>10, JobStays
  <2> QED BY <2>6, <2>7, <2>8, <2>11 DEF IInv
<1> QED BY <1>1, <1>2, <1>3, <1>4, <1>5, <1>6, <1>7, <1>8, <1>9 DEF EntryNext

-----------------------------------------------------------------------------

\* A step of one request keeps what is known of the others, if it leaves the
\* tasks alone that they have locked.
LEMMA JobStep ==
  ASSUME IInv, NEW j \in Jobs, NEW r \in JobType, Becomes(j, r), FitsIn(r, conv', task'),
         ConvsGrow, TasksGrow,
         \A i \in Jobs \ {j} :
           /\ (job[i].pc \in Locking => task'[job[i].task] = task[job[i].task])
           /\ (job[i].pc \in Locking /\ r.pc \in Locking => r.task # job[i].task)
  PROVE  job' \in [Jobs -> JobType] /\ TaskInv' /\ JobInv' /\ LockInv'
<1>0. /\ job' \in [Jobs -> JobType] /\ job'[j] = r
      /\ \A i \in Jobs \ {j} : job'[i] = job[i]
  BY DEF IInv, TypeOK, Becomes
<1>1. JobInv'
  <2> SUFFICES ASSUME NEW i \in Jobs PROVE FitsIn(job'[i], conv', task')
    BY DEF JobInv, JobFits
  <2>1. CASE i = j
    BY <1>0, <2>1
  <2>2. CASE i # j
    <3>1. TypeOK /\ job[i] \in JobType /\ JobFits(job[i]) /\ job'[i] = job[i]
      BY <1>0, <2>2 DEF IInv, JobInv, TypeOK
    <3>2. job[i].pc \in Locking => task'[job[i].task] = task[job[i].task]
      BY <2>2
    <3> QED BY <3>1, <3>2, FitsOn
  <2> QED BY <2>1, <2>2
<1>2. LockInv'
  <2> SUFFICES ASSUME NEW i \in Jobs, NEW k \in Jobs, i # k,
                      job'[i].pc \in Locking, job'[k].pc \in Locking
               PROVE  job'[i].task # job'[k].task
    BY DEF LockInv
  <2>1. CASE i = j
    BY <1>0, <2>1
  <2>2. CASE k = j
    BY <1>0, <2>2
  <2>3. CASE i # j /\ k # j
    BY <1>0, <2>3 DEF IInv, LockInv
  <2> QED BY <2>1, <2>2, <2>3
<1>3. TaskInv'
  BY RowsGrow DEF IInv
<1> QED BY <1>0, <1>1, <1>2, <1>3

\* A job that is over, or begins, fits with nothing filled in.
LEMMA IdleFits ==
  /\ Idle \in JobType /\ FieldsFit(Idle)
  /\ Idle.pc = "idle" /\ Idle.agent = NoAgent /\ Idle.task = NoTask /\ Idle.target = NoAgent
  /\ Idle.todo = {}
<1>1. /\ Idle \in JobType
      /\ Idle.pc = "idle" /\ Idle.agent = NoAgent /\ Idle.task = NoTask /\ Idle.target = NoAgent
      /\ Idle.todo = {}
  BY DEF Idle, JobType, JobStates, AgentOrNone
<1> QED BY <1>1 DEF FieldsFit, WithTask, WithAgent, Locking

\* A step of a job that leaves the rows and the visitors' requests alone.
LEMMA JobOnly ==
  ASSUME IInv, NEW j \in Jobs, NEW r \in JobType, Becomes(j, r), FieldsFit(r),
         UNCHANGED <<conv, task, entry>>,
         online' \in [Agents -> BOOLEAN], count' \in [Agents -> Int],
         requests' \in Nat, spoiled' \in SUBSET Agents,
         r.task # NoTask =>
           /\ task[r.task] # "none" /\ r.pc \notin {"given", "settling"}
           /\ r.pc \in Locking =>
                /\ ByHand(r) \/ task[r.task] = "queued"
                /\ ~Locked(r.task) \/ (job[j].pc \in Locking /\ r.task = job[j].task),
         r.pc = "ending" => conv[r.conv].agent \in Agents,
         \A d \in r.todo : conv[d].status # "none",
         r.pc = "inserting" => conv[r.conv].status # "none"
  PROVE  IInv'
<1>1. r.pc \in WithTask => r.task \in Tasks /\ r.task # NoTask
  BY TasksAssumption DEF FieldsFit
<1>2. Locking \subseteq WithTask /\ {"given", "settling"} \subseteq WithTask
  BY DEF WithTask, Locking
<1>3. \A i \in Jobs \ {j} :
        /\ (job[i].pc \in Locking => task'[job[i].task] = task[job[i].task])
        /\ (job[i].pc \in Locking /\ r.pc \in Locking => r.task # job[i].task)
  BY <1>1, <1>2 DEF IInv, LockInv, Locked
<1>4. FitsIn(r, conv', task')
  BY <1>1, <1>2 DEF JobFits, FitsIn
<1>5. ConvsGrow /\ TasksGrow
  BY DEF ConvsGrow, TasksGrow
<1>6. job' \in [Jobs -> JobType] /\ TaskInv' /\ JobInv' /\ LockInv'
  BY <1>3, <1>4, <1>5, JobStep
<1>7. TypeOK' /\ ConvInv' /\ EntryInv'
  BY <1>6 DEF IInv, TypeOK, ConvInv, EntryInv
<1> QED BY <1>6, <1>7 DEF IInv

\* The requests that end and transfer conversations keep the invariant.
LEMMA CloserKeepsIInv ==
  ASSUME IInv, NEW j \in Jobs, CloserNext(j)
  PROVE  IInv'
<1> USE AgentsAssumption, TasksAssumption, LimitAssumption
<1> USE DEF AgentOrNone
<1>0. /\ TypeOK /\ ConvInv /\ EntryInv /\ JobFits(job[j])
      /\ job[j] \in JobType /\ \A d \in job[j].todo : conv[d].status # "none"
  BY DEF IInv, JobInv, JobFits, FitsIn, TypeOK
<1>p. {"ended", "moving", "ending", "filling", "clamping"} \subseteq JobStates
  BY DEF JobStates
<1>1. CASE EndConversation(j)
  <2> DEFINE c == job[j].conv
             r == [Idle EXCEPT !.pc = "ended", !.agent = conv[c].agent]
  <2>1. c \in Convs /\ conv[c].agent \in Agents
    BY <1>0, <1>1 DEF EndConversation, JobFits, FitsIn, FieldsFit
  <2>2. /\ r \in JobType /\ r.pc = "ended" /\ r.task = NoTask
        /\ r.agent \in Agents /\ r.target = NoAgent /\ r.todo = {}
    BY <2>1, IdleFits, <1>p DEF JobType
  <2>a. FieldsFit(r)
    <3> HIDE DEF r
    <3> QED BY <2>2 DEF FieldsFit, WithTask
  <2>3. Becomes(j, r) /\ UNCHANGED <<task, online, count, entry, requests>>
    BY <1>1 DEF EndConversation
  <2>4. /\ conv' \in [Convs -> [status : ConvStates, agent : AgentOrNone]]
        /\ conv'[c].status = "closed" /\ conv'[c].agent = conv[c].agent
        /\ \A d \in Convs \ {c} : conv'[d] = conv[d]
    BY <1>0, <1>1, <2>1 DEF EndConversation, Close, TypeOK, ConvStates
  <2>5. spoiled' \in SUBSET Agents
    BY <1>0, <1>1, <2>1 DEF EndConversation, TypeOK
  <2> HIDE DEF r
  <2>b. ConvsGrow /\ TasksGrow /\ FitsIn(r, conv', task')
    <3>1. ConvsGrow /\ TasksGrow
      BY <2>1, <2>3, <2>4 DEF ConvsGrow, TasksGrow, Past
    <3>2. FitsIn(r, conv', task')
      BY <2>2, <2>a DEF JobFits, FitsIn, WithTask, Locking
    <3> QED BY <3>1, <3>2
  <2>6. job' \in [Jobs -> JobType] /\ TaskInv' /\ JobInv' /\ LockInv'
    BY <2>2, <2>3, <2>b, JobStep DEF Locking
  <2>7. TypeOK'
    BY <1>0, <2>3, <2>4, <2>5, <2>6 DEF TypeOK
  <2>8. ConvInv' /\ EntryInv'
    BY <1>0, <2>1, <2>3, <2>4 DEF ConvInv, EntryInv
  <2> QED BY <2>6, <2>7, <2>8 DEF IInv
<1>2. CASE TransferConversation(j)
  <2> DEFINE c == job[j].conv
             r == [job[j] EXCEPT !.pc = "ended", !.conv = NoConv]
  <2>1. CASE ~Served(c, job[j].agent)
    <3>1. Becomes(j, Idle) /\ UNCHANGED <<conv, task, online, count, entry, requests, spoiled>>
      BY <1>2, <2>1 DEF TransferConversation, End
    <3> QED BY <1>0, <3>1, IdleFits, JobOnly DEF TypeOK
  <2>2. CASE Served(c, job[j].agent)
    <3>1. c \in Convs /\ job[j].target \in Agents /\ job[j].agent \in Agents
      BY <1>0, <1>2 DEF TransferConversation, JobFits, FitsIn, FieldsFit, WithAgent, JobStates
    <3>2. /\ r \in JobType /\ r.pc = "ended" /\ r.task = job[j].task /\ r.conv = NoConv
          /\ r.agent = job[j].agent /\ r.target = job[j].target /\ r.todo = job[j].todo
      BY <1>0, <1>p DEF JobType
    <3>3. job[j].task = NoTask
      BY <1>0, <1>2 DEF TransferConversation, JobFits, FitsIn, FieldsFit, WithTask
    <3>4. FieldsFit(r)
      <4> HIDE DEF r
      <4> QED BY <3>1, <3>2, <3>3 DEF FieldsFit, WithTask, WithTarget
    <3>5. Becomes(j, r) /\ UNCHANGED <<task, online, count, entry, requests, spoiled>>
      BY <1>2, <2>2 DEF TransferConversation
    <3>6. /\ conv' \in [Convs -> [status : ConvStates, agent : AgentOrNone]]
          /\ conv'[c].status = "active" /\ conv'[c].agent \in Agents
          /\ \A d \in Convs \ {c} : conv'[d] = conv[d]
      <4>1. conv[c] \in [status : ConvStates, agent : AgentOrNone] /\ conv[c].status = "active"
        BY <1>0, <2>2, <3>1 DEF TypeOK, Served
      <4>2. conv' = [conv EXCEPT ![c].agent = job[j].target]
        BY <1>2, <2>2 DEF TransferConversation
      <4>3. conv \in [Convs -> [status : ConvStates, agent : AgentOrNone]]
        BY <1>0 DEF TypeOK
      <4> HIDE DEF c
      <4> QED BY <3>1, <4>1, <4>2, <4>3
    <3>b. \A d \in job[j].todo : d \in Convs /\ conv'[d].status # "none"
      BY <1>0, <3>6 DEF JobType
    <3> HIDE DEF r
    <3>7. job' \in [Jobs -> JobType] /\ TaskInv' /\ JobInv' /\ LockInv'
      <4>1. ConvsGrow /\ TasksGrow
        <5>1. conv[c].status = "active"
          BY <2>2 DEF Served
        <5> QED BY <3>1, <3>5, <3>6, <5>1 DEF ConvsGrow, TasksGrow, Past
      <4>2. FitsIn(r, conv', task')
        BY <3>2, <3>4, <3>b DEF JobFits, FitsIn, WithTask, Locking
      <4> QED BY <3>2, <3>5, <4>1, <4>2, JobStep DEF Locking
    <3>8. TypeOK'
      BY <1>0, <3>5, <3>6, <3>7 DEF TypeOK
    <3>9. ConvInv' /\ EntryInv'
      BY <1>0, <2>2, <3>1, <3>5, <3>6 DEF ConvInv, EntryInv, Served
    <3> QED BY <3>7, <3>8, <3>9 DEF IInv
  <2> QED BY <2>1, <2>2
<1>3. CASE DecrementCount(j)
  <2> DEFINE pc == IF count[job[j].agent] - 1 < 0 THEN "clamping" ELSE "filling"
             r == [job[j] EXCEPT !.pc = pc]
  <2>1. /\ r \in JobType /\ r.pc \in {"clamping", "filling"} /\ r.task = job[j].task
        /\ r.agent = job[j].agent /\ r.target = job[j].target /\ r.todo = job[j].todo
    BY <1>0, <1>p DEF JobType
  <2>2. job[j].task = NoTask /\ job[j].agent \in Agents
    BY <1>0, <1>3 DEF DecrementCount, JobFits, FitsIn, FieldsFit, WithTask, WithAgent, JobStates
  <2>3. Becomes(j, r) /\ UNCHANGED <<conv, task, online, entry, requests, spoiled>>
    BY <1>3 DEF DecrementCount, Step
  <2>4. count' \in [Agents -> Int]
    BY <1>0, <1>3, <2>2 DEF DecrementCount, TypeOK
  <2> HIDE DEF r
  <2>5. FieldsFit(r)
    BY <2>1, <2>2 DEF FieldsFit, WithTask, WithTarget
  <2> QED BY <1>0, <2>1, <2>2, <2>3, <2>4, <2>5, JobOnly DEF TypeOK
<1>4. CASE ClampCount(j)
  <2>1. job[j].task = NoTask /\ job[j].agent \in Agents
    BY <1>0, <1>4 DEF ClampCount, JobFits, FitsIn, FieldsFit, WithTask, WithAgent, JobStates
  <2>2. /\ count' \in [Agents -> Int] /\ spoiled' \in SUBSET Agents
        /\ UNCHANGED <<conv, task, online, entry, requests>>
    BY <1>0, <1>4, <2>1 DEF ClampCount, TypeOK
  <2>3. CASE job[j].pc = "clamping"
    <3> DEFINE r == [job[j] EXCEPT !.pc = "filling"]
    <3>1. /\ r \in JobType /\ r.pc = "filling" /\ r.task = job[j].task
          /\ r.agent = job[j].agent /\ r.target = job[j].target /\ r.todo = job[j].todo
      BY <1>0, <1>p DEF JobType
    <3>2. Becomes(j, r)
      BY <1>4, <2>3 DEF ClampCount, Step
    <3> HIDE DEF r
    <3>3. FieldsFit(r)
      BY <2>1, <3>1 DEF FieldsFit, WithTask, WithTarget
    <3> QED BY <1>0, <2>1, <2>2, <3>1, <3>2, <3>3, JobOnly DEF TypeOK
  <2>4. CASE job[j].pc # "clamping"
    <3>1. Becomes(j, Idle)
      BY <1>4, <2>4 DEF ClampCount, End
    <3> QED BY <1>0, <2>2, <3>1, IdleFits, JobOnly DEF TypeOK
  <2> QED BY <2>3, <2>4
<1>5. CASE CountTarget(j)
  <2>1. /\ count' \in [Agents -> Int] /\ Becomes(j, Idle)
        /\ UNCHANGED <<conv, task, online, entry, requests, spoiled>>
    BY <1>0, <1>5 DEF CountTarget, End, TypeOK, JobFits, FitsIn, FieldsFit
  <2> QED BY <1>0, <2>1, IdleFits, JobOnly DEF TypeOK
<1>6. ASSUME NEW c \in Convs, ReadForEnd(j, c) PROVE IInv'
  <2> DEFINE r == [Idle EXCEPT !.pc = "ending", !.conv = c]
  <2>1. /\ r \in JobType /\ r.pc = "ending" /\ r.conv = c
        /\ r.task = NoTask /\ r.target = NoAgent /\ r.todo = {}
    BY <1>p, IdleFits DEF JobType
  <2>2. Becomes(j, r) /\ UNCHANGED <<conv, task, online, count, entry, spoiled>>
    BY <1>6 DEF ReadForEnd, Begin
  <2>3. requests' \in Nat
    BY <1>0, <1>6 DEF ReadForEnd, Begin, TypeOK
  <2>4. conv[c].agent \in Agents
    BY <1>0, <1>6 DEF ReadForEnd, ConvInv
  <2> HIDE DEF r
  <2>5. FieldsFit(r)
    BY <2>1 DEF FieldsFit, WithTask, WithAgent
  <2> QED BY <1>0, <2>1, <2>2, <2>3, <2>4, <2>5, JobOnly DEF TypeOK
<1>7. ASSUME NEW c \in Convs, NEW b \in Agents, ReadForTransfer(j, c, b) PROVE IInv'
  <2> DEFINE r == [Idle EXCEPT !.pc = "moving", !.conv = c, !.agent = conv[c].agent, !.target = b]
  <2>1. conv[c].agent \in Agents
    BY <1>0, <1>7 DEF ReadForTransfer, ConvInv
  <2>2. /\ r \in JobType /\ r.pc = "moving" /\ r.conv = c /\ r.agent = conv[c].agent
        /\ r.task = NoTask /\ r.target = b /\ r.todo = {}
    BY <1>p, <2>1, IdleFits DEF JobType
  <2>3. Becomes(j, r) /\ UNCHANGED <<conv, task, online, count, entry, spoiled>>
    BY <1>7 DEF ReadForTransfer, Begin
  <2>4. requests' \in Nat
    BY <1>0, <1>7 DEF ReadForTransfer, Begin, TypeOK
  <2> HIDE DEF r
  <2>5. FieldsFit(r)
    BY <2>1, <2>2 DEF FieldsFit, WithTask, WithTarget
  <2> QED BY <1>0, <2>2, <2>3, <2>4, <2>5, JobOnly DEF TypeOK
<1> QED BY <1>1, <1>2, <1>3, <1>4, <1>5, <1>6, <1>7 DEF CloserNext

\* A filling that stops goes on only to count the receiver of a transfer.
LEMMA StopIs ==
  ASSUME IInv, NEW j \in Jobs, StopFilling(j)
  PROVE  \E r \in JobType : /\ Becomes(j, r) /\ FieldsFit(r) /\ r.task = NoTask
                            /\ r.pc \in {"idle", "moved"} /\ r.todo = {}
<1> DEFINE b == job[j].target
           r == [Idle EXCEPT !.pc = "moved", !.target = b]
<1>1. CASE b = NoAgent
  BY <1>1, IdleFits DEF StopFilling
<1>2. CASE b # NoAgent
  <2>1. b \in Agents
    BY <1>2 DEF IInv, TypeOK, JobType, AgentOrNone
  <2>2. /\ r \in JobType /\ r.pc = "moved" /\ r.task = NoTask
        /\ r.target = b /\ r.todo = {}
    <3>1. "moved" \in JobStates
      BY DEF JobStates
    <3> QED BY <2>1, <3>1, IdleFits DEF JobType, AgentOrNone
  <2>3. Becomes(j, r)
    BY <1>2 DEF StopFilling
  <2> HIDE DEF r
  <2>4. FieldsFit(r)
    BY <2>1, <2>2 DEF FieldsFit, WithTask, WithAgent, WithTarget
  <2> QED BY <2>2, <2>3, <2>4
<1> QED BY <1>1, <1>2

LEMMA StopStep ==
  ASSUME IInv, NEW j \in Jobs, StopFilling(j), UNCHANGED <<conv, task, entry>>,
         online' \in [Agents -> BOOLEAN], count' \in [Agents -> Int],
         requests' \in Nat, spoiled' \in SUBSET Agents
  PROVE  IInv'
<1>1. PICK r \in JobType : /\ Becomes(j, r) /\ FieldsFit(r) /\ r.task = NoTask
                          /\ r.pc \in {"idle", "moved"} /\ r.todo = {}
  BY StopIs
<1> QED BY <1>1, JobOnly

\* What the database counts for an agent is a number.
LEMMA LoadIsNat == ASSUME NEW a \in Agents PROVE Load(a) \in Nat
  BY FiniteAssumption, FS_Subset, FS_CardinalityType DEF Load

\* Connecting and changing one's status keep the invariant.
LEMMA PresenceKeepsIInv ==
  ASSUME IInv, NEW j \in Jobs, NEW a \in Agents, NEW status \in BOOLEAN,
         ReadLoad(j, a) \/ SetStatus(j, status)
  PROVE  IInv'
<1>0. TypeOK /\ JobFits(job[j]) /\ job[j] \in JobType
  BY DEF IInv, JobInv, TypeOK
<1>1. CASE ReadLoad(j, a)
  <2> DEFINE r == [Idle EXCEPT !.pc = "counted", !.agent = a, !.places = Load(a)]
  <2>1. /\ r \in JobType /\ r.pc = "counted" /\ r.agent = a
        /\ r.task = NoTask /\ r.target = NoAgent /\ r.todo = {}
    <3>1. "counted" \in JobStates
      BY DEF JobStates
    <3>2. Load(a) \in Int
      BY LoadIsNat
    <3> QED BY <3>1, <3>2, IdleFits DEF JobType, AgentOrNone
  <2>2. /\ Becomes(j, r) /\ requests' \in Nat
        /\ UNCHANGED <<conv, task, online, count, entry, spoiled>>
    BY <1>0, <1>1 DEF ReadLoad, Begin, TypeOK
  <2> HIDE DEF r
  <2>3. FieldsFit(r)
    BY <2>1 DEF FieldsFit, WithTask
  <2> QED BY <1>0, <2>1, <2>2, <2>3, JobOnly DEF TypeOK
<1>2. CASE SetStatus(j, status)
  <2> DEFINE b == job[j].agent
             r == [Idle EXCEPT !.pc = "filling", !.agent = b]
  <2>1. b \in Agents /\ job[j].places \in Int
    BY <1>0, <1>2 DEF SetStatus, JobFits, FitsIn, FieldsFit, WithAgent, JobStates, JobType
  <2>2. online' \in [Agents -> BOOLEAN]
    BY <1>0, <1>2, Zenon DEF SetStatus, TypeOK
  <2>3. /\ count' \in [Agents -> Int] /\ spoiled' \in SUBSET Agents
        /\ UNCHANGED <<conv, task, entry, requests>>
    BY <1>0, <1>2, <2>1 DEF SetStatus, TypeOK
  <2>4. /\ r \in JobType /\ r.pc = "filling" /\ r.agent = b
        /\ r.task = NoTask /\ r.target = NoAgent /\ r.todo = {}
    BY <2>1, IdleFits DEF JobType, JobStates, AgentOrNone
  <2>5. Becomes(j, r) \/ Becomes(j, Idle)
    BY <1>2 DEF SetStatus
  <2> HIDE DEF r
  <2>6. FieldsFit(r)
    BY <2>1, <2>4 DEF FieldsFit, WithTask
  <2>7. CASE Becomes(j, r)
    BY <1>0, <2>2, <2>3, <2>4, <2>6, <2>7, JobOnly DEF TypeOK
  <2>8. CASE Becomes(j, Idle)
    BY <1>0, <2>2, <2>3, <2>8, IdleFits, JobOnly DEF TypeOK
  <2> QED BY <2>5, <2>7, <2>8
<1> QED BY <1>1, <1>2

-----------------------------------------------------------------------------

\* The first commit of an assignment: the row is let go, the conversation is active.
LEMMA GiveStep ==
  ASSUME IInv, NEW j \in Jobs, NEW pc \in {"given", "settling"},
         \/ job[j].pc = "reserved" /\ pc = "given"
         \/ job[j].pc = "dispatched" /\ pc = "settling",
         GiveTask(job[j].task, job[j].agent), Step(j, pc),
         UNCHANGED <<online, count, entry, requests>>
  PROVE  IInv'
<1> DEFINE t == job[j].task
           a == job[j].agent
           c == ConvOf[t]
           r == [job[j] EXCEPT !.pc = pc]
<1> USE TasksAssumption
<1>0. TypeOK /\ ConvInv /\ EntryInv /\ TaskInv /\ JobFits(job[j]) /\ job[j] \in JobType
  BY DEF IInv, JobInv, TypeOK
<1>1. /\ t \in Tasks /\ a \in Agents /\ c \in Convs
      /\ task[t] # "none" /\ conv[c].status # "none"
  BY <1>0 DEF JobFits, FitsIn, FieldsFit, WithTask, WithAgent, JobStates, TaskInv
<1>r. /\ r \in JobType /\ r.pc = pc /\ r.task = t /\ r.agent = a
      /\ r.target = job[j].target /\ r.todo = job[j].todo
  BY <1>0 DEF JobType, JobStates
<1>b. Becomes(j, r)
  BY DEF Step
<1>f. FieldsFit(r)
  <2>1. job[j].target # NoAgent => pc = "given"
    BY <1>0 DEF JobFits, FitsIn, FieldsFit, WithTarget
  <2> HIDE DEF r
  <2> QED BY <1>1, <1>r, <2>1 DEF FieldsFit, WithTask, WithTarget
<1> HIDE DEF t, a, c, r
<1>2. /\ task' \in [Tasks -> TaskStates] /\ task'[t] = "assigning"
      /\ \A u \in Tasks \ {t} : task'[u] = task[u]
  BY <1>0, <1>1 DEF GiveTask, TypeOK, TaskStates, t, a
<1>3. /\ conv' \in [Convs -> [status : ConvStates, agent : AgentOrNone]]
      /\ conv'[c].status = "active" /\ conv'[c].agent = a
      /\ \A d \in Convs \ {c} : conv'[d] = conv[d]
  BY <1>0, <1>1 DEF GiveTask, TypeOK, ConvStates, AgentOrNone, t, a, c
<1>4. spoiled' \in SUBSET Agents
  <2>1. Robbed(c) \subseteq Agents
    BY <1>0, <1>1 DEF Robbed, ConvInv
  <2> QED BY <1>0, <2>1 DEF GiveTask, TypeOK, t, c
<1>5. \A i \in Jobs \ {j} :
        /\ (job[i].pc \in Locking => task'[job[i].task] = task[job[i].task])
        /\ (job[i].pc \in Locking /\ r.pc \in Locking => r.task # job[i].task)
  <2> SUFFICES ASSUME NEW i \in Jobs \ {j}, job[i].pc \in Locking
               PROVE  task'[job[i].task] = task[job[i].task] /\ r.pc \notin Locking
    OBVIOUS
  <2>1. job[i].task # t
    BY DEF IInv, LockInv, Locking, t
  <2>2. job[i].task \in Tasks
    BY DEF IInv, JobInv, JobFits, FitsIn, FieldsFit, Locking, WithTask
  <2> QED BY <1>r, <1>2, <2>1, <2>2 DEF Locking
<1>6. ConvsGrow /\ TasksGrow
  BY <1>1, <1>2, <1>3 DEF ConvsGrow, TasksGrow, Past, c
<1>7. FitsIn(r, conv', task')
  <2>1. \A d \in r.todo : conv'[d].status # "none"
    BY <1>0, <1>6, <1>r DEF JobFits, FitsIn, JobType, ConvsGrow
  <2> QED BY <1>2, <1>3, <1>r, <1>f, <2>1 DEF FitsIn, Locking, Past, c
<1>9. job' \in [Jobs -> JobType] /\ TaskInv' /\ JobInv' /\ LockInv'
  BY <1>r, <1>b, <1>5, <1>6, <1>7, JobStep
<1>10. TypeOK'
  BY <1>0, <1>2, <1>3, <1>4, <1>9 DEF TypeOK
<1>11. ConvInv' /\ EntryInv'
  BY <1>0, <1>1, <1>3 DEF ConvInv, EntryInv
<1> QED BY <1>9, <1>10, <1>11 DEF IInv

\* A job lets go of its task: it puts it into the queue, or settles it.
LEMMA TaskStep ==
  ASSUME IInv, NEW j \in Jobs, NEW r \in JobType, Becomes(j, r), FieldsFit(r),
         r.task = NoTask, r.pc \notin {"ending", "inserting"},
         \A d \in r.todo : conv[d].status # "none",
         NEW t \in Tasks, NEW s \in {"queued", "assigned"}, task' = [task EXCEPT ![t] = s],
         conv[ConvOf[t]].status # "none",
         s = "assigned" => conv[ConvOf[t]].status \in Past,
         ~Locked(t) \/ (job[j].pc \in Locking /\ t = job[j].task),
         UNCHANGED <<conv, online, count, entry, requests, spoiled>>
  PROVE  IInv'
<1>0. TypeOK /\ ConvInv /\ EntryInv
  BY DEF IInv
<1>1. /\ task' \in [Tasks -> TaskStates] /\ task'[t] = s
      /\ \A u \in Tasks \ {t} : task'[u] = task[u]
  BY <1>0 DEF TypeOK, TaskStates
<1>2. r.pc \notin WithTask /\ Locking \subseteq WithTask /\ {"given", "settling"} \subseteq WithTask
  <2>1. r.pc \notin WithTask
    <3>1. IF r.pc \in WithTask THEN r.task \in Tasks ELSE r.task = NoTask
      BY DEF FieldsFit
    <3> QED BY <3>1, TasksAssumption
  <2>2. Locking \subseteq WithTask /\ {"given", "settling"} \subseteq WithTask
    BY DEF WithTask, Locking
  <2> QED BY <2>1, <2>2
<1>3. \A i \in Jobs \ {j} :
        /\ (job[i].pc \in Locking => task'[job[i].task] = task[job[i].task])
        /\ (job[i].pc \in Locking /\ r.pc \in Locking => r.task # job[i].task)
  <2> SUFFICES ASSUME NEW i \in Jobs \ {j}, job[i].pc \in Locking
               PROVE  task'[job[i].task] = task[job[i].task]
    BY <1>2
  <2>1. job[i].task # t
    BY DEF IInv, LockInv, Locked
  <2>2. job[i].task \in Tasks
    BY <1>2 DEF IInv, JobInv, JobFits, FitsIn, FieldsFit
  <2> QED BY <1>1, <2>1, <2>2
<1>4. ConvsGrow /\ TasksGrow
  BY <1>1 DEF ConvsGrow, TasksGrow, Given
<1>5. FitsIn(r, conv', task')
  BY <1>2 DEF FitsIn
<1>6. job' \in [Jobs -> JobType] /\ TaskInv' /\ JobInv' /\ LockInv'
  BY <1>3, <1>4, <1>5, JobStep
<1>7. TypeOK' /\ ConvInv' /\ EntryInv'
  BY <1>0, <1>1, <1>6 DEF TypeOK, ConvInv, EntryInv
<1> QED BY <1>6, <1>7 DEF IInv

\* What an assignment between its two commits settles.
LEMMA SettleStep ==
  ASSUME IInv, NEW j \in Jobs, NEW r \in JobType, job[j].pc \in {"given", "settling"},
         SettleTask(job[j].task), Becomes(j, r), FieldsFit(r),
         r.task = NoTask, r.pc \notin {"ending", "inserting"}, r.todo \subseteq job[j].todo,
         UNCHANGED <<conv, online, count, entry, requests, spoiled>>
  PROVE  IInv'
<1>1. JobFits(job[j]) /\ TaskInv
  BY DEF IInv, JobInv
<1>2. job[j].task \in Tasks /\ conv[ConvOf[job[j].task]].status \in Past
  BY <1>1 DEF JobFits, FitsIn, FieldsFit, WithTask
<1>3. \A d \in r.todo : conv[d].status # "none"
  BY <1>1 DEF JobFits, FitsIn
<1>4. /\ "assigned" \in {"queued", "assigned"}
      /\ task' = [task EXCEPT ![job[j].task] = "assigned"] /\ ~Locked(job[j].task)
      /\ conv[ConvOf[job[j].task]].status # "none"
  BY <1>2 DEF SettleTask, Past
<1> QED BY <1>2, <1>3, <1>4, TaskStep

\* A no-show's task goes together with its conversation.
LEMMA VoidStep ==
  ASSUME IInv, NEW t \in Tasks, NEW seen, Void(t, seen),
         UNCHANGED <<online, count, entry, job>>, requests' \in Nat
  PROVE  IInv'
<1> DEFINE c == ConvOf[t]
<1> USE TasksAssumption
<1>0. TypeOK /\ ConvInv /\ EntryInv /\ TaskInv
  BY DEF IInv
<1>1. c \in Convs /\ task[t] = "queued" /\ conv[c].status # "none"
  BY <1>0 DEF Void, TaskInv
<1> HIDE DEF c
<1>2. /\ task' \in [Tasks -> TaskStates]
      /\ \A u \in Tasks \ {t} : task'[u] = task[u]
  BY <1>0, <1>1 DEF Void, TypeOK, TaskStates
<1>3. /\ conv' \in [Convs -> [status : ConvStates, agent : AgentOrNone]]
      /\ conv'[c].status = "closed" /\ conv'[c].agent = conv[c].agent
      /\ \A d \in Convs \ {c} : conv'[d] = conv[d]
  <2>1. Close(c)
    BY DEF Void, c
  <2> QED BY <1>0, <1>1, <2>1 DEF Close, TypeOK, ConvStates
<1>4. spoiled' \in SUBSET Agents
  <2>1. Robbed(c) \subseteq Agents
    BY <1>0, <1>1 DEF Robbed, ConvInv
  <2> QED BY <1>0, <2>1 DEF Void, TypeOK, c
<1>5. \A u \in Tasks : Locked(u) => task'[u] = task[u]
  BY <1>2 DEF Void
<1>6. ConvsGrow /\ TasksGrow
  <2>1. task'[t] = "canceled"
    BY <1>0 DEF Void, TypeOK
  <2> QED BY <1>1, <1>2, <1>3, <2>1 DEF ConvsGrow, TasksGrow, Past, Given
<1>7. TaskInv' /\ JobInv' /\ LockInv'
  BY <1>5, <1>6, JobStays
<1>8. TypeOK'
  BY <1>0, <1>2, <1>3, <1>4 DEF TypeOK
<1>9. ConvInv' /\ EntryInv'
  BY <1>0, <1>1, <1>3 DEF ConvInv, EntryInv
<1> QED BY <1>7, <1>8, <1>9 DEF IInv

\* A task is cancelled or timed out only while nobody has locked it.
LEMMA DropKeepsIInv ==
  ASSUME IInv, NEW t \in Tasks, NEW status \in {"canceled", "timeout"}, DropTask(t, status)
  PROVE  IInv'
<1> USE TasksAssumption
<1>1. /\ task' \in [Tasks -> TaskStates] /\ task[t] # "none"
      /\ task'[t] # "none" /\ task'[t] \notin Given
      /\ \A u \in Tasks \ {t} : task'[u] = task[u]
      /\ requests' \in Nat /\ UNCHANGED <<conv, online, count, entry, job, spoiled>>
  BY DEF DropTask, Open, IInv, TypeOK, TaskStates, Given
<1>2. \A u \in Tasks : Locked(u) => task'[u] = task[u]
  BY <1>1 DEF DropTask
<1>3. TaskInv' /\ JobInv' /\ LockInv'
  <2>1. ConvsGrow /\ TasksGrow
    BY <1>1 DEF ConvsGrow, TasksGrow
  <2> QED BY <1>1, <1>2, <2>1, JobStays
<1>4. TypeOK' /\ ConvInv' /\ EntryInv'
  BY <1>1 DEF IInv, TypeOK, ConvInv, EntryInv
<1> QED BY <1>3, <1>4 DEF IInv

-----------------------------------------------------------------------------

\* The fillings of an agent from the queue keep the invariant.
LEMMA FillKeepsIInv ==
  ASSUME IInv, NEW j \in Jobs, FillNext(j)
  PROVE  IInv'
<1> USE AgentsAssumption, TasksAssumption
<1>0. /\ TypeOK /\ ConvInv /\ EntryInv /\ TaskInv /\ JobFits(job[j])
      /\ job[j] \in JobType /\ \A d \in job[j].todo : conv[d].status # "none"
  BY DEF IInv, JobInv, JobFits, FitsIn, TypeOK
<1>p. {"listing", "enqueuing", "inserting", "pulling", "locked", "reserved", "chosen"}
        \subseteq JobStates
  BY DEF JobStates
<1>t. /\ job[j].pc \in {"filling", "listing", "enqueuing", "inserting", "pulling"} =>
           job[j].task = NoTask
      /\ job[j].pc \in WithAgent => job[j].agent \in Agents
      /\ job[j].pc \in {"locked", "reserved", "chosen", "given"} =>
           job[j].task \in Tasks /\ task[job[j].task] # "none"
      /\ job[j].pc \in Locking /\ ~ByHand(job[j]) => task[job[j].task] = "queued"
  BY <1>0 DEF JobFits, FitsIn, FieldsFit, WithTask
<1>w. {"filling", "listing", "enqueuing", "inserting", "pulling", "locked", "reserved", "given",
       "chosen"} \subseteq WithAgent
  BY DEF WithAgent, JobStates
<1>1. CASE ReadPlaces(j)
  <2> DEFINE r == [job[j] EXCEPT !.pc = "listing", !.places = Limit - count[job[j].agent]]
  <2>1. /\ r \in JobType /\ r.pc = "listing" /\ r.task = job[j].task
        /\ r.agent = job[j].agent /\ r.target = job[j].target /\ r.todo = job[j].todo
    <3>1. Limit - count[job[j].agent] \in Int
      BY <1>0, <1>t, <1>w, <1>1, LimitAssumption DEF ReadPlaces, TypeOK
    <3> QED BY <1>0, <1>p, <3>1 DEF JobType
  <2>2. /\ Becomes(j, r) \/ StopFilling(j)
        /\ UNCHANGED <<conv, task, online, count, entry, requests, spoiled>>
    BY <1>1 DEF ReadPlaces
  <2>3. job[j].pc = "filling"
    BY <1>1 DEF ReadPlaces
  <2> HIDE DEF r
  <2>4. FieldsFit(r)
    BY <1>t, <1>w, <2>1, <2>3 DEF FieldsFit, WithTask, WithTarget
  <2>5. CASE Becomes(j, r)
    BY <1>0, <1>t, <1>w, <2>1, <2>2, <2>3, <2>4, <2>5, JobOnly DEF TypeOK
  <2>6. CASE StopFilling(j)
    BY <1>0, <2>2, <2>6, StopStep DEF TypeOK
  <2> QED BY <2>2, <2>5, <2>6
<1>2. CASE ListQueued(j)
  <2>1. /\ job[j].pc = "listing"
        /\ UNCHANGED <<conv, task, online, count, entry, requests, spoiled>>
    BY <1>2 DEF ListQueued
  <2>2. CASE StopFilling(j)
    BY <1>0, <2>1, <2>2, StopStep DEF TypeOK
  <2>3. ASSUME NEW S \in SUBSET {c \in Convs : Waiting(c)},
               Becomes(j, [job[j] EXCEPT !.pc = "enqueuing", !.seen = S, !.todo = S])
        PROVE  IInv'
    <3> DEFINE r == [job[j] EXCEPT !.pc = "enqueuing", !.seen = S, !.todo = S]
    <3>1. /\ r \in JobType /\ r.pc = "enqueuing" /\ r.task = job[j].task
          /\ r.agent = job[j].agent /\ r.target = job[j].target /\ r.todo = S
      BY <1>0, <1>p DEF JobType
    <3>2. Becomes(j, r)
      BY <2>3
    <3>3. \A d \in S : conv[d].status # "none"
      BY DEF Waiting
    <3> HIDE DEF r
    <3>4. FieldsFit(r)
      BY <1>t, <1>w, <2>1, <3>1 DEF FieldsFit, WithTask, WithTarget
    <3> QED BY <1>0, <1>t, <1>w, <2>1, <3>1, <3>2, <3>3, <3>4, JobOnly DEF TypeOK
  <2> QED BY <1>2, <2>2, <2>3 DEF ListQueued
<1>3. CASE InsertListed(j)
  <2>1. /\ job[j].pc = "inserting"
        /\ UNCHANGED <<conv, online, count, entry, requests, spoiled>>
    BY <1>3 DEF InsertListed
  <2>2. CASE StopFilling(j) /\ UNCHANGED task
    BY <1>0, <2>1, <2>2, StopStep DEF TypeOK
  <2>3. CASE Enqueue(job[j].conv) /\ Becomes(j, [job[j] EXCEPT !.pc = "enqueuing", !.conv = NoConv])
    <3> DEFINE c == job[j].conv
               r == [job[j] EXCEPT !.pc = "enqueuing", !.conv = NoConv]
    <3>1. /\ r \in JobType /\ r.pc = "enqueuing" /\ r.task = job[j].task
          /\ r.agent = job[j].agent /\ r.target = job[j].target /\ r.todo = job[j].todo
      BY <1>0, <1>p DEF JobType
    <3>2. Becomes(j, r)
      BY <2>3
    <3>3. PICK t \in Tasks : /\ ConvOf[t] = c /\ task[t] = "none"
                             /\ task' = [task EXCEPT ![t] = "queued"]
      BY <2>3 DEF Enqueue
    <3>4. conv[c].status # "none"
      BY <1>0, <2>1 DEF JobFits, FitsIn
    <3> HIDE DEF r, c
    <3>5. ~Locked(t)
      BY <3>3 DEF IInv, JobInv, JobFits, FitsIn, FieldsFit, WithTask, Locking, Locked
    <3>6. FieldsFit(r)
      BY <1>t, <1>w, <2>1, <3>1 DEF FieldsFit, WithTask, WithTarget
    <3>7. "queued" \in {"queued", "assigned"} /\ conv[ConvOf[t]].status # "none"
      BY <3>3, <3>4
    <3> QED BY <1>0, <1>t, <1>w, <2>1, <3>1, <3>2, <3>3, <3>5, <3>6, <3>7, TaskStep
  <2> QED BY <1>3, <2>2, <2>3 DEF InsertListed
<1>4. CASE StartPulling(j)
  <2> DEFINE r == [job[j] EXCEPT !.pc = "pulling"]
  <2>1. /\ r \in JobType /\ r.pc = "pulling" /\ r.task = job[j].task
        /\ r.agent = job[j].agent /\ r.target = job[j].target /\ r.todo = job[j].todo
    BY <1>0, <1>p DEF JobType
  <2>2. /\ Becomes(j, r) /\ job[j].pc = "enqueuing"
        /\ UNCHANGED <<conv, task, online, count, entry, requests, spoiled>>
    BY <1>4 DEF StartPulling, Step
  <2> HIDE DEF r
  <2>3. FieldsFit(r)
    BY <1>t, <1>w, <2>1, <2>2 DEF FieldsFit, WithTask, WithTarget
  <2> QED BY <1>0, <1>t, <1>w, <2>1, <2>2, <2>3, JobOnly DEF TypeOK
<1>5. CASE NothingToPull(j)
  BY <1>0, <1>5, StopStep DEF NothingToPull, TypeOK
<1>6. CASE ReserveAgent(j)
  <2> DEFINE r == [job[j] EXCEPT !.pc = "reserved"]
  <2>1. /\ r \in JobType /\ r.pc = "reserved" /\ r.task = job[j].task /\ r.conv = job[j].conv
        /\ r.agent = job[j].agent /\ r.target = job[j].target /\ r.todo = job[j].todo
    BY <1>0, <1>p DEF JobType
  <2>2. /\ Becomes(j, r) /\ job[j].pc = "locked" /\ job[j].pc \in Locking
        /\ UNCHANGED <<conv, task, online, entry, requests, spoiled>>
    BY <1>6 DEF ReserveAgent, Step, Locking
  <2>3. count' \in [Agents -> Int]
    BY <1>0, <1>t, <1>w, <1>6, <2>2 DEF ReserveAgent, TypeOK
  <2> HIDE DEF r
  <2>4. FieldsFit(r) /\ (ByHand(r) <=> ByHand(job[j]))
    BY <1>t, <1>w, <2>1, <2>2 DEF FieldsFit, WithTask, WithTarget, ByHand
  <2> QED BY <1>0, <1>t, <1>w, <2>1, <2>2, <2>3, <2>4, JobOnly DEF TypeOK
<1>n. LET r == [job[j] EXCEPT !.pc = "pulling", !.task = NoTask, !.conv = NoConv, !.places = @ - 1]
      IN  /\ r \in JobType /\ r.pc = "pulling" /\ r.task = NoTask
          /\ r.todo = job[j].todo /\ (job[j].agent \in Agents => FieldsFit(r))
  <2> DEFINE r == [job[j] EXCEPT !.pc = "pulling", !.task = NoTask, !.conv = NoConv, !.places = @ - 1]
  <2>1. job[j].places - 1 \in Int
    BY <1>0 DEF JobType
  <2>2. /\ r \in JobType /\ r.pc = "pulling" /\ r.task = NoTask
        /\ r.agent = job[j].agent /\ r.target = job[j].target /\ r.todo = job[j].todo
    BY <1>0, <1>p, <2>1 DEF JobType
  <2> HIDE DEF r
  <2>3. job[j].agent \in Agents => FieldsFit(r)
    BY <2>2 DEF FieldsFit, WithTask, WithTarget
  <2>4. /\ r \in JobType /\ r.pc = "pulling" /\ r.task = NoTask
        /\ r.todo = job[j].todo /\ (job[j].agent \in Agents => FieldsFit(r))
    BY <2>2, <2>3
  <2> QED BY <2>4 DEF r
<1>7. CASE ReserveRefused(j)
  <2> DEFINE r == [job[j] EXCEPT !.pc = "pulling", !.task = NoTask, !.conv = NoConv, !.places = @ - 1]
  <2>1. /\ Becomes(j, r) /\ job[j].pc = "locked" /\ task' = [task EXCEPT ![job[j].task] = "queued"]
        /\ UNCHANGED <<conv, online, count, entry, requests, spoiled>>
    BY <1>7 DEF ReserveRefused
  <2>2. /\ r \in JobType /\ r.pc = "pulling" /\ r.task = NoTask
        /\ r.todo = job[j].todo /\ FieldsFit(r)
    BY <1>n, <1>t, <1>w, <2>1
  <2> HIDE DEF r
  <2>3. /\ job[j].task \in Tasks /\ conv[ConvOf[job[j].task]].status # "none"
        /\ "queued" \in {"queued", "assigned"} /\ job[j].pc \in Locking
    BY <1>0, <1>t, <1>w, <2>1 DEF TaskInv, Locking
  <2> QED BY <1>0, <2>1, <2>2, <2>3, TaskStep
<1>8. CASE CommitPull(j)
  <2> DEFINE r == [job[j] EXCEPT !.pc = "pulling", !.task = NoTask, !.conv = NoConv, !.places = @ - 1]
  <2>1. /\ job[j].pc = "given" /\ SettleTask(job[j].task)
        /\ Becomes(j, r) \/ StopFilling(j)
        /\ UNCHANGED <<conv, online, count, entry, requests, spoiled>>
    BY <1>8 DEF CommitPull
  <2>2. CASE Becomes(j, r)
    <3>1. /\ r \in JobType /\ r.pc = "pulling" /\ r.task = NoTask
          /\ r.todo = job[j].todo /\ FieldsFit(r)
      BY <1>n, <1>t, <1>w, <2>1
    <3> HIDE DEF r
    <3> QED BY <2>1, <2>2, <3>1, SettleStep
  <2>3. CASE StopFilling(j)
    <3>1. PICK s \in JobType : /\ Becomes(j, s) /\ FieldsFit(s) /\ s.task = NoTask
                              /\ s.pc \in {"idle", "moved"} /\ s.todo = {}
      BY <2>3, StopIs
    <3> QED BY <2>1, <3>1, SettleStep
  <2> QED BY <2>1, <2>2, <2>3
<1>9. CASE PullFails(j)
  <2>1. spoiled' \in SUBSET Agents
    BY <1>0, <1>t, <1>w, <1>9 DEF PullFails, TypeOK
  <2> QED BY <1>0, <1>9, <2>1, StopStep DEF PullFails, TypeOK
<1>14. CASE GivePulled(j)
  BY <1>14, GiveStep DEF GivePulled
<1>15. CASE LockChosen(j)
  <2> DEFINE r == [job[j] EXCEPT !.pc = "locked"]
  <2>1. /\ r \in JobType /\ r.pc = "locked" /\ r.task = job[j].task /\ r.conv = job[j].conv
        /\ r.agent = job[j].agent /\ r.target = job[j].target /\ r.todo = job[j].todo
    BY <1>0, <1>p DEF JobType
  <2>2. /\ Becomes(j, r) /\ job[j].pc = "chosen" /\ ~Locked(job[j].task)
        /\ UNCHANGED <<conv, task, online, count, entry, requests, spoiled>>
    BY <1>15 DEF LockChosen, Step
  <2>3. ByHand(job[j])
    BY <1>0, <2>2 DEF JobFits, FitsIn, FieldsFit
  <2> HIDE DEF r
  <2>4. FieldsFit(r) /\ ByHand(r)
    BY <1>t, <1>w, <2>1, <2>2, <2>3 DEF FieldsFit, WithTask, WithTarget, ByHand
  <2> QED BY <1>0, <1>t, <1>w, <2>1, <2>2, <2>4, JobOnly DEF TypeOK
<1>10. ASSUME NEW c \in Convs, CheckListed(j, c) PROVE IInv'
  <2>1. /\ job[j].pc = "enqueuing" /\ c \in job[j].todo
        /\ UNCHANGED <<conv, task, online, count, entry, requests, spoiled>>
    BY <1>10 DEF CheckListed
  <2>2. CASE StopFilling(j)
    BY <1>0, <2>1, <2>2, StopStep DEF TypeOK
  <2>3. ASSUME NEW pc \in {"inserting", "enqueuing"}, NEW d \in {c, job[j].conv},
               pc = "inserting" => d = c,
               Becomes(j, [job[j] EXCEPT !.pc = pc, !.conv = d, !.todo = @ \ {c}])
        PROVE  IInv'
    <3> DEFINE r == [job[j] EXCEPT !.pc = pc, !.conv = d, !.todo = @ \ {c}]
    <3>1. /\ r \in JobType /\ r.pc = pc /\ r.task = job[j].task /\ r.conv = d
          /\ r.agent = job[j].agent /\ r.target = job[j].target /\ r.todo = job[j].todo \ {c}
      BY <1>0, <1>p DEF JobType
    <3>2. Becomes(j, r)
      BY <2>3
    <3> HIDE DEF r
    <3>3. FieldsFit(r)
      BY <1>t, <1>w, <2>1, <2>3, <3>1 DEF FieldsFit, WithTask, WithTarget
    <3> QED BY <1>0, <1>t, <1>w, <2>1, <2>3, <3>1, <3>2, <3>3, JobOnly DEF TypeOK
  <2>4. CASE Becomes(j, [job[j] EXCEPT !.pc = "inserting", !.conv = c, !.todo = @ \ {c}])
    BY <2>3, <2>4
  <2>5. CASE Becomes(j, [job[j] EXCEPT !.todo = @ \ {c}])
    <3>1. [job[j] EXCEPT !.todo = @ \ {c}]
            = [job[j] EXCEPT !.pc = "enqueuing", !.conv = job[j].conv, !.todo = @ \ {c}]
      BY <1>0, <2>1 DEF JobType
    <3> QED BY <2>3, <2>5, <3>1
  <2> QED BY <1>10, <2>2, <2>4, <2>5 DEF CheckListed
<1>11. ASSUME NEW t \in Tasks, LockTask(j, t) PROVE IInv'
  <2> DEFINE r == [job[j] EXCEPT !.pc = "locked", !.task = t]
  <2>1. /\ r \in JobType /\ r.pc = "locked" /\ r.task = t
        /\ r.agent = job[j].agent /\ r.target = job[j].target /\ r.todo = job[j].todo
    BY <1>0, <1>p DEF JobType
  <2>2. /\ Becomes(j, r) /\ job[j].pc = "pulling" /\ task[t] = "queued" /\ ~Locked(t)
        /\ UNCHANGED <<conv, task, online, count, entry, requests, spoiled>>
    BY <1>11 DEF LockTask
  <2> HIDE DEF r
  <2>3. FieldsFit(r)
    BY <1>t, <1>w, <2>1, <2>2 DEF FieldsFit, WithTask, WithTarget
  <2> QED BY <1>0, <2>1, <2>2, <2>3, JobOnly DEF TypeOK
<1>12. ASSUME NEW t \in Tasks, VoidPulled(j, t) PROVE IInv'
  <2>1. Void(t, job[j].seen) /\ UNCHANGED <<online, count, entry, job, requests>>
    BY <1>12 DEF VoidPulled
  <2>2. requests' \in Nat
    BY <1>0, <2>1 DEF TypeOK
  <2> QED BY <2>1, <2>2, VoidStep
<1>13. ASSUME NEW t \in Tasks, NEW a \in Agents, PullByHand(j, a, t) PROVE IInv'
  <2> DEFINE r == [Idle EXCEPT !.pc = "locked", !.agent = a, !.task = t, !.places = 1]
  <2>1. /\ r \in JobType /\ r.pc = "locked" /\ r.task = t
        /\ r.agent = a /\ r.target = NoAgent /\ r.todo = {}
    <3>1. 1 \in Int
      OBVIOUS
    <3>2. a \in AgentOrNone /\ t \in Tasks \cup {NoTask}
      BY DEF AgentOrNone
    <3> QED BY <1>p, <3>1, <3>2, IdleFits DEF JobType
  <2>2. /\ Becomes(j, r) /\ task[t] = "queued" /\ ~Locked(t) /\ requests' \in Nat
        /\ UNCHANGED <<conv, task, online, count, entry, spoiled>>
    BY <1>0, <1>13 DEF PullByHand, Begin, TypeOK
  <2> HIDE DEF r
  <2>3. FieldsFit(r)
    BY <2>1 DEF FieldsFit, WithTask
  <2> QED BY <1>0, <2>1, <2>2, <2>3, JobOnly DEF TypeOK
<1>16. ASSUME NEW t \in Tasks, NEW a \in Agents, ReadByHand(j, a, t) PROVE IInv'
  <2> DEFINE r == [Idle EXCEPT !.pc = "chosen", !.agent = a, !.task = t, !.conv = ConvOf[t],
                               !.places = 1]
  <2>1. /\ r \in JobType /\ r.pc = "chosen" /\ r.task = t /\ r.conv = ConvOf[t]
        /\ r.agent = a /\ r.target = NoAgent /\ r.todo = {}
    <3>1. 1 \in Int
      OBVIOUS
    <3>2. a \in AgentOrNone /\ t \in Tasks \cup {NoTask} /\ ConvOf[t] \in Convs
      BY DEF AgentOrNone
    <3> QED BY <1>p, <3>1, <3>2, IdleFits DEF JobType
  <2>2. /\ Becomes(j, r) /\ task[t] = "queued" /\ requests' \in Nat
        /\ UNCHANGED <<conv, task, online, count, entry, spoiled>>
    BY <1>0, <1>16 DEF ReadByHand, Begin, TypeOK
  <2> HIDE DEF r
  <2>3. FieldsFit(r) /\ r.pc \notin Locking
    BY <2>1 DEF FieldsFit, WithTask, ByHand, Locking
  <2> QED BY <1>0, <2>1, <2>2, <2>3, JobOnly DEF TypeOK
<1> QED BY <1>1, <1>2, <1>3, <1>4, <1>5, <1>6, <1>7, <1>8, <1>9, <1>10, <1>11, <1>12, <1>13,
           <1>14, <1>15, <1>16 DEF FillNext

-----------------------------------------------------------------------------

\* The dispatcher keeps the invariant.
LEMMA DispatchKeepsIInv ==
  ASSUME IInv, NEW j \in Jobs, DispatchNext(j)
  PROVE  IInv'
<1> USE AgentsAssumption, TasksAssumption
<1>0. /\ TypeOK /\ JobFits(job[j]) /\ job[j] \in JobType
      /\ \A d \in job[j].todo : conv[d].status # "none"
  BY DEF IInv, JobInv, JobFits, FitsIn, TypeOK
<1>p. {"dispatching", "dispatched", "undoing", "releasing"} \subseteq JobStates
  BY DEF JobStates
<1>t. /\ job[j].pc \in {"dispatched", "settling", "undoing"} => job[j].agent \in Agents
      /\ job[j].pc = "dispatching" =>
           /\ job[j].task \in Tasks /\ task[job[j].task] # "none" /\ job[j].target = NoAgent
           /\ ByHand(job[j]) \/ task[job[j].task] = "queued"
  BY <1>0 DEF JobFits, FitsIn, FieldsFit, WithTask, WithAgent, WithTarget, JobStates, Locking
<1>i. ASSUME NEW pc \in {"undoing", "releasing"}, NEW a \in Agents
      PROVE  LET r == [Idle EXCEPT !.pc = pc, !.agent = a] IN
             r \in JobType /\ FieldsFit(r) /\ r.task = NoTask /\ r.pc = pc /\ r.todo = {}
  <2> DEFINE r == [Idle EXCEPT !.pc = pc, !.agent = a]
  <2>1. /\ r \in JobType /\ r.pc = pc /\ r.task = NoTask
        /\ r.agent = a /\ r.target = NoAgent /\ r.todo = {}
    BY <1>p, IdleFits DEF JobType, AgentOrNone
  <2> HIDE DEF r
  <2>2. FieldsFit(r)
    BY <2>1 DEF FieldsFit, WithTask
  <2>3. r \in JobType /\ FieldsFit(r) /\ r.task = NoTask /\ r.pc = pc /\ r.todo = {}
    BY <2>1, <2>2
  <2> QED BY <2>3 DEF r
<1>1. CASE AllBusy(j)
  BY <1>0, <1>1, IdleFits, JobOnly DEF AllBusy, End, TypeOK
<1>2. CASE CommitDispatch(j)
  <2> DEFINE r == [Idle EXCEPT !.pc = "undoing", !.agent = job[j].agent]
  <2>1. /\ job[j].pc = "settling" /\ SettleTask(job[j].task)
        /\ UNCHANGED <<conv, online, count, entry, requests, spoiled>>
        /\ Becomes(j, Idle) \/ Becomes(j, r)
    BY <1>2 DEF CommitDispatch, End
  <2>2. CASE Becomes(j, Idle)
    BY <2>1, <2>2, IdleFits, SettleStep
  <2>3. CASE Becomes(j, r)
    <3>1. r \in JobType /\ FieldsFit(r) /\ r.task = NoTask /\ r.pc = "undoing" /\ r.todo = {}
      BY <1>i, <1>t, <2>1
    <3> HIDE DEF r
    <3> QED BY <2>1, <2>3, <3>1, SettleStep
  <2> QED BY <2>1, <2>2, <2>3
<1>3. CASE DispatchFails(j)
  <2> DEFINE r == [Idle EXCEPT !.pc = "releasing", !.agent = job[j].agent]
  <2>1. job[j].agent \in Agents
    BY <1>t, <1>3 DEF DispatchFails
  <2>2. /\ count' \in [Agents -> Int] /\ spoiled' \in SUBSET Agents
        /\ UNCHANGED <<conv, task, online, entry, requests>>
        /\ Becomes(j, Idle) \/ Becomes(j, r)
    BY <1>0, <1>3, <2>1 DEF DispatchFails, TypeOK
  <2>3. CASE Becomes(j, Idle)
    BY <1>0, <2>2, <2>3, IdleFits, JobOnly DEF TypeOK
  <2>4. CASE Becomes(j, r)
    <3>1. r \in JobType /\ FieldsFit(r) /\ r.task = NoTask /\ r.pc = "releasing" /\ r.todo = {}
      BY <1>i, <2>1
    <3> HIDE DEF r
    <3> QED BY <1>0, <2>2, <2>4, <3>1, JobOnly DEF TypeOK
  <2> QED BY <2>2, <2>3, <2>4
<1>4. ASSUME NEW t \in Tasks, LockNext(j, t) PROVE IInv'
  <2> DEFINE r == [Idle EXCEPT !.pc = "dispatching", !.task = t]
  <2>1. /\ r \in JobType /\ r.pc = "dispatching" /\ r.task = t
        /\ r.target = NoAgent /\ r.todo = {}
    BY <1>p, IdleFits DEF JobType
  <2>2. /\ Becomes(j, r) /\ task[t] = "queued" /\ ~Locked(t) /\ requests' \in Nat
        /\ UNCHANGED <<conv, task, online, count, entry, spoiled>>
    BY <1>0, <1>4 DEF LockNext, Begin, TypeOK
  <2> HIDE DEF r
  <2>3. FieldsFit(r)
    BY <2>1 DEF FieldsFit, WithTask, WithAgent
  <2> QED BY <1>0, <2>1, <2>2, <2>3, JobOnly DEF TypeOK
<1>5. ASSUME NEW t \in Tasks, VoidNext(j, t) PROVE IInv'
  <2>1. Void(t, {}) /\ UNCHANGED <<online, count, entry, job>> /\ requests' \in Nat
    BY <1>0, <1>5 DEF VoidNext, TypeOK
  <2> QED BY <2>1, VoidStep
<1>6. ASSUME NEW a \in Agents, ReserveCandidate(j, a) PROVE IInv'
  <2> DEFINE r == [job[j] EXCEPT !.pc = "dispatched", !.agent = a]
  <2>1. /\ r \in JobType /\ r.pc = "dispatched" /\ r.task = job[j].task /\ r.conv = job[j].conv
        /\ r.agent = a /\ r.target = job[j].target /\ r.todo = job[j].todo
    BY <1>0, <1>p DEF JobType, AgentOrNone
  <2>2. /\ Becomes(j, r) /\ job[j].pc = "dispatching"
        /\ UNCHANGED <<conv, task, online, entry, requests, spoiled>>
    BY <1>6 DEF ReserveCandidate
  <2>3. count' \in [Agents -> Int]
    BY <1>0, <1>6 DEF ReserveCandidate, TypeOK
  <2> HIDE DEF r
  <2>4. FieldsFit(r) /\ (ByHand(r) <=> ByHand(job[j])) /\ job[j].pc \in Locking
    BY <1>t, <2>1, <2>2 DEF FieldsFit, WithTask, ByHand, Locking
  <2> QED BY <1>0, <1>t, <2>1, <2>2, <2>3, <2>4, JobOnly DEF TypeOK
<1>7. CASE GiveDispatched(j)
  BY <1>7, GiveStep DEF GiveDispatched
<1> QED BY <1>1, <1>2, <1>3, <1>4, <1>5, <1>6, <1>7 DEF DispatchNext

\* Every step keeps the invariant.
LEMMA NextKeepsIInv == IInv /\ [Next]_vars => IInv'
<1> SUFFICES ASSUME IInv, [Next]_vars PROVE IInv'
  OBVIOUS
<1>1. ASSUME NEW c \in Convs, EntryNext(c) PROVE IInv'
  BY <1>1, EntryKeepsIInv
<1>2. ASSUME NEW j \in Jobs, CloserNext(j) \/ FillNext(j) \/ DispatchNext(j) PROVE IInv'
  BY <1>2, CloserKeepsIInv, FillKeepsIInv, DispatchKeepsIInv
<1>3. ASSUME NEW j \in Jobs, NEW a \in Agents, ReadLoad(j, a) PROVE IInv'
  BY <1>3, TRUE \in BOOLEAN, PresenceKeepsIInv
<1>4. ASSUME NEW j \in Jobs, NEW status \in BOOLEAN, SetStatus(j, status) PROVE IInv'
  <2>1. job[j].agent \in Agents
    BY <1>4 DEF SetStatus, IInv, JobInv, JobFits, FitsIn, FieldsFit, WithAgent, JobStates
  <2> QED BY <1>4, <2>1, PresenceKeepsIInv
<1>5. ASSUME NEW a \in Agents, GoOffline(a) PROVE IInv'
  <2>1. online' \in [Agents -> BOOLEAN]
    BY <1>5, Zenon DEF GoOffline, IInv, TypeOK
  <2>2. UNCHANGED <<conv, task, count, entry, job, requests, spoiled>>
    BY <1>5 DEF GoOffline
  <2> QED BY <2>1, <2>2 DEF IInv, TypeOK, ConvInv, EntryInv, TaskInv, JobInv, JobFits, FitsIn, LockInv
<1>6. ASSUME NEW t \in Tasks, NEW status \in {"canceled", "timeout"}, DropTask(t, status)
      PROVE  IInv'
  BY <1>6, DropKeepsIInv
<1>7. CASE UNCHANGED vars
  BY <1>7 DEF vars, IInv, TypeOK, ConvInv, EntryInv, TaskInv, JobInv, JobFits, FitsIn, LockInv
<1> QED BY <1>1, <1>2, <1>3, <1>4, <1>5, <1>6, <1>7 DEF Next

\* The invariant holds throughout.
THEOREM Invariance == Spec => []IInv
<1>1. Init => IInv
  BY InitIInv
<1>2. IInv /\ [Next]_vars => IInv'
  BY NextKeepsIInv
<1> QED BY <1>1, <1>2, PTL DEF Spec

\* The variables keep their types.
THEOREM TypeCorrect == Spec => []TypeOK
<1>1. IInv => TypeOK
  BY DEF IInv
<1> QED BY <1>1, Invariance, PTL

-----------------------------------------------------------------------------

\* What a step may do to a task: put it into the queue once, drop it while it is
\* open, or give it to a conversation that is served; a settled one is touched only
\* by whom Overwrites names.
TaskMoves(t) ==
  \/ task'[t] = task[t]
  \/ task[t] = "none" /\ task'[t] = "queued"
  \/ Open(t) /\ task'[t] \in {"canceled", "timeout"}
  \/ /\ task[t] = "queued" \/ \E j \in Jobs : Overwrites(j, t)
     /\ \/ task'[t] = "queued"
        \/ task'[t] \in Given /\ conv'[ConvOf[t]].status \in Past

\* The assignments move the task that they hold, and nothing else.
LEMMA GivenMoves ==
  ASSUME IInv, NEW j \in Jobs, NEW s \in {"queued", "assigning", "assigned"},
         \/ job[j].pc \in Locking \ {"dispatching"}
         \/ job[j].pc \in {"given", "settling"},
         task' = [task EXCEPT ![job[j].task] = s],
         s \in Given => conv'[ConvOf[job[j].task]].status \in Past,
         NEW t \in Tasks
  PROVE  TaskMoves(t)
<1>1. JobFits(job[j]) /\ TypeOK
  BY DEF IInv, JobInv
<1>2. CASE t = job[j].task
  <2>1. task'[t] = s
    BY <1>1, <1>2 DEF TypeOK
  <2>2. task[t] = "queued" \/ Overwrites(j, t)
    BY <1>1, <1>2 DEF JobFits, FitsIn, Overwrites
  <2> QED BY <1>2, <2>1, <2>2 DEF TaskMoves, Given
<1>3. CASE t # job[j].task
  BY <1>1, <1>3 DEF TaskMoves, TypeOK
<1> QED BY <1>2, <1>3

LEMMA FirstCommitMoves ==
  ASSUME IInv, NEW j \in Jobs, job[j].pc \in {"reserved", "dispatched"},
         GiveTask(job[j].task, job[j].agent), NEW t \in Tasks
  PROVE  TaskMoves(t)
<1>1. JobFits(job[j]) /\ TypeOK
  BY DEF IInv, JobInv
<1>2. job[j].task \in Tasks /\ ConvOf[job[j].task] \in Convs
  BY <1>1, TasksAssumption DEF JobFits, FitsIn, FieldsFit, WithTask
<1>3. conv'[ConvOf[job[j].task]].status \in Past
  BY <1>1, <1>2 DEF GiveTask, TypeOK, Past
<1>4. /\ "assigning" \in {"queued", "assigning", "assigned"}
      /\ task' = [task EXCEPT ![job[j].task] = "assigning"]
      /\ job[j].pc \in Locking \ {"dispatching"}
  BY DEF GiveTask, Locking
<1> QED BY <1>3, <1>4, GivenMoves

LEMMA LastCommitMoves ==
  ASSUME IInv, NEW j \in Jobs, job[j].pc \in {"given", "settling"},
         SettleTask(job[j].task), UNCHANGED conv, NEW t \in Tasks
  PROVE  TaskMoves(t)
<1>1. conv'[ConvOf[job[j].task]].status \in Past
  BY DEF IInv, JobInv, JobFits, FitsIn
<1>2. /\ "assigned" \in {"queued", "assigning", "assigned"}
      /\ task' = [task EXCEPT ![job[j].task] = "assigned"]
  BY DEF SettleTask
<1> QED BY <1>1, <1>2, GivenMoves

\* Every step moves every task so.
LEMMA NextMovesTasks ==
  ASSUME IInv, [Next]_vars, NEW t \in Tasks
  PROVE  TaskMoves(t)
<1>0. TypeOK
  BY DEF IInv
<1>1. ASSUME NEW c \in Convs, EntryNext(c) PROVE TaskMoves(t)
  <2>1. CASE InsertTask(c)
    BY <1>0, <2>1 DEF InsertTask, Enqueue, TaskMoves, TypeOK
  <2>2. CASE LeaveQueue(c)
    BY <1>0, <2>2 DEF LeaveQueue, OpenTasks, TaskMoves, TypeOK
  <2>3. CASE ~InsertTask(c) /\ ~LeaveQueue(c)
    BY <1>1, <2>3 DEF EntryNext, SelectAgent, CreateConversation, CountSelected, Reenter,
                      CheckDuplicate, RefuseTask, AskToLeave, TaskMoves
  <2> QED BY <2>1, <2>2, <2>3
<1>2. ASSUME NEW j \in Jobs, CloserNext(j) PROVE TaskMoves(t)
  BY <1>2 DEF CloserNext, EndConversation, TransferConversation, DecrementCount, ClampCount,
              CountTarget, ReadForEnd, ReadForTransfer, TaskMoves
<1>3. ASSUME NEW j \in Jobs, FillNext(j) PROVE TaskMoves(t)
  <2>1. CASE InsertListed(j)
    BY <1>0, <2>1 DEF InsertListed, Enqueue, TaskMoves, TypeOK
  <2>2. CASE ReserveRefused(j)
    <3>1. /\ "queued" \in {"queued", "assigning", "assigned"} /\ "queued" \notin Given
          /\ task' = [task EXCEPT ![job[j].task] = "queued"]
          /\ job[j].pc \in Locking \ {"dispatching"}
      BY <2>2 DEF ReserveRefused, Locking, Given
    <3> QED BY <3>1, GivenMoves
  <2>3. CASE GivePulled(j)
    BY <2>3, FirstCommitMoves DEF GivePulled
  <2>4. CASE CommitPull(j)
    BY <2>4, LastCommitMoves DEF CommitPull
  <2>5. ASSUME NEW u \in Tasks, VoidPulled(j, u) PROVE TaskMoves(t)
    BY <1>0, <2>5 DEF VoidPulled, Void, TaskMoves, Open, TypeOK
  <2>6. CASE UNCHANGED task
    BY <2>6 DEF TaskMoves
  <2> QED BY <1>3, <2>1, <2>2, <2>3, <2>4, <2>5, <2>6
          DEF FillNext, ReadPlaces, ListQueued, StartPulling, NothingToPull, LockChosen,
              ReserveAgent, PullFails, CheckListed, LockTask, PullByHand, ReadByHand
<1>4. ASSUME NEW j \in Jobs, DispatchNext(j) PROVE TaskMoves(t)
  <2>1. CASE GiveDispatched(j)
    BY <2>1, FirstCommitMoves DEF GiveDispatched
  <2>2. CASE CommitDispatch(j)
    BY <2>2, LastCommitMoves DEF CommitDispatch
  <2>3. ASSUME NEW u \in Tasks, VoidNext(j, u) PROVE TaskMoves(t)
    BY <1>0, <2>3 DEF VoidNext, Void, TaskMoves, Open, TypeOK
  <2>4. CASE UNCHANGED task
    BY <2>4 DEF TaskMoves
  <2> QED BY <1>4, <2>1, <2>2, <2>3, <2>4
          DEF DispatchNext, AllBusy, DispatchFails, LockNext, ReserveCandidate
<1>5. ASSUME NEW u \in Tasks, NEW status \in {"canceled", "timeout"}, DropTask(u, status)
      PROVE  TaskMoves(t)
  BY <1>0, <1>5 DEF DropTask, TaskMoves, TypeOK
<1>6. ASSUME \/ \E j \in Jobs, a \in Agents : ReadLoad(j, a)
             \/ \E j \in Jobs, status \in BOOLEAN : SetStatus(j, status)
             \/ \E a \in Agents : GoOffline(a)
             \/ UNCHANGED vars
      PROVE  TaskMoves(t)
  BY <1>6 DEF ReadLoad, SetStatus, GoOffline, vars, TaskMoves
<1> QED BY <1>1, <1>2, <1>3, <1>4, <1>5, <1>6 DEF Next

\* A task that was given, cancelled or timed out is changed only by an assignment
\* between its two commits or by a page that assigns what it has read before: the
\* row lock keeps everybody else out.
THEOREM SettledStays == Spec => SettledTaskStays
<1>1. ASSUME IInv, [Next]_vars, NEW t \in Tasks, task[t] \in Settled, task'[t] # task[t]
      PROVE  \E j \in Jobs : Overwrites(j, t)
  <2>1. TaskMoves(t)
    BY <1>1, NextMovesTasks
  <2> QED BY <1>1, <2>1 DEF TaskMoves, Settled, Open
<1>2. IInv /\ [Next]_vars =>
        [\A t \in Tasks :
           task[t] \in Settled /\ task'[t] # task[t] => \E j \in Jobs : Overwrites(j, t)]_vars
  BY <1>1
<1> QED BY <1>2, Invariance, PTL DEF Spec, SettledTaskStays

-----------------------------------------------------------------------------

\* Who waits and has no request under way after a step did so before it, or has
\* a task in the queue by now.
LEMMA NextQueues ==
  ASSUME IInv, [Next]_vars, NEW c \in Convs, Waiting(c)', entry'[c].pc = "done"
  PROVE  \/ Waiting(c) /\ entry[c].pc = "done"
         \/ \E t \in Tasks : ConvOf[t] = c /\ task'[t] = "queued"
<1>0. TypeOK /\ EntryInv
  BY DEF IInv
<1> SUFFICES ASSUME ~(Waiting(c) /\ entry[c].pc = "done")
             PROVE  \E t \in Tasks : ConvOf[t] = c /\ task'[t] = "queued"
  OBVIOUS
<1>1. ASSUME NEW d \in Convs, EntryNext(d)
      PROVE  \E t \in Tasks : ConvOf[t] = c /\ task'[t] = "queued"
  <2>1. CASE SelectAgent(d)
    BY <1>0, <2>1 DEF SelectAgent, Waiting, TypeOK
  <2>2. CASE CreateConversation(d)
    BY <1>0, <2>2 DEF CreateConversation, EntryStep, Waiting, TypeOK
  <2>3. CASE CountSelected(d)
    BY <1>0, <2>3 DEF CountSelected, EntryStep, NoRequest, Waiting, TypeOK, EntryInv
  <2>4. CASE Reenter(d)
    BY <1>0, <2>4 DEF Reenter, Waiting, TypeOK
  <2>5. CASE CheckDuplicate(d)
    <3>1. d = c /\ OpenTasks(c) # {} /\ UNCHANGED <<conv, task>>
      BY <1>0, <2>5 DEF CheckDuplicate, EntryStep, NoRequest, Waiting, TypeOK
    <3>2. PICK t \in Tasks : ConvOf[t] = c /\ Open(t)
      BY <3>1 DEF OpenTasks
    <3>3. task[t] # "assigning"
      BY <3>1, <3>2 DEF IInv, TaskInv, Waiting, Given, Past
    <3> QED BY <3>1, <3>2, <3>3 DEF Open
  <2>6. CASE InsertTask(d)
    BY <1>0, <2>6 DEF InsertTask, Enqueue, EntryStep, NoRequest, Waiting, TypeOK
  <2>7. CASE RefuseTask(d)
    BY <1>0, <2>7 DEF RefuseTask, EntryStep, NoRequest, Waiting, TypeOK
  <2>8. CASE AskToLeave(d)
    BY <1>0, <2>8 DEF AskToLeave, Waiting, TypeOK
  <2>9. CASE LeaveQueue(d)
    <3>1. d = c
      BY <1>0, <2>9 DEF LeaveQueue, EntryStep, Close, Waiting, TypeOK
    <3>2. OpenTasks(c) # {}
      BY <1>0, <2>9, <3>1 DEF LeaveQueue, EntryStep, NoRequest, TypeOK
    <3>3. CASE Close(c)
      BY <1>0, <3>3 DEF Close, Waiting, TypeOK
    <3>4. CASE UNCHANGED <<conv, task>>
      <4>1. PICK t \in Tasks : ConvOf[t] = c /\ Open(t)
        BY <3>2 DEF OpenTasks
      <4>2. task[t] # "assigning"
        BY <3>4, <4>1 DEF IInv, TaskInv, Waiting, Given, Past
      <4> QED BY <3>4, <4>1, <4>2 DEF Open
    <3> QED BY <2>9, <3>1, <3>3, <3>4 DEF LeaveQueue
  <2> QED BY <1>1, <2>1, <2>2, <2>3, <2>4, <2>5, <2>6, <2>7, <2>8, <2>9 DEF EntryNext
<1>2. ASSUME UNCHANGED entry,
             \A d \in Convs : conv'[d].status = "queued" => conv[d].status = "queued"
      PROVE  FALSE
  BY <1>2 DEF Waiting
<1>3. ASSUME NEW j \in Jobs, CloserNext(j) PROVE FALSE
  <2>1. UNCHANGED entry
    BY <1>3 DEF CloserNext, EndConversation, TransferConversation, DecrementCount, ClampCount,
                CountTarget, ReadForEnd, ReadForTransfer
  <2>2. CASE EndConversation(j)
    BY <1>0, <1>2, <2>1, <2>2 DEF EndConversation, Close, TypeOK
  <2>3. CASE TransferConversation(j)
    BY <1>0, <1>2, <2>1, <2>3 DEF TransferConversation, TypeOK
  <2>4. CASE UNCHANGED conv
    BY <1>2, <2>1, <2>4
  <2> QED BY <1>3, <2>2, <2>3, <2>4
          DEF CloserNext, DecrementCount, ClampCount, CountTarget, ReadForEnd, ReadForTransfer
<1>4. ASSUME NEW j \in Jobs, FillNext(j) \/ DispatchNext(j) PROVE FALSE
  <2>1. UNCHANGED entry
    BY <1>4 DEF FillNext, DispatchNext, ReadPlaces, ListQueued, InsertListed, StartPulling,
                NothingToPull, ReserveAgent, ReserveRefused, GivePulled, CommitPull, PullFails, CheckListed,
                LockTask, LockChosen, VoidPulled, PullByHand, ReadByHand, AllBusy, GiveDispatched,
                CommitDispatch, DispatchFails, LockNext, VoidNext, ReserveCandidate
  <2>2. ASSUME NEW t \in Tasks, NEW seen, Void(t, seen) PROVE FALSE
    BY <1>0, <1>2, <2>1, <2>2 DEF Void, Close, TypeOK
  <2>3. ASSUME GiveTask(job[j].task, job[j].agent) PROVE FALSE
    BY <1>0, <1>2, <2>1, <2>3 DEF GiveTask, TypeOK
  <2>4. CASE UNCHANGED conv
    BY <1>2, <2>1, <2>4
  <2> QED BY <1>4, <2>2, <2>3, <2>4
          DEF FillNext, DispatchNext, ReadPlaces, ListQueued, InsertListed, StartPulling,
              NothingToPull, ReserveAgent, ReserveRefused, GivePulled, CommitPull, PullFails, CheckListed,
              LockTask, LockChosen, VoidPulled, PullByHand, ReadByHand, AllBusy, GiveDispatched,
              CommitDispatch, DispatchFails, LockNext, VoidNext, ReserveCandidate
<1>5. ASSUME \/ \E j \in Jobs, a \in Agents : ReadLoad(j, a)
             \/ \E j \in Jobs, status \in BOOLEAN : SetStatus(j, status)
             \/ \E a \in Agents : GoOffline(a)
             \/ \E t \in Tasks, status \in {"canceled", "timeout"} : DropTask(t, status)
             \/ UNCHANGED vars
      PROVE  FALSE
  BY <1>2, <1>5 DEF ReadLoad, SetStatus, GoOffline, DropTask, vars
<1> QED BY <1>1, <1>3, <1>4, <1>5 DEF Next

\* The queue does not forget a visitor.
THEOREM WaitersHaveTasks == Spec => []WaitingHasTask
<1>1. Init => WaitingHasTask
  BY DEF Init, WaitingHasTask, Waiting
<1>2. IInv /\ WaitingHasTask /\ [Next]_vars => WaitingHasTask'
  <2> SUFFICES ASSUME IInv, WaitingHasTask, [Next]_vars, NEW c \in Convs,
                      Waiting(c)', entry'[c].pc = "done"
               PROVE  \E t \in Tasks :
                        ConvOf[t] = c /\ task'[t] \in {"queued", "canceled", "timeout"}
    BY DEF WaitingHasTask
  <2>1. CASE Waiting(c) /\ entry[c].pc = "done"
    <3>1. PICK t \in Tasks : ConvOf[t] = c /\ task[t] \in {"queued", "canceled", "timeout"}
      BY <2>1 DEF WaitingHasTask
    <3>2. TaskMoves(t)
      BY NextMovesTasks
    <3> QED BY <3>1, <3>2 DEF TaskMoves, Waiting, Open, Past
  <2> QED BY <2>1, NextQueues
<1> QED BY <1>1, <1>2, Invariance, PTL DEF Spec

-----------------------------------------------------------------------------
(* The counters.  The ledger of an agent is a sum over the conversations and  *)
(* the jobs; a step changes the terms of one of each at most.                *)

Bit(p) == IF p THEN 1 ELSE 0

\* What a conversation with its visitor's request, and what a job, is worth.
ConvTerm(v, e, a) ==
  Bit(v.status = "active" /\ v.agent = a) - Bit(e.pc = "counting" /\ e.agent = a)
JobTerm(r, a) ==
  Bit(r.pc \in {"reserved", "dispatched"} /\ r.agent = a) + Bit(r.pc = "ended" /\ r.agent = a)
  - Bit(r.target = a /\ r.pc # "moving")

ConvSum(a) == Load(a) - Cardinality(NewFor(a))
JobSum(a) ==
  Cardinality(ReservedFor(a)) + Cardinality(OwedBy(a)) - Cardinality(MovedTo(a))

\* Two finite sets that differ in one element at most.
LEMMA OneApart ==
  ASSUME NEW U, IsFiniteSet(U), NEW S \in SUBSET U, NEW T \in SUBSET U, NEW e,
         S \ {e} = T \ {e}
  PROVE  /\ Cardinality(S) \in Nat /\ Cardinality(T) \in Nat
         /\ Cardinality(T) - Cardinality(S) = Bit(e \in T) - Bit(e \in S)
<1>1. IsFiniteSet(S) /\ IsFiniteSet(T)
  BY FS_Subset
<1>2. Cardinality(S) \in Nat /\ Cardinality(T) \in Nat
  BY <1>1, FS_CardinalityType
<1>3. /\ Cardinality(S \ {e}) = Cardinality(S) - Bit(e \in S)
      /\ Cardinality(T \ {e}) = Cardinality(T) - Bit(e \in T)
  <2>1. ASSUME NEW R, IsFiniteSet(R)
        PROVE  Cardinality(R \ {e}) = Cardinality(R) - Bit(e \in R)
    <3>1. Cardinality(R) \in Nat
      BY <2>1, FS_CardinalityType
    <3>2. CASE e \in R
      BY <2>1, <3>2, FS_RemoveElement DEF Bit
    <3>3. CASE e \notin R
      <4>1. R \ {e} = R
        BY <3>3
      <4> QED BY <3>1, <3>3, <4>1 DEF Bit
    <3> QED BY <3>2, <3>3
  <2> QED BY <1>1, <2>1
<1> QED BY <1>2, <1>3 DEF Bit

\* The ledger after a step of one job.
LEMMA JobSumMoves ==
  ASSUME NEW j \in Jobs, \A i \in Jobs \ {j} : job'[i] = job[i], NEW a
  PROVE  JobSum(a) \in Int /\ JobSum(a)' - JobSum(a) = JobTerm(job'[j], a) - JobTerm(job[j], a)
<1>1. /\ Cardinality(ReservedFor(a)) \in Nat /\ Cardinality(ReservedFor(a)') \in Nat
      /\ Cardinality(ReservedFor(a)') - Cardinality(ReservedFor(a))
           = Bit(j \in ReservedFor(a)') - Bit(j \in ReservedFor(a))
  <2>1. ReservedFor(a) \ {j} = ReservedFor(a)' \ {j}
    BY DEF ReservedFor
  <2>2. ReservedFor(a) \in SUBSET Jobs /\ ReservedFor(a)' \in SUBSET Jobs
    BY DEF ReservedFor
  <2> QED BY <2>1, <2>2, FiniteAssumption, OneApart
<1>2. /\ Cardinality(OwedBy(a)) \in Nat /\ Cardinality(OwedBy(a)') \in Nat
      /\ Cardinality(OwedBy(a)') - Cardinality(OwedBy(a))
           = Bit(j \in OwedBy(a)') - Bit(j \in OwedBy(a))
  <2>1. OwedBy(a) \ {j} = OwedBy(a)' \ {j}
    BY DEF OwedBy
  <2>2. OwedBy(a) \in SUBSET Jobs /\ OwedBy(a)' \in SUBSET Jobs
    BY DEF OwedBy
  <2> QED BY <2>1, <2>2, FiniteAssumption, OneApart
<1>3. /\ Cardinality(MovedTo(a)) \in Nat /\ Cardinality(MovedTo(a)') \in Nat
      /\ Cardinality(MovedTo(a)') - Cardinality(MovedTo(a))
           = Bit(j \in MovedTo(a)') - Bit(j \in MovedTo(a))
  <2>1. MovedTo(a) \ {j} = MovedTo(a)' \ {j}
    BY DEF MovedTo
  <2>2. MovedTo(a) \in SUBSET Jobs /\ MovedTo(a)' \in SUBSET Jobs
    BY DEF MovedTo
  <2> QED BY <2>1, <2>2, FiniteAssumption, OneApart
<1>4. /\ Bit(j \in ReservedFor(a)) = Bit(job[j].pc \in {"reserved", "dispatched"} /\ job[j].agent = a)
      /\ Bit(j \in ReservedFor(a)') = Bit(job'[j].pc \in {"reserved", "dispatched"} /\ job'[j].agent = a)
      /\ Bit(j \in OwedBy(a)) = Bit(job[j].pc = "ended" /\ job[j].agent = a)
      /\ Bit(j \in OwedBy(a)') = Bit(job'[j].pc = "ended" /\ job'[j].agent = a)
      /\ Bit(j \in MovedTo(a)) = Bit(job[j].target = a /\ job[j].pc # "moving")
      /\ Bit(j \in MovedTo(a)') = Bit(job'[j].target = a /\ job'[j].pc # "moving")
  BY DEF ReservedFor, OwedBy, MovedTo, Bit
<1>5. JobSum(a)' = Cardinality(ReservedFor(a)') + Cardinality(OwedBy(a)') - Cardinality(MovedTo(a)')
  BY DEF JobSum
<1> QED BY <1>1, <1>2, <1>3, <1>4, <1>5 DEF JobSum, JobTerm, Bit

\* The ledger after a step that changes one conversation and its visitor's request.
LEMMA ConvSumMoves ==
  ASSUME NEW c \in Convs, NEW a,
         \A d \in Convs \ {c} : conv'[d] = conv[d] /\ entry'[d] = entry[d]
  PROVE  /\ ConvSum(a) \in Int
         /\ ConvSum(a)' - ConvSum(a)
              = ConvTerm(conv'[c], entry'[c], a) - ConvTerm(conv[c], entry[c], a)
<1> DEFINE S == {d \in Convs : Served(d, a)}
<1>1. /\ Load(a) \in Nat /\ Load(a)' \in Nat
      /\ Load(a)' - Load(a) = Bit(c \in S') - Bit(c \in S)
  <2>1. S \ {c} = S' \ {c} /\ S \in SUBSET Convs /\ S' \in SUBSET Convs
    BY DEF Served
  <2>2. /\ Cardinality(S) \in Nat /\ Cardinality(S') \in Nat
        /\ Cardinality(S') - Cardinality(S) = Bit(c \in S') - Bit(c \in S)
    <3> HIDE DEF S
    <3> QED BY <2>1, FiniteAssumption, OneApart
  <2>3. Load(a) = Cardinality(S) /\ Load(a)' = Cardinality(S')
    BY DEF Load
  <2> QED BY <2>2, <2>3
<1>2. /\ Cardinality(NewFor(a)) \in Nat /\ Cardinality(NewFor(a)') \in Nat
      /\ Cardinality(NewFor(a)') - Cardinality(NewFor(a))
           = Bit(c \in NewFor(a)') - Bit(c \in NewFor(a))
  <2>1. NewFor(a) \ {c} = NewFor(a)' \ {c}
    BY DEF NewFor
  <2>2. NewFor(a) \in SUBSET Convs /\ NewFor(a)' \in SUBSET Convs
    BY DEF NewFor
  <2> QED BY <2>1, <2>2, FiniteAssumption, OneApart
<1>3. /\ Bit(c \in S) = Bit(conv[c].status = "active" /\ conv[c].agent = a)
      /\ Bit(c \in S') = Bit(conv'[c].status = "active" /\ conv'[c].agent = a)
      /\ Bit(c \in NewFor(a)) = Bit(entry[c].pc = "counting" /\ entry[c].agent = a)
      /\ Bit(c \in NewFor(a)') = Bit(entry'[c].pc = "counting" /\ entry'[c].agent = a)
  BY DEF Served, NewFor, Bit
<1>4. ConvSum(a)' = Load(a)' - Cardinality(NewFor(a)')
  BY DEF ConvSum
<1> HIDE DEF S
<1> QED BY <1>1, <1>2, <1>3, <1>4 DEF ConvSum, ConvTerm, Bit

\* The ledger is the sum over the conversations and the jobs.
LEMMA LedgerIsSum ==
  ASSUME NEW a
  PROVE  Ledger(a) = ConvSum(a) + JobSum(a) /\ Ledger(a)' = ConvSum(a)' + JobSum(a)'
<1>1. ASSUME NEW U, IsFiniteSet(U), NEW S \in SUBSET U PROVE Cardinality(S) \in Nat
  BY <1>1, FS_Subset, FS_CardinalityType
<1>2. /\ Load(a) \in Nat /\ Cardinality(NewFor(a)) \in Nat
      /\ Load(a)' \in Nat /\ Cardinality(NewFor(a)') \in Nat
  BY <1>1, FiniteAssumption DEF Load, NewFor
<1>3. /\ Cardinality(ReservedFor(a)) \in Nat /\ Cardinality(ReservedFor(a)') \in Nat
      /\ Cardinality(OwedBy(a)) \in Nat /\ Cardinality(OwedBy(a)') \in Nat
      /\ Cardinality(MovedTo(a)) \in Nat /\ Cardinality(MovedTo(a)') \in Nat
  BY <1>1, FiniteAssumption DEF ReservedFor, OwedBy, MovedTo
<1>4. /\ Ledger(a)' = Load(a)' + Cardinality(ReservedFor(a)') + Cardinality(OwedBy(a)')
                        - Cardinality(NewFor(a)') - Cardinality(MovedTo(a)')
      /\ ConvSum(a)' = Load(a)' - Cardinality(NewFor(a)')
      /\ JobSum(a)' = Cardinality(ReservedFor(a)') + Cardinality(OwedBy(a)') - Cardinality(MovedTo(a)')
  BY DEF Ledger, ConvSum, JobSum
<1> QED BY <1>2, <1>3, <1>4 DEF Ledger, ConvSum, JobSum

\* A step of one job moves the ledger by the terms of that job.
LEMMA LedgerOfJob ==
  ASSUME NEW j \in Jobs, \A i \in Jobs \ {j} : job'[i] = job[i],
         UNCHANGED <<conv, entry>>, NEW a
  PROVE  Ledger(a) \in Int /\ Ledger(a)' = Ledger(a) + JobTerm(job'[j], a) - JobTerm(job[j], a)
<1>1. ConvSum(a)' = ConvSum(a)
  BY DEF ConvSum, Load, Served, NewFor
<1>2. ConvSum(a) \in Int
  <2>1. Load(a) \in Nat /\ Cardinality(NewFor(a)) \in Nat
    BY FiniteAssumption, FS_Subset, FS_CardinalityType DEF Load, NewFor
  <2> QED BY <2>1 DEF ConvSum
<1>3. JobTerm(job'[j], a) \in Int /\ JobTerm(job[j], a) \in Int /\ JobSum(a)' \in Int
  <2>1. JobTerm(job'[j], a) \in Int /\ JobTerm(job[j], a) \in Int
    BY DEF JobTerm, Bit
  <2>2. /\ Cardinality(ReservedFor(a)') \in Nat /\ Cardinality(OwedBy(a)') \in Nat
        /\ Cardinality(MovedTo(a)') \in Nat
    BY FiniteAssumption, FS_Subset, FS_CardinalityType DEF ReservedFor, OwedBy, MovedTo
  <2> QED BY <2>1, <2>2 DEF JobSum
<1> QED BY <1>1, <1>2, <1>3, JobSumMoves, LedgerIsSum

\* A step of one conversation, or of it and one job, by the terms of both.
LEMMA LedgerOfBoth ==
  ASSUME NEW c \in Convs, NEW a,
         \A d \in Convs \ {c} : conv'[d] = conv[d] /\ entry'[d] = entry[d]
  PROVE  /\ Ledger(a) \in Int
         /\ UNCHANGED job => Ledger(a)' = Ledger(a) + ConvTerm(conv'[c], entry'[c], a)
                                          - ConvTerm(conv[c], entry[c], a)
         /\ \A j \in Jobs : (\A i \in Jobs \ {j} : job'[i] = job[i]) =>
              Ledger(a)' = Ledger(a) + ConvTerm(conv'[c], entry'[c], a)
                           - ConvTerm(conv[c], entry[c], a)
                           + JobTerm(job'[j], a) - JobTerm(job[j], a)
<1>1. /\ ConvTerm(conv'[c], entry'[c], a) \in Int /\ ConvTerm(conv[c], entry[c], a) \in Int
      /\ \A j \in Jobs : JobTerm(job'[j], a) \in Int /\ JobTerm(job[j], a) \in Int
  BY DEF ConvTerm, JobTerm, Bit
<1>2. /\ ConvSum(a) \in Int /\ ConvSum(a)' \in Int
      /\ JobSum(a) \in Int /\ JobSum(a)' \in Int
  <2>1. /\ Load(a) \in Nat /\ Cardinality(NewFor(a)) \in Nat
        /\ Load(a)' \in Nat /\ Cardinality(NewFor(a)') \in Nat
    BY FiniteAssumption, FS_Subset, FS_CardinalityType DEF Load, NewFor
  <2>2. /\ Cardinality(ReservedFor(a)) \in Nat /\ Cardinality(OwedBy(a)) \in Nat
        /\ Cardinality(MovedTo(a)) \in Nat
    BY FiniteAssumption, FS_Subset, FS_CardinalityType DEF ReservedFor, OwedBy, MovedTo
  <2>3. /\ Cardinality(ReservedFor(a)') \in Nat /\ Cardinality(OwedBy(a)') \in Nat
        /\ Cardinality(MovedTo(a)') \in Nat
    BY FiniteAssumption, FS_Subset, FS_CardinalityType DEF ReservedFor, OwedBy, MovedTo
  <2> QED BY <2>1, <2>2, <2>3 DEF ConvSum, JobSum
<1>3. UNCHANGED job => JobSum(a)' = JobSum(a)
  BY DEF JobSum, ReservedFor, OwedBy, MovedTo
<1>4. ConvSum(a)' - ConvSum(a)
        = ConvTerm(conv'[c], entry'[c], a) - ConvTerm(conv[c], entry[c], a)
  BY ConvSumMoves
<1>5. \A j \in Jobs : (\A i \in Jobs \ {j} : job'[i] = job[i]) =>
        JobSum(a)' - JobSum(a) = JobTerm(job'[j], a) - JobTerm(job[j], a)
  BY JobSumMoves
<1> QED BY <1>1, <1>2, <1>3, <1>4, <1>5, LedgerIsSum

\* The places of a job that have a part in the ledger.
Loud == {"reserved", "dispatched", "ended", "moving"}

\* A job that moves between the other places leaves the counters in agreement.
LEMMA QuietJob ==
  ASSUME IInv, LedgerAgrees, NEW j \in Jobs, \A i \in Jobs \ {j} : job'[i] = job[i],
         UNCHANGED <<conv, entry, count, spoiled>>,
         job[j].pc \notin Loud, job'[j].pc \notin Loud, job'[j].target = job[j].target
  PROVE  LedgerAgrees'
<1> SUFFICES ASSUME NEW a \in Agents \ spoiled PROVE count[a] = Ledger(a)'
  BY DEF LedgerAgrees
<1>1. JobTerm(job'[j], a) = JobTerm(job[j], a) /\ JobTerm(job[j], a) \in Int
  BY DEF JobTerm, Bit, Loud
<1>2. count[a] = Ledger(a) /\ Ledger(a) \in Int
  BY LedgerOfJob DEF LedgerAgrees
<1> QED BY <1>1, <1>2, LedgerOfJob

\* A visitor's requests keep the counters in agreement.
LEMMA EntryKeepsLedger ==
  ASSUME IInv, LedgerAgrees, NEW c \in Convs, EntryNext(c)
  PROVE  LedgerAgrees'
<1>0. /\ TypeOK /\ ConvInv /\ EntryInv
      /\ conv[c] \in [status : ConvStates, agent : AgentOrNone]
      /\ entry[c] \in [pc : EntryStates, agent : AgentOrNone, row : RowStates]
  BY DEF IInv, TypeOK
<1>1. /\ UNCHANGED job /\ spoiled \subseteq spoiled'
      /\ \A d \in Convs \ {c} : conv'[d] = conv[d] /\ entry'[d] = entry[d]
  BY <1>0 DEF EntryNext, SelectAgent, CreateConversation, CountSelected, Reenter, CheckDuplicate,
         InsertTask, RefuseTask, AskToLeave, LeaveQueue, EntryStep, Close, TypeOK
<1> SUFFICES ASSUME NEW a \in Agents, a \notin spoiled' PROVE count'[a] = Ledger(a)'
  BY DEF LedgerAgrees
<1> DEFINE old == ConvTerm(conv[c], entry[c], a)
           new == ConvTerm(conv'[c], entry'[c], a)
<1>2. /\ count[a] = Ledger(a) /\ Ledger(a) \in Int
      /\ Ledger(a)' = Ledger(a) + new - old
  BY <1>1, LedgerOfBoth DEF LedgerAgrees
<1>3. old \in Int /\ new \in Int
  BY DEF ConvTerm, Bit
<1> SUFFICES count'[a] = count[a] + new - old
  BY <1>2
<1>4. CASE CountSelected(c)
  <2>1. /\ entry[c].pc = "counting" /\ entry'[c].pc = "done"
        /\ count' = [count EXCEPT ![entry[c].agent] = @ + 1] /\ UNCHANGED conv
    BY <1>0, <1>4 DEF CountSelected, EntryStep, NoRequest, TypeOK
  <2>2. entry[c].agent \in Agents
    BY <1>0, <2>1 DEF EntryInv
  <2>3. count'[a] = count[a] + Bit(entry[c].agent = a) /\ count[a] \in Int
    BY <1>0, <2>1, <2>2 DEF TypeOK, Bit
  <2> QED BY <2>1, <2>3 DEF ConvTerm, Bit
<1>5. CASE CreateConversation(c)
  <2>1. /\ entry[c].pc = "selected" /\ conv[c].status = "none" /\ UNCHANGED count
        /\ entry'[c].agent = entry[c].agent
        /\ entry'[c].pc = (IF entry[c].agent = NoAgent THEN "enqueuing" ELSE "counting")
        /\ conv'[c].status = (IF entry[c].agent = NoAgent THEN "queued" ELSE "active")
        /\ conv'[c].agent = entry[c].agent
    BY <1>0, <1>5 DEF CreateConversation, EntryStep, TypeOK, EntryInv
  <2>2. new = 0 /\ old = 0
    BY <2>1 DEF ConvTerm, Bit
  <2>3. count[a] \in Int
    BY <1>0 DEF TypeOK
  <2> QED BY <2>1, <2>2, <2>3
<1>6. CASE LeaveQueue(c)
  <2>1. entry[c].pc = "leaving" /\ entry'[c].pc \in {"done", "refused"} /\ UNCHANGED count
    BY <1>0, <1>6 DEF LeaveQueue, EntryStep, NoRequest, TypeOK
  <2>2. \/ UNCHANGED conv
        \/ Close(c) /\ spoiled' = spoiled \cup Robbed(c)
    BY <1>6 DEF LeaveQueue
  <2>3. conv'[c] = conv[c] \/ (conv'[c].status = "closed" /\ ~Served(c, a))
    BY <1>0, <2>2 DEF Close, Robbed, Served, TypeOK
  <2>4. new = old
    BY <2>1, <2>3 DEF ConvTerm, Bit, Served
  <2>5. count[a] \in Int
    BY <1>0 DEF TypeOK
  <2> QED BY <1>3, <2>1, <2>4, <2>5
<1>7. ASSUME UNCHANGED <<conv, count>>, entry[c].pc # "counting", entry'[c].pc # "counting"
      PROVE  count'[a] = count[a] + new - old
  <2>1. new = old
    BY <1>7 DEF ConvTerm, Bit
  <2>2. count[a] \in Int
    BY <1>0 DEF TypeOK
  <2> QED BY <1>3, <1>7, <2>1, <2>2
<1>8. CASE SelectAgent(c) \/ Reenter(c) \/ AskToLeave(c)
  <2>1. UNCHANGED <<conv, count>> /\ entry[c].pc # "counting" /\ entry'[c].pc # "counting"
    <3>1. CASE SelectAgent(c)
      BY <1>0, <3>1 DEF SelectAgent, TypeOK
    <3>2. CASE Reenter(c)
      BY <1>0, <3>2 DEF Reenter, TypeOK
    <3>3. CASE AskToLeave(c)
      BY <1>0, <3>3 DEF AskToLeave, TypeOK
    <3> QED BY <1>8, <3>1, <3>2, <3>3
  <2> QED BY <1>7, <2>1
<1>9. CASE CheckDuplicate(c) \/ InsertTask(c) \/ RefuseTask(c)
  <2>1. UNCHANGED <<conv, count>> /\ entry[c].pc # "counting" /\ entry'[c].pc # "counting"
    BY <1>0, <1>9 DEF CheckDuplicate, InsertTask, RefuseTask, EntryStep, NoRequest, TypeOK
  <2> QED BY <1>7, <2>1
<1> QED BY <1>4, <1>5, <1>6, <1>8, <1>9 DEF EntryNext

\* A job of a step that leaves the conversations alone, by what it adds.
LEMMA CountedJob ==
  ASSUME IInv, LedgerAgrees, NEW j \in Jobs, \A i \in Jobs \ {j} : job'[i] = job[i],
         UNCHANGED <<conv, entry>>, spoiled \subseteq spoiled',
         \A a \in Agents \ spoiled' :
           count'[a] = count[a] + JobTerm(job'[j], a) - JobTerm(job[j], a)
  PROVE  LedgerAgrees'
<1> SUFFICES ASSUME NEW a \in Agents \ spoiled' PROVE count'[a] = Ledger(a)'
  BY DEF LedgerAgrees
<1>1. count[a] = Ledger(a) /\ a \notin spoiled
  BY DEF LedgerAgrees
<1> QED BY <1>1, LedgerOfJob

\* The requests that end and transfer conversations keep them in agreement.
LEMMA CloserKeepsLedger ==
  ASSUME IInv, LedgerAgrees, NEW j \in Jobs, CloserNext(j)
  PROVE  LedgerAgrees'
<1>0. /\ TypeOK /\ ConvInv /\ JobFits(job[j]) /\ job[j] \in JobType
      /\ \A a \in Agents : count[a] \in Int
  BY DEF IInv, JobInv, TypeOK
<1>b. ASSUME NEW r, Becomes(j, r)
      PROVE  job'[j] = r /\ \A i \in Jobs \ {j} : job'[i] = job[i]
  BY <1>0, <1>b DEF Becomes, TypeOK
<1>t. /\ job[j].pc \in WithAgent => job[j].agent \in Agents
      /\ job[j].target # NoAgent => job[j].pc \in WithTarget
      /\ job[j].target \in Agents \cup {NoAgent}
  BY <1>0 DEF JobFits, FitsIn, FieldsFit, JobType, AgentOrNone
<1>i. /\ Idle.pc = "idle" /\ Idle.target = NoAgent
      /\ \A a \in Agents : a # NoAgent /\ JobTerm(Idle, a) = 0
  BY IdleFits, AgentsAssumption DEF JobTerm, Bit
<1>1. CASE EndConversation(j)
  <2> DEFINE c == job[j].conv
             r == [Idle EXCEPT !.pc = "ended", !.agent = conv[c].agent]
  <2>1. /\ job[j].pc = "ending" /\ c \in Convs /\ conv[c].agent \in Agents /\ job[j].target = NoAgent
    BY <1>0, <1>t, <1>1 DEF EndConversation, JobFits, FitsIn, FieldsFit, WithTarget
  <2>2. r.pc = "ended" /\ r.agent = conv[c].agent /\ r.target = NoAgent
    BY IdleFits DEF Idle
  <2>3. Becomes(j, r) /\ UNCHANGED <<count, entry>>
    BY <1>1 DEF EndConversation
  <2>4. job'[j] = r /\ \A i \in Jobs \ {j} : job'[i] = job[i]
    BY <1>b, <2>3
  <2>5. /\ conv'[c].status = "closed" /\ conv'[c].agent = conv[c].agent
        /\ \A d \in Convs \ {c} : conv'[d] = conv[d]
    BY <1>0, <1>1, <2>1 DEF EndConversation, Close, TypeOK
  <2>6. spoiled' = IF conv[c].status = "active" THEN spoiled ELSE spoiled \cup {conv[c].agent}
    BY <1>1 DEF EndConversation
  <2> HIDE DEF r, c
  <2> SUFFICES ASSUME NEW a \in Agents \ spoiled' PROVE count'[a] = Ledger(a)'
    BY DEF LedgerAgrees
  <2>7. /\ count[a] = Ledger(a) /\ Ledger(a) \in Int
        /\ Ledger(a)' = Ledger(a) + ConvTerm(conv'[c], entry'[c], a) - ConvTerm(conv[c], entry[c], a)
                         + JobTerm(job'[j], a) - JobTerm(job[j], a)
    BY <2>1, <2>3, <2>4, <2>5, <2>6, LedgerOfBoth DEF LedgerAgrees
  <2>8. JobTerm(job'[j], a) = Bit(conv[c].agent = a) /\ JobTerm(job[j], a) = 0
    BY <1>i, <2>1, <2>2, <2>4 DEF JobTerm, Bit
  <2>9. ConvTerm(conv'[c], entry'[c], a) - ConvTerm(conv[c], entry[c], a) = 0 - Bit(conv[c].agent = a)
    BY <2>3, <2>5, <2>6 DEF ConvTerm, Bit
  <2>10. /\ ConvTerm(conv'[c], entry'[c], a) \in Int /\ ConvTerm(conv[c], entry[c], a) \in Int
         /\ Bit(conv[c].agent = a) \in Int
    BY DEF ConvTerm, Bit
  <2> QED BY <2>3, <2>7, <2>8, <2>9, <2>10
<1>2. CASE TransferConversation(j)
  <2> DEFINE c == job[j].conv
             r == [job[j] EXCEPT !.pc = "ended", !.conv = NoConv]
  <2>1. /\ job[j].pc = "moving" /\ c \in Convs /\ job[j].target \in Agents /\ job[j].agent \in Agents
        /\ UNCHANGED <<count, entry, spoiled>>
    BY <1>0, <1>2 DEF TransferConversation, JobFits, FitsIn, FieldsFit, WithAgent, JobStates
  <2>2. CASE ~Served(c, job[j].agent)
    <3>1. Becomes(j, Idle) /\ UNCHANGED conv
      BY <1>2, <2>2 DEF TransferConversation, End
    <3>2. job'[j] = Idle /\ \A i \in Jobs \ {j} : job'[i] = job[i]
      BY <1>b, <3>1
    <3>3. \A a \in Agents : JobTerm(job'[j], a) = 0 /\ JobTerm(job[j], a) = 0
      BY <1>i, <2>1, <3>2 DEF JobTerm, Bit
    <3> QED BY <1>0, <2>1, <3>1, <3>2, <3>3, CountedJob
  <2>3. CASE Served(c, job[j].agent)
    <3>1. r.pc = "ended" /\ r.agent = job[j].agent /\ r.target = job[j].target
      BY <1>0 DEF JobType
    <3>2. Becomes(j, r)
      BY <1>2, <2>3 DEF TransferConversation
    <3>3. job'[j] = r /\ \A i \in Jobs \ {j} : job'[i] = job[i]
      BY <1>b, <3>2
    <3>4. /\ conv'[c].status = "active" /\ conv'[c].agent = job[j].target
          /\ conv[c].status = "active" /\ conv[c].agent = job[j].agent
          /\ \A d \in Convs \ {c} : conv'[d] = conv[d]
      <4>1. conv[c].status = "active" /\ conv[c].agent = job[j].agent
        BY <2>3 DEF Served
      <4>2. conv' = [conv EXCEPT ![c].agent = job[j].target]
        BY <1>2, <2>3 DEF TransferConversation
      <4>3. conv \in [Convs -> [status : ConvStates, agent : AgentOrNone]]
        BY <1>0 DEF TypeOK
      <4> HIDE DEF c
      <4> QED BY <2>1, <4>1, <4>2, <4>3
    <3> HIDE DEF r, c
    <3> SUFFICES ASSUME NEW a \in Agents \ spoiled PROVE count[a] = Ledger(a)'
      BY <2>1 DEF LedgerAgrees
    <3>5. /\ count[a] = Ledger(a) /\ Ledger(a) \in Int
          /\ Ledger(a)' = Ledger(a) + ConvTerm(conv'[c], entry'[c], a) - ConvTerm(conv[c], entry[c], a)
                           + JobTerm(job'[j], a) - JobTerm(job[j], a)
      BY <2>1, <3>3, <3>4, LedgerOfBoth DEF LedgerAgrees
    <3>6. /\ JobTerm(job'[j], a) = Bit(job[j].agent = a) - Bit(job[j].target = a)
          /\ JobTerm(job[j], a) = 0
      BY <2>1, <3>1, <3>3 DEF JobTerm, Bit
    <3>7. ConvTerm(conv'[c], entry'[c], a) - ConvTerm(conv[c], entry[c], a)
            = Bit(job[j].target = a) - Bit(job[j].agent = a)
      BY <2>1, <3>4 DEF ConvTerm, Bit
    <3>8. /\ ConvTerm(conv'[c], entry'[c], a) \in Int /\ ConvTerm(conv[c], entry[c], a) \in Int
          /\ Bit(job[j].agent = a) \in Int /\ Bit(job[j].target = a) \in Int
      BY DEF ConvTerm, Bit
    <3> QED BY <3>5, <3>6, <3>7, <3>8
  <2> QED BY <2>2, <2>3
<1>3. CASE DecrementCount(j)
  <2> DEFINE pc == IF count[job[j].agent] - 1 < 0 THEN "clamping" ELSE "filling"
             r == [job[j] EXCEPT !.pc = pc]
  <2>1. /\ job[j].pc = "ended" /\ count' = [count EXCEPT ![job[j].agent] = @ - 1]
        /\ UNCHANGED <<conv, entry, spoiled>> /\ Becomes(j, r)
    BY <1>3 DEF DecrementCount, Step
  <2>2. r.pc \in {"clamping", "filling"} /\ r.target = job[j].target
    BY <1>0 DEF JobType
  <2>3. job'[j] = r /\ \A i \in Jobs \ {j} : job'[i] = job[i]
    BY <1>b, <2>1
  <2>4. job[j].agent \in Agents
    BY <1>t, <2>1 DEF WithAgent, JobStates
  <2> HIDE DEF r
  <2>5. \A a \in Agents : /\ JobTerm(job'[j], a) - JobTerm(job[j], a) = 0 - Bit(job[j].agent = a)
                           /\ JobTerm(job'[j], a) \in Int /\ JobTerm(job[j], a) \in Int
    BY <2>1, <2>2, <2>3 DEF JobTerm, Bit
  <2>6. \A a \in Agents : count'[a] = count[a] - Bit(job[j].agent = a)
    BY <1>0, <2>1, <2>4 DEF Bit, TypeOK
  <2>7. \A a \in Agents : count'[a] = count[a] + JobTerm(job'[j], a) - JobTerm(job[j], a)
    BY <1>0, <2>5, <2>6 DEF Bit
  <2> QED BY <2>1, <2>3, <2>7, CountedJob
<1>4. CASE ClampCount(j)
  <2>1. /\ job[j].pc \in {"clamping", "releasing"} /\ count' = [count EXCEPT ![job[j].agent] = 0]
        /\ spoiled' = IF count[job[j].agent] = 0 THEN spoiled ELSE spoiled \cup {job[j].agent}
        /\ UNCHANGED <<conv, entry>>
    BY <1>4 DEF ClampCount
  <2>2. /\ \A i \in Jobs \ {j} : job'[i] = job[i]
        /\ job'[j].pc \in {"filling", "idle"} /\ job'[j].target = job[j].target
    <3>1. CASE job[j].pc = "clamping"
      <4>1. Becomes(j, [job[j] EXCEPT !.pc = "filling"])
        BY <1>4, <3>1 DEF ClampCount, Step
      <4> QED BY <1>0, <1>b, <4>1 DEF JobType
    <3>2. CASE job[j].pc = "releasing"
      <4>1. Becomes(j, Idle) /\ job[j].target = NoAgent
        BY <1>4, <1>t, <3>2 DEF ClampCount, End, WithTarget
      <4> QED BY <1>b, <1>i, <4>1
    <3> QED BY <2>1, <3>1, <3>2
  <2>3. job[j].agent \in Agents
    BY <1>t, <2>1 DEF WithAgent, JobStates
  <2>4. \A a \in Agents \ spoiled' : count'[a] = count[a]
    BY <1>0, <2>1, <2>3 DEF TypeOK
  <2>5. \A a \in Agents : JobTerm(job'[j], a) = JobTerm(job[j], a) /\ JobTerm(job[j], a) \in Int
    BY <2>1, <2>2 DEF JobTerm, Bit
  <2>6. \A a \in Agents \ spoiled' :
          count'[a] = count[a] + JobTerm(job'[j], a) - JobTerm(job[j], a)
    BY <1>0, <2>4, <2>5
  <2> QED BY <2>1, <2>2, <2>6, CountedJob
<1>5. CASE CountTarget(j)
  <2>1. /\ job[j].pc = "moved" /\ count' = [count EXCEPT ![job[j].target] = @ + 1]
        /\ UNCHANGED <<conv, entry, spoiled>> /\ Becomes(j, Idle)
    BY <1>5 DEF CountTarget, End
  <2>2. job[j].target \in Agents
    BY <1>0, <2>1 DEF JobFits, FitsIn, FieldsFit
  <2>3. job'[j] = Idle /\ \A i \in Jobs \ {j} : job'[i] = job[i]
    BY <1>b, <2>1
  <2>4. \A a \in Agents : /\ JobTerm(job[j], a) = 0 - Bit(job[j].target = a)
                           /\ JobTerm(job'[j], a) = 0
    BY <1>i, <2>1, <2>3 DEF JobTerm, Bit
  <2>5. \A a \in Agents : count'[a] = count[a] + Bit(job[j].target = a)
    BY <1>0, <2>1, <2>2 DEF Bit, TypeOK
  <2>6. \A a \in Agents : count'[a] = count[a] + JobTerm(job'[j], a) - JobTerm(job[j], a)
    BY <1>0, <2>4, <2>5 DEF Bit
  <2> QED BY <2>1, <2>3, <2>6, CountedJob
<1>6. ASSUME NEW c \in Convs, ReadForEnd(j, c) PROVE LedgerAgrees'
  <2> DEFINE r == [Idle EXCEPT !.pc = "ending", !.conv = c]
  <2>1. job[j] = Idle /\ Becomes(j, r) /\ UNCHANGED <<conv, entry, count, spoiled>>
    BY <1>6 DEF ReadForEnd, Begin
  <2>2. r.pc = "ending" /\ r.target = NoAgent
    BY DEF Idle
  <2> HIDE DEF r
  <2>3. job'[j] = r /\ \A i \in Jobs \ {j} : job'[i] = job[i]
    BY <1>b, <2>1
  <2> QED BY <1>i, <2>1, <2>2, <2>3, QuietJob DEF Loud
<1>7. ASSUME NEW c \in Convs, NEW b \in Agents, ReadForTransfer(j, c, b) PROVE LedgerAgrees'
  <2> DEFINE r == [Idle EXCEPT !.pc = "moving", !.conv = c, !.agent = conv[c].agent, !.target = b]
  <2>1. job[j] = Idle /\ Becomes(j, r) /\ UNCHANGED <<conv, entry, count, spoiled>>
    BY <1>7 DEF ReadForTransfer, Begin
  <2>2. r.pc = "moving"
    BY DEF Idle
  <2> HIDE DEF r
  <2>3. job'[j] = r /\ \A i \in Jobs \ {j} : job'[i] = job[i]
    BY <1>b, <2>1
  <2>4. \A a \in Agents : JobTerm(job'[j], a) = 0 /\ JobTerm(job[j], a) = 0
    BY <1>i, <2>1, <2>2, <2>3 DEF JobTerm, Bit
  <2> QED BY <1>0, <2>1, <2>3, <2>4, CountedJob
<1> QED BY <1>1, <1>2, <1>3, <1>4, <1>5, <1>6, <1>7 DEF CloserNext

\* A job after it became r.
LEMMA JobIs ==
  ASSUME TypeOK, NEW j \in Jobs, NEW r, Becomes(j, r)
  PROVE  job'[j] = r /\ \A i \in Jobs \ {j} : job'[i] = job[i]
BY DEF Becomes, TypeOK

\* Presence keeps them in agreement: whoever is set to a number that does not
\* agree is spoiled from there on, whoever is set to one that does is healed.
LEMMA PresenceKeepsLedger ==
  ASSUME IInv, LedgerAgrees, NEW j \in Jobs
  PROVE  /\ \A a \in Agents : ReadLoad(j, a) => LedgerAgrees'
         /\ \A status \in BOOLEAN : SetStatus(j, status) => LedgerAgrees'
<1>0. TypeOK /\ JobFits(job[j]) /\ job[j] \in JobType
  BY DEF IInv, JobInv, TypeOK
<1>1. ASSUME NEW a \in Agents, ReadLoad(j, a) PROVE LedgerAgrees'
  <2> DEFINE r == [Idle EXCEPT !.pc = "counted", !.agent = a, !.places = Load(a)]
  <2>1. job[j] = Idle /\ Becomes(j, r) /\ UNCHANGED <<conv, entry, count, spoiled>>
    BY <1>1 DEF ReadLoad, Begin
  <2>2. r.pc = "counted" /\ r.target = NoAgent
    BY DEF Idle
  <2> HIDE DEF r
  <2>3. job'[j] = r /\ \A i \in Jobs \ {j} : job'[i] = job[i]
    BY <1>0, <2>1, JobIs
  <2> QED BY <2>1, <2>2, <2>3, IdleFits, QuietJob DEF Loud
<1>2. ASSUME NEW status \in BOOLEAN, SetStatus(j, status) PROVE LedgerAgrees'
  <2> DEFINE b == job[j].agent
             r == [Idle EXCEPT !.pc = "filling", !.agent = b]
  <2>1. /\ job[j].pc = "counted" /\ count' = [count EXCEPT ![b] = job[j].places]
        /\ spoiled' = (IF job[j].places = Ledger(b) THEN spoiled \ {b} ELSE spoiled \cup {b})
        /\ Becomes(j, r) \/ Becomes(j, Idle)
        /\ UNCHANGED <<conv, entry>>
    BY <1>2 DEF SetStatus
  <2>2. b \in Agents /\ job[j].target = NoAgent
    BY <1>0, <2>1 DEF JobFits, FitsIn, FieldsFit, WithAgent, WithTarget, JobStates
  <2>3. r.pc = "filling" /\ r.target = NoAgent
    BY DEF Idle
  <2> HIDE DEF r, b
  <2>4. /\ job'[j].pc \in {"filling", "idle"} /\ job'[j].target = NoAgent
        /\ \A i \in Jobs \ {j} : job'[i] = job[i]
    BY <1>0, <2>1, <2>3, JobIs, IdleFits
  <2>5. ASSUME NEW a \in Agents
        PROVE  Ledger(a)' = Ledger(a) /\ Ledger(a) \in Int
    <3>1. JobTerm(job'[j], a) = 0 /\ JobTerm(job[j], a) = 0
      BY <2>1, <2>2, <2>4, AgentsAssumption DEF JobTerm, Bit
    <3> QED BY <2>1, <2>4, <3>1, LedgerOfJob
  <2> SUFFICES ASSUME NEW a \in Agents \ spoiled' PROVE count'[a] = Ledger(a)'
    BY DEF LedgerAgrees
  <2>6. CASE a = b
    BY <1>0, <2>1, <2>2, <2>5, <2>6 DEF TypeOK
  <2>7. CASE a # b
    BY <1>0, <2>1, <2>2, <2>5, <2>7 DEF TypeOK, LedgerAgrees
  <2> QED BY <2>6, <2>7
<1> QED BY <1>1, <1>2

\* A filling that stops keeps them in agreement, unless it left a place reserved.
LEMMA StopKeepsLedger ==
  ASSUME IInv, LedgerAgrees, NEW j \in Jobs, StopFilling(j),
         UNCHANGED <<conv, entry, count>>,
         \/ job[j].pc \notin Loud /\ spoiled' = spoiled
         \/ job[j].pc = "reserved" /\ spoiled' = spoiled \cup {job[j].agent}
  PROVE  LedgerAgrees'
<1> DEFINE r == [Idle EXCEPT !.pc = "moved", !.target = job[j].target]
<1>0. TypeOK
  BY DEF IInv
<1>1. r.pc = "moved" /\ r.target = job[j].target
  BY DEF Idle
<1>2. Becomes(j, r) \/ (Becomes(j, Idle) /\ job[j].target = NoAgent)
  BY DEF StopFilling
<1> HIDE DEF r
<1>3. /\ job'[j].pc \in {"moved", "idle"} /\ job'[j].target = job[j].target
      /\ \A i \in Jobs \ {j} : job'[i] = job[i]
  BY <1>0, <1>1, <1>2, JobIs, IdleFits
<1>4. \A a \in Agents \ spoiled' : /\ JobTerm(job'[j], a) = JobTerm(job[j], a)
                                    /\ JobTerm(job[j], a) \in Int /\ count[a] \in Int
  BY <1>0, <1>3 DEF JobTerm, Bit, Loud, TypeOK
<1>5. \A a \in Agents \ spoiled' :
        count'[a] = count[a] + JobTerm(job'[j], a) - JobTerm(job[j], a)
  BY <1>4
<1> QED BY <1>3, <1>5, CountedJob

\* A place that was reserved is taken when the task is given; whoever is robbed
\* of the conversation is spoiled.
LEMMA GiveKeepsLedger ==
  ASSUME IInv, LedgerAgrees, NEW j \in Jobs, NEW r,
         job[j].pc \in {"reserved", "dispatched"}, GiveTask(job[j].task, job[j].agent),
         Becomes(j, r), r.pc \notin Loud, r.target = job[j].target,
         UNCHANGED <<count, entry>>
  PROVE  LedgerAgrees'
<1> DEFINE b == job[j].agent
           c == ConvOf[job[j].task]
<1>0. TypeOK /\ JobFits(job[j])
  BY DEF IInv, JobInv
<1>1. c \in Convs
  BY <1>0, TasksAssumption DEF JobFits, FitsIn, FieldsFit, WithTask
<1>2. job'[j] = r /\ \A i \in Jobs \ {j} : job'[i] = job[i]
  BY <1>0, JobIs
<1>3. /\ conv'[c].status = "active" /\ conv'[c].agent = b
      /\ \A d \in Convs \ {c} : conv'[d] = conv[d]
      /\ spoiled' = spoiled \cup Robbed(c)
  BY <1>0, <1>1 DEF GiveTask, TypeOK
<1> HIDE DEF b, c
<1> SUFFICES ASSUME NEW a \in Agents \ spoiled' PROVE count[a] = Ledger(a)'
  BY DEF LedgerAgrees
<1>4. /\ count[a] = Ledger(a) /\ Ledger(a) \in Int
      /\ Ledger(a)' = Ledger(a) + ConvTerm(conv'[c], entry'[c], a) - ConvTerm(conv[c], entry[c], a)
                       + JobTerm(job'[j], a) - JobTerm(job[j], a)
  BY <1>1, <1>2, <1>3, LedgerOfBoth DEF LedgerAgrees
<1>5. /\ JobTerm(job'[j], a) - JobTerm(job[j], a) = 0 - Bit(b = a)
      /\ JobTerm(job'[j], a) \in Int /\ JobTerm(job[j], a) \in Int
  BY <1>2 DEF JobTerm, Bit, Loud, b
<1>6. ~(conv[c].status = "active" /\ conv[c].agent = a)
  BY <1>3 DEF Robbed
<1>7. /\ ConvTerm(conv'[c], entry'[c], a) - ConvTerm(conv[c], entry[c], a) = Bit(b = a)
      /\ ConvTerm(conv'[c], entry'[c], a) \in Int /\ ConvTerm(conv[c], entry[c], a) \in Int
  BY <1>3, <1>6 DEF ConvTerm, Bit
<1>8. Bit(b = a) \in Int
  BY DEF Bit
<1> QED BY <1>4, <1>5, <1>7, <1>8

\* A no-show that was not served is on nobody's counter.
LEMMA VoidKeepsLedger ==
  ASSUME IInv, LedgerAgrees, NEW t \in Tasks, NEW seen, Void(t, seen),
         UNCHANGED <<count, entry, job>>
  PROVE  LedgerAgrees'
<1> DEFINE c == ConvOf[t]
<1>0. TypeOK
  BY DEF IInv
<1>1. c \in Convs
  BY TasksAssumption
<1>2. /\ conv'[c].status = "closed"
      /\ \A d \in Convs \ {c} : conv'[d] = conv[d]
      /\ spoiled' = spoiled \cup Robbed(c)
  BY <1>0, <1>1 DEF Void, Close, TypeOK
<1> HIDE DEF c
<1> SUFFICES ASSUME NEW a \in Agents \ spoiled' PROVE count[a] = Ledger(a)'
  BY DEF LedgerAgrees
<1>3. /\ count[a] = Ledger(a) /\ Ledger(a) \in Int
      /\ Ledger(a)' = Ledger(a) + ConvTerm(conv'[c], entry'[c], a) - ConvTerm(conv[c], entry[c], a)
  BY <1>1, <1>2, LedgerOfBoth DEF LedgerAgrees
<1>4. ~(conv[c].status = "active" /\ conv[c].agent = a)
  BY <1>2 DEF Robbed
<1>5. /\ ConvTerm(conv'[c], entry'[c], a) = ConvTerm(conv[c], entry[c], a)
      /\ ConvTerm(conv[c], entry[c], a) \in Int
  BY <1>2, <1>4 DEF ConvTerm, Bit
<1> QED BY <1>3, <1>5

\* The fillings keep the counters in agreement.
LEMMA FillKeepsLedger ==
  ASSUME IInv, LedgerAgrees, NEW j \in Jobs, FillNext(j)
  PROVE  LedgerAgrees'
<1>0. TypeOK /\ JobFits(job[j]) /\ job[j] \in JobType
  BY DEF IInv, JobInv, TypeOK
<1>q. ASSUME NEW r, Becomes(j, r), UNCHANGED <<conv, entry, count, spoiled>>,
             job[j].pc \notin Loud, r.pc \notin Loud, r.target = job[j].target
      PROVE  LedgerAgrees'
  BY <1>0, <1>q, JobIs, QuietJob
<1>1. CASE ReadPlaces(j)
  <2> DEFINE r == [job[j] EXCEPT !.pc = "listing", !.places = Limit - count[job[j].agent]]
  <2>1. /\ job[j].pc \notin Loud /\ UNCHANGED <<conv, entry, count, spoiled>>
        /\ Becomes(j, r) \/ StopFilling(j)
    BY <1>1 DEF ReadPlaces, Loud
  <2>2. r.pc \notin Loud /\ r.target = job[j].target
    BY <1>0 DEF JobType, Loud
  <2> HIDE DEF r
  <2> QED BY <1>q, <2>1, <2>2, StopKeepsLedger
<1>2. CASE ListQueued(j)
  <2>1. /\ job[j].pc \notin Loud /\ UNCHANGED <<conv, entry, count, spoiled>>
    BY <1>2 DEF ListQueued, Loud
  <2>2. ASSUME NEW S, Becomes(j, [job[j] EXCEPT !.pc = "enqueuing", !.seen = S, !.todo = S])
        PROVE  LedgerAgrees'
    <3> DEFINE r == [job[j] EXCEPT !.pc = "enqueuing", !.seen = S, !.todo = S]
    <3>1. r.pc \notin Loud /\ r.target = job[j].target
      BY <1>0 DEF JobType, Loud
    <3>2. Becomes(j, r)
      BY <2>2
    <3> HIDE DEF r
    <3> QED BY <1>q, <2>1, <3>1, <3>2
  <2>3. CASE StopFilling(j)
    BY <2>1, <2>3, StopKeepsLedger
  <2> QED BY <1>2, <2>2, <2>3 DEF ListQueued
<1>3. CASE InsertListed(j)
  <2> DEFINE r == [job[j] EXCEPT !.pc = "enqueuing", !.conv = NoConv]
  <2>1. /\ job[j].pc \notin Loud /\ UNCHANGED <<conv, entry, count, spoiled>>
        /\ Becomes(j, r) \/ StopFilling(j)
    BY <1>3 DEF InsertListed, Loud
  <2>2. r.pc \notin Loud /\ r.target = job[j].target
    BY <1>0 DEF JobType, Loud
  <2> HIDE DEF r
  <2> QED BY <1>q, <2>1, <2>2, StopKeepsLedger
<1>4. CASE StartPulling(j)
  <2> DEFINE r == [job[j] EXCEPT !.pc = "pulling"]
  <2>1. /\ job[j].pc \notin Loud /\ UNCHANGED <<conv, entry, count, spoiled>>
        /\ Becomes(j, r)
    BY <1>4 DEF StartPulling, Step, Loud
  <2>2. r.pc \notin Loud /\ r.target = job[j].target
    BY <1>0 DEF JobType, Loud
  <2> HIDE DEF r
  <2> QED BY <1>q, <2>1, <2>2
<1>5. CASE NothingToPull(j)
  <2>1. job[j].pc \notin Loud
    BY <1>5 DEF NothingToPull, Loud
  <2> QED BY <1>5, <2>1, StopKeepsLedger DEF NothingToPull
<1>6. CASE ReserveAgent(j)
  <2> DEFINE r == [job[j] EXCEPT !.pc = "reserved"]
  <2>1. /\ job[j].pc = "locked" /\ count' = [count EXCEPT ![job[j].agent] = @ + 1]
        /\ Becomes(j, r) /\ UNCHANGED <<conv, entry, spoiled>>
    BY <1>6 DEF ReserveAgent, Step
  <2>2. r.pc = "reserved" /\ r.target = job[j].target /\ r.agent = job[j].agent
    BY <1>0 DEF JobType
  <2> HIDE DEF r
  <2>3. job'[j] = r /\ \A i \in Jobs \ {j} : job'[i] = job[i]
    BY <1>0, <2>1, JobIs
  <2>4. job[j].agent \in Agents
    BY <1>0, <2>1 DEF JobFits, FitsIn, FieldsFit, WithAgent, JobStates
  <2>5. \A a \in Agents : /\ JobTerm(job'[j], a) - JobTerm(job[j], a) = Bit(job[j].agent = a)
                           /\ JobTerm(job'[j], a) \in Int /\ JobTerm(job[j], a) \in Int
    BY <2>1, <2>2, <2>3 DEF JobTerm, Bit
  <2>6. \A a \in Agents : count[a] \in Int /\ count'[a] = count[a] + Bit(job[j].agent = a)
    BY <1>0, <2>1, <2>4 DEF Bit, TypeOK
  <2>7. \A a \in Agents : count'[a] = count[a] + JobTerm(job'[j], a) - JobTerm(job[j], a)
    BY <2>5, <2>6 DEF Bit
  <2> QED BY <2>1, <2>3, <2>7, CountedJob
<1>7. CASE ReserveRefused(j) \/ CommitPull(j)
  <2> DEFINE r == [job[j] EXCEPT !.pc = "pulling", !.task = NoTask, !.conv = NoConv, !.places = @ - 1]
  <2>1. /\ job[j].pc \notin Loud /\ UNCHANGED <<conv, entry, count, spoiled>>
        /\ Becomes(j, r) \/ StopFilling(j)
    BY <1>7 DEF ReserveRefused, CommitPull, Loud
  <2>2. r.pc \notin Loud /\ r.target = job[j].target
    BY <1>0 DEF JobType, Loud
  <2> HIDE DEF r
  <2> QED BY <1>q, <2>1, <2>2, StopKeepsLedger
<1>8. CASE GivePulled(j)
  <2> DEFINE r == [job[j] EXCEPT !.pc = "given"]
  <2>1. /\ job[j].pc = "reserved" /\ GiveTask(job[j].task, job[j].agent)
        /\ Becomes(j, r) /\ UNCHANGED <<count, entry>>
    BY <1>8 DEF GivePulled, Step
  <2>2. r.pc \notin Loud /\ r.target = job[j].target
    BY <1>0 DEF JobType, Loud
  <2> HIDE DEF r
  <2> QED BY <2>1, <2>2, GiveKeepsLedger
<1>9. CASE PullFails(j)
  <2>1. /\ StopFilling(j) /\ UNCHANGED <<conv, entry, count>>
        /\ \/ job[j].pc = "given" /\ spoiled' = spoiled
           \/ job[j].pc = "reserved" /\ spoiled' = spoiled \cup {job[j].agent}
    BY <1>9 DEF PullFails
  <2> QED BY <2>1, StopKeepsLedger DEF Loud
<1>10. ASSUME NEW d \in Convs, CheckListed(j, d) PROVE LedgerAgrees'
  <2> DEFINE r == [job[j] EXCEPT !.pc = "inserting", !.conv = d, !.todo = @ \ {d}]
             s == [job[j] EXCEPT !.todo = @ \ {d}]
  <2>1. /\ job[j].pc \notin Loud /\ UNCHANGED <<conv, entry, count, spoiled>>
        /\ Becomes(j, r) \/ Becomes(j, s) \/ StopFilling(j)
    BY <1>10 DEF CheckListed, Loud
  <2>2. /\ r.pc \notin Loud /\ r.target = job[j].target
        /\ s.pc = job[j].pc /\ s.target = job[j].target
    BY <1>0 DEF JobType, Loud
  <2> HIDE DEF r, s
  <2> QED BY <1>q, <2>1, <2>2, StopKeepsLedger
<1>11. ASSUME NEW t \in Tasks, LockTask(j, t) PROVE LedgerAgrees'
  <2> DEFINE r == [job[j] EXCEPT !.pc = "locked", !.task = t]
  <2>1. /\ job[j].pc \notin Loud /\ UNCHANGED <<conv, entry, count, spoiled>>
        /\ Becomes(j, r)
    BY <1>11 DEF LockTask, Loud
  <2>2. r.pc \notin Loud /\ r.target = job[j].target
    BY <1>0 DEF JobType, Loud
  <2> HIDE DEF r
  <2> QED BY <1>q, <2>1, <2>2
<1>12. ASSUME NEW t \in Tasks, VoidPulled(j, t) PROVE LedgerAgrees'
  BY <1>12, VoidKeepsLedger DEF VoidPulled
<1>13. ASSUME NEW t \in Tasks, NEW b \in Agents, PullByHand(j, b, t) PROVE LedgerAgrees'
  <2> DEFINE r == [Idle EXCEPT !.pc = "locked", !.agent = b, !.task = t, !.places = 1]
  <2>1. job[j] = Idle /\ Becomes(j, r) /\ UNCHANGED <<conv, entry, count, spoiled>>
    BY <1>13 DEF PullByHand, Begin
  <2>2. r.pc \notin Loud /\ r.target = NoAgent
    BY DEF Idle, Loud
  <2>3. job[j].pc \notin Loud /\ job[j].target = NoAgent
    BY <2>1, IdleFits DEF Loud
  <2> HIDE DEF r
  <2> QED BY <1>q, <2>1, <2>2, <2>3
<1>14. CASE LockChosen(j)
  <2> DEFINE r == [job[j] EXCEPT !.pc = "locked"]
  <2>1. /\ job[j].pc \notin Loud /\ UNCHANGED <<conv, entry, count, spoiled>>
        /\ Becomes(j, r)
    BY <1>14 DEF LockChosen, Step, Loud
  <2>2. r.pc \notin Loud /\ r.target = job[j].target
    BY <1>0 DEF JobType, Loud
  <2> HIDE DEF r
  <2> QED BY <1>q, <2>1, <2>2
<1>15. ASSUME NEW t \in Tasks, NEW b \in Agents, ReadByHand(j, b, t) PROVE LedgerAgrees'
  <2> DEFINE r == [Idle EXCEPT !.pc = "chosen", !.agent = b, !.task = t, !.conv = ConvOf[t],
                               !.places = 1]
  <2>1. job[j] = Idle /\ Becomes(j, r) /\ UNCHANGED <<conv, entry, count, spoiled>>
    BY <1>15 DEF ReadByHand, Begin
  <2>2. r.pc \notin Loud /\ r.target = NoAgent
    BY DEF Idle, Loud
  <2>3. job[j].pc \notin Loud /\ job[j].target = NoAgent
    BY <2>1, IdleFits DEF Loud
  <2> HIDE DEF r
  <2> QED BY <1>q, <2>1, <2>2, <2>3
<1> QED BY <1>1, <1>2, <1>3, <1>4, <1>5, <1>6, <1>7, <1>8, <1>9, <1>10, <1>11, <1>12, <1>13,
           <1>14, <1>15 DEF FillNext

\* The dispatcher keeps the counters in agreement.
LEMMA DispatchKeepsLedger ==
  ASSUME IInv, LedgerAgrees, NEW j \in Jobs, DispatchNext(j)
  PROVE  LedgerAgrees'
<1>0. TypeOK /\ JobFits(job[j]) /\ job[j] \in JobType
  BY DEF IInv, JobInv, TypeOK
<1>i. /\ Idle.pc \notin Loud /\ Idle.target = NoAgent
      /\ job[j].pc \in {"dispatching", "dispatched", "settling", "undoing"} =>
           job[j].target = NoAgent
      /\ job[j].pc \in {"dispatched", "settling", "undoing"} => job[j].agent \in Agents
  BY <1>0, IdleFits DEF JobFits, FitsIn, FieldsFit, WithTarget, WithAgent, JobStates, Loud
<1>1. CASE AllBusy(j)
  <2>1. job[j].pc = "dispatching" /\ Becomes(j, Idle) /\ UNCHANGED <<conv, entry, count, spoiled>>
    BY <1>1 DEF AllBusy, End
  <2> QED BY <1>0, <1>i, <2>1, JobIs, QuietJob DEF Loud
<1>2. CASE CommitDispatch(j)
  <2> DEFINE r == [Idle EXCEPT !.pc = "undoing", !.agent = job[j].agent]
  <2>1. /\ job[j].pc = "settling" /\ (Becomes(j, Idle) \/ Becomes(j, r))
        /\ UNCHANGED <<conv, entry, count, spoiled>>
    BY <1>2 DEF CommitDispatch, End
  <2>2. r.pc \notin Loud /\ r.target = NoAgent
    BY DEF Idle, Loud
  <2>3. job[j].pc \notin Loud
    BY <2>1 DEF Loud
  <2> HIDE DEF r
  <2> QED BY <1>0, <1>i, <2>1, <2>2, <2>3, JobIs, QuietJob
<1>7. CASE GiveDispatched(j)
  <2> DEFINE r == [job[j] EXCEPT !.pc = "settling"]
  <2>1. /\ job[j].pc = "dispatched" /\ GiveTask(job[j].task, job[j].agent)
        /\ Becomes(j, r) /\ UNCHANGED <<count, entry>>
    BY <1>7 DEF GiveDispatched, Step
  <2>2. r.pc \notin Loud /\ r.target = job[j].target
    BY <1>0 DEF JobType, Loud
  <2> HIDE DEF r
  <2> QED BY <2>1, <2>2, GiveKeepsLedger
<1>3. CASE DispatchFails(j)
  <2> DEFINE b == job[j].agent
             r == [Idle EXCEPT !.pc = "releasing", !.agent = b]
  <2>1. /\ job[j].pc \in {"dispatched", "settling", "undoing"} /\ count' = [count EXCEPT ![b] = @ - 1]
        /\ spoiled' = IF job[j].pc = "dispatched" THEN spoiled ELSE spoiled \cup {b}
        /\ Becomes(j, Idle) \/ Becomes(j, r)
        /\ UNCHANGED <<conv, entry>>
    BY <1>3 DEF DispatchFails
  <2>2. r.pc = "releasing" /\ r.target = NoAgent /\ b \in Agents
    BY <1>i, <2>1 DEF Idle
  <2> HIDE DEF r
  <2>3. /\ job'[j].pc \in {"idle", "releasing"} /\ job'[j].target = NoAgent
        /\ \A i \in Jobs \ {j} : job'[i] = job[i]
    BY <1>0, <2>1, <2>2, JobIs, IdleFits
  <2>4. \A a \in Agents : /\ JobTerm(job'[j], a) = 0
                           /\ JobTerm(job[j], a) = Bit(job[j].pc = "dispatched" /\ b = a)
    BY <1>i, <2>1, <2>3, AgentsAssumption DEF JobTerm, Bit
  <2>5. \A a \in Agents : count[a] \in Int /\ count'[a] = count[a] - Bit(b = a)
    BY <1>0, <2>1, <2>2 DEF Bit, TypeOK
  <2>6. \A a \in Agents \ spoiled' :
          count'[a] = count[a] + JobTerm(job'[j], a) - JobTerm(job[j], a)
    BY <2>1, <2>4, <2>5 DEF Bit
  <2> QED BY <2>1, <2>3, <2>6, CountedJob
<1>4. ASSUME NEW t \in Tasks, LockNext(j, t) PROVE LedgerAgrees'
  <2> DEFINE r == [Idle EXCEPT !.pc = "dispatching", !.task = t]
  <2>1. job[j] = Idle /\ Becomes(j, r) /\ UNCHANGED <<conv, entry, count, spoiled>>
    BY <1>4 DEF LockNext, Begin
  <2>2. r.pc \notin Loud /\ r.target = NoAgent
    BY DEF Idle, Loud
  <2> HIDE DEF r
  <2> QED BY <1>0, <1>i, <2>1, <2>2, JobIs, QuietJob
<1>5. ASSUME NEW t \in Tasks, VoidNext(j, t) PROVE LedgerAgrees'
  BY <1>5, VoidKeepsLedger DEF VoidNext
<1>6. ASSUME NEW b \in Agents, ReserveCandidate(j, b) PROVE LedgerAgrees'
  <2> DEFINE r == [job[j] EXCEPT !.pc = "dispatched", !.agent = b]
  <2>1. /\ job[j].pc = "dispatching" /\ count' = [count EXCEPT ![b] = @ + 1]
        /\ Becomes(j, r) /\ UNCHANGED <<conv, entry, spoiled>>
    BY <1>6 DEF ReserveCandidate
  <2>2. r.pc = "dispatched" /\ r.agent = b /\ r.target = NoAgent
    BY <1>0, <1>i, <2>1 DEF JobType
  <2> HIDE DEF r
  <2>3. job'[j] = r /\ \A i \in Jobs \ {j} : job'[i] = job[i]
    BY <1>0, <2>1, JobIs
  <2>4. \A a \in Agents : JobTerm(job'[j], a) = Bit(b = a) /\ JobTerm(job[j], a) = 0
    BY <1>i, <2>1, <2>2, <2>3, AgentsAssumption DEF JobTerm, Bit
  <2>5. \A a \in Agents : count[a] \in Int /\ count'[a] = count[a] + Bit(b = a)
    BY <1>0, <2>1 DEF Bit, TypeOK
  <2>6. \A a \in Agents : count'[a] = count[a] + JobTerm(job'[j], a) - JobTerm(job[j], a)
    BY <2>4, <2>5 DEF Bit
  <2> QED BY <2>1, <2>3, <2>6, CountedJob
<1> QED BY <1>1, <1>2, <1>3, <1>4, <1>5, <1>6, <1>7 DEF DispatchNext

\* The counters agree with the conversations, up to what the requests under way
\* have yet to add or take off.
THEOREM CountersAgree == Spec => []LedgerAgrees
<1>1. Init => LedgerAgrees
  <2> SUFFICES ASSUME Init, NEW a \in Agents PROVE count[a] = Ledger(a)
    BY DEF LedgerAgrees
  <2>1. /\ {c \in Convs : Served(c, a)} = {} /\ ReservedFor(a) = {} /\ OwedBy(a) = {}
        /\ NewFor(a) = {} /\ MovedTo(a) = {}
    BY AgentsAssumption DEF Init, Served, ReservedFor, OwedBy, NewFor, MovedTo, NoRequest, Idle
  <2>2. count[a] = 0
    BY DEF Init
  <2> QED BY <2>1, <2>2, FS_EmptySet DEF Ledger, Load
<1>2. IInv /\ LedgerAgrees /\ [Next]_vars => LedgerAgrees'
  <2> SUFFICES ASSUME IInv, LedgerAgrees, [Next]_vars PROVE LedgerAgrees'
    OBVIOUS
  <2>1. ASSUME NEW c \in Convs, EntryNext(c) PROVE LedgerAgrees'
    BY <2>1, EntryKeepsLedger
  <2>2. ASSUME NEW j \in Jobs, CloserNext(j) \/ FillNext(j) \/ DispatchNext(j) PROVE LedgerAgrees'
    BY <2>2, CloserKeepsLedger, FillKeepsLedger, DispatchKeepsLedger
  <2>3. ASSUME NEW j \in Jobs,
               \/ \E a \in Agents : ReadLoad(j, a)
               \/ \E status \in BOOLEAN : SetStatus(j, status)
        PROVE  LedgerAgrees'
    BY <2>3, PresenceKeepsLedger
  <2>4. ASSUME \/ \E a \in Agents : GoOffline(a)
               \/ \E t \in Tasks, status \in {"canceled", "timeout"} : DropTask(t, status)
               \/ UNCHANGED vars
        PROVE  LedgerAgrees'
    <3>1. UNCHANGED <<conv, entry, count, job, spoiled>>
      BY <2>4 DEF GoOffline, DropTask, vars
    <3> QED BY <3>1 DEF LedgerAgrees, Ledger, Load, Served, ReservedFor, OwedBy, NewFor, MovedTo
  <2> QED BY <2>1, <2>2, <2>3, <2>4 DEF Next
<1> QED BY <1>1, <1>2, Invariance, PTL DEF Spec
=============================================================================
