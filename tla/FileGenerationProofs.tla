------------------------ MODULE FileGenerationProofs ------------------------
(***************************************************************************)
(* For any set of file ids: the queue, the registry and the files on disk   *)
(* stay consistent over failures and restarts.                              *)
(***************************************************************************)
EXTENDS FileGeneration, TLAPS

\* A queued file is open, queued once, and not the job.
QueueIsOpen ==
  /\ \A i \in 1..Len(queue) : status[queue[i]] = "INPROCESS" /\ queue[i] # job
  /\ \A i, j \in 1..Len(queue) : queue[i] = queue[j] => i = j

\* The job is open until its archive is written, and completed from then on.
JobIsOpen ==
  job \in Files =>
    status[job] = IF progress[job] < 100 THEN "INPROCESS" ELSE "COMPLETED"

\* An open file is queued or the job.
OpenIsKept ==
  \A f \in Files :
    status[f] = "INPROCESS" => job = f \/ \E i \in 1..Len(queue) : queue[i] = f

\* What is known of a file whose work is over, or has not begun
Settled ==
  \A f \in Files :
    /\ told[f] = "nothing" => status[f] = "NOT_FOUND" /\ f \notin notified
    /\ status[f] = "COMPLETED" => zip[f] = "whole"
    /\ f \in notified => zip[f] = "whole" /\ status[f] \in {"COMPLETED", "NOT_FOUND"}
    /\ told[f] = "cut" => status[f] = "NOT_FOUND"
    /\ told[f] = "whole" => zip[f] = "whole" /\ status[f] \in {"COMPLETED", "NOT_FOUND"}
    /\ told[f] = "missing" => zip[f] = "none" /\ status[f] = "NOT_FOUND"

FileInv == TypeOK /\ QueueIsOpen /\ JobIsOpen /\ OpenIsKept /\ Settled

\* Nothing is queued, known or on disk at first.
LEMMA FileInit == Init => FileInv
  BY NoFileAssumption
     DEF Init, FileInv, TypeOK, QueueIsOpen, JobIsOpen, OpenIsKept, Settled, Archives

\* A request puts a file that is new, so neither queued nor the job, into the queue.
LEMMA InitiateKeeps == \A f \in Files : FileInv /\ Initiate(f) => FileInv'
<1> SUFFICES ASSUME NEW f \in Files, FileInv, Initiate(f) PROVE FileInv'
  OBVIOUS
<1> USE DEF FileInv, TypeOK, Initiate, Archives
<1>1. TypeOK'
  OBVIOUS
<1>2. status[f] = "NOT_FOUND" /\ job # f
  BY DEF Settled, JobIsOpen
<1>3. /\ Len(queue') = Len(queue) + 1 /\ queue'[Len(queue) + 1] = f
      /\ \A i \in 1..Len(queue) : queue'[i] = queue[i] /\ queue'[i] # f /\ queue'[i] \in Files
  BY <1>2 DEF QueueIsOpen
<1>4. QueueIsOpen'
  BY <1>2, <1>3 DEF QueueIsOpen
<1>5. JobIsOpen'
  BY <1>2 DEF JobIsOpen
<1>6. OpenIsKept'
  <2> SUFFICES ASSUME NEW g \in Files, status'[g] = "INPROCESS", job # g
               PROVE  \E i \in 1..Len(queue') : queue'[i] = g
    BY DEF OpenIsKept
  <2>1. CASE g = f
    BY <2>1, <1>3
  <2>2. CASE g # f
    <3>1. PICK i \in 1..Len(queue) : queue[i] = g
      BY <2>2 DEF OpenIsKept
    <3>2. i \in 1..Len(queue') /\ queue'[i] = g
      BY <3>1, <1>3
    <3> QED BY <3>2
  <2> QED BY <2>1, <2>2
<1>7. /\ status'[f] = "INPROCESS" /\ told'[f] = "INPROCESS" /\ f \notin notified
      /\ \A g \in Files \ {f} : status'[g] = status[g] /\ told'[g] = told[g]
  BY <1>2 DEF Settled
<1>8. Settled'
  BY <1>7 DEF Settled
<1> QED BY <1>1, <1>4, <1>5, <1>6, <1>8

\* An answer is what the registry or the disk says.
LEMMA FetchKeeps == \A f \in Files : FileInv /\ Fetch(f) => FileInv'
<1> SUFFICES ASSUME NEW f \in Files, FileInv, Fetch(f) PROVE FileInv'
  OBVIOUS
<1> USE DEF FileInv, TypeOK, Fetch, Asks, OnDisk, Archives
<1>1. TypeOK'
  OBVIOUS
<1>2. QueueIsOpen' /\ JobIsOpen' /\ OpenIsKept'
  BY DEF QueueIsOpen, JobIsOpen, OpenIsKept
<1>3. Settled'
  BY DEF Settled
<1> QED BY <1>1, <1>2, <1>3

\* The head of the queue becomes the job.
LEMMA TakeKeeps == FileInv /\ Take => FileInv'
<1> SUFFICES ASSUME FileInv, Take PROVE FileInv'
  OBVIOUS
<1> USE DEF FileInv, TypeOK, Take, Reaches, Archives
<1>1. /\ Len(queue) \in Nat \ {0} /\ Head(queue) = queue[1] /\ queue[1] \in Files
      /\ Len(queue') = Len(queue) - 1
      /\ \A i \in 1..Len(queue') : i + 1 \in 1..Len(queue) /\ queue'[i] = queue[i + 1]
  OBVIOUS
<1>2. TypeOK'
  BY <1>1
<1>3. QueueIsOpen'
  BY <1>1 DEF QueueIsOpen
<1>4. JobIsOpen'
  BY <1>1 DEF JobIsOpen, QueueIsOpen
<1>5. OpenIsKept'
  <2> SUFFICES ASSUME NEW g \in Files, status[g] = "INPROCESS", g # queue[1]
               PROVE  \E i \in 1..Len(queue') : queue'[i] = g
    BY <1>1 DEF OpenIsKept
  <2>1. PICK i \in 1..Len(queue) : queue[i] = g
    BY NoFileAssumption DEF OpenIsKept
  <2>2. i - 1 \in 1..Len(queue') /\ queue'[i - 1] = g
    BY <2>1, <1>1
  <2> QED BY <2>2
<1>6. Settled'
  BY DEF Settled
<1> QED BY <1>2, <1>3, <1>4, <1>5, <1>6

\* The steps of a job before its archive change nothing but progress and raw files.
LEMMA EarlyWorkKeeps ==
  \A f \in Files : FileInv /\ (Connect(f) \/ Open(f) \/ Dump(f)) => FileInv'
<1> SUFFICES ASSUME NEW f \in Files, FileInv, Connect(f) \/ Open(f) \/ Dump(f)
             PROVE  FileInv'
  OBVIOUS
<1> USE DEF FileInv, TypeOK, Connect, Open, Dump, Works, Reaches, Archives
<1>1. TypeOK'
  OBVIOUS
<1>2. QueueIsOpen' /\ OpenIsKept' /\ Settled'
  BY DEF QueueIsOpen, OpenIsKept, Settled
<1>3. JobIsOpen'
  BY DEF JobIsOpen
<1> QED BY <1>1, <1>2, <1>3

\* The archive of an open job becomes whole, and the job completed, in one step.
LEMMA CompressKeeps == \A f \in Files : FileInv /\ Compress(f) => FileInv'
<1> SUFFICES ASSUME NEW f \in Files, FileInv, Compress(f) PROVE FileInv'
  OBVIOUS
<1> USE DEF FileInv, TypeOK, Compress, Works, Reaches, Archives
<1>1. TypeOK'
  OBVIOUS
<1>2. status[f] = "INPROCESS"
  BY DEF JobIsOpen
<1>3. QueueIsOpen'
  BY DEF QueueIsOpen
<1>4. JobIsOpen' /\ OpenIsKept'
  BY DEF JobIsOpen, OpenIsKept
<1>5. Settled'
  BY <1>2 DEF Settled
<1> QED BY <1>1, <1>3, <1>4, <1>5

\* The callback of a completed job ends the work on it.
LEMMA NotifyKeeps == \A f \in Files : FileInv /\ Notify(f) => FileInv'
<1> SUFFICES ASSUME NEW f \in Files, FileInv, Notify(f) PROVE FileInv'
  OBVIOUS
<1> USE NoFileAssumption DEF FileInv, TypeOK, Notify, Works, Archives
<1>1. TypeOK'
  OBVIOUS
<1>2. status[f] = "COMPLETED"
  BY DEF JobIsOpen
<1>3. QueueIsOpen'
  BY DEF QueueIsOpen
<1>4. JobIsOpen' /\ OpenIsKept'
  BY <1>2 DEF JobIsOpen, OpenIsKept
<1>5. Settled'
  BY <1>2 DEF Settled
<1> QED BY <1>1, <1>3, <1>4, <1>5

\* Only the archive of an open job can be cut off: nobody was given it or told of it.
LEMMA InterruptedIsOpen ==
  ASSUME FileInv, Interrupted
  PROVE  /\ zip' \in [Files -> Archives]
         /\ \A f \in Files : zip'[f] # zip[f] => status[f] = "INPROCESS"
  BY DEF FileInv, TypeOK, JobIsOpen, Interrupted, Archives

\* A failed job leaves the worker's hands as FAILED.
LEMMA BreakKeeps == \A f \in Files : FileInv /\ Break(f) => FileInv'
<1> SUFFICES ASSUME NEW f \in Files, FileInv, Break(f) PROVE FileInv'
  OBVIOUS
<1>1. /\ zip' \in [Files -> Archives]
      /\ \A g \in Files : zip'[g] # zip[g] => status[g] = "INPROCESS"
  BY InterruptedIsOpen DEF Break
<1> USE NoFileAssumption DEF FileInv, TypeOK, Break
<1>2. TypeOK'
  BY <1>1
<1>3. status[f] = "INPROCESS"
  BY DEF JobIsOpen
<1>4. QueueIsOpen'
  BY DEF QueueIsOpen
<1>5. JobIsOpen' /\ OpenIsKept'
  BY DEF JobIsOpen, OpenIsKept
<1>6. Settled'
  BY <1>1, <1>3 DEF Settled
<1> QED BY <1>2, <1>4, <1>5, <1>6

\* With the process go queue, job and registry; the disk stays.
LEMMA KillKeeps == FileInv /\ Kill => FileInv'
<1> SUFFICES ASSUME FileInv, Kill PROVE FileInv'
  OBVIOUS
<1>1. /\ zip' \in [Files -> Archives]
      /\ \A g \in Files : zip'[g] # zip[g] => status[g] = "INPROCESS"
  BY InterruptedIsOpen DEF Kill
<1> USE NoFileAssumption DEF FileInv, TypeOK, Kill
<1>2. TypeOK'
  <2>1. /\ status' \in [Files -> {"NOT_FOUND", "INPROCESS", "COMPLETED", "FAILED"}]
        /\ progress' \in [Files -> {0, 10, 50, 75, 100}]
    BY DEF Kill
  <2>2. queue' \in Seq(Files)
    OBVIOUS
  <2>3. up' \in BOOLEAN /\ job' \in Files \cup {NoFile}
    BY Zenon
  <2> QED BY <1>1, <2>1, <2>2, <2>3 DEF Archives
<1>3. QueueIsOpen' /\ JobIsOpen' /\ OpenIsKept'
  BY DEF QueueIsOpen, JobIsOpen, OpenIsKept
<1>4. Settled'
  BY <1>1 DEF Settled
<1> QED BY <1>2, <1>3, <1>4

\* Every step of requests, worker and process keeps the invariant.
LEMMA FileStep == FileInv /\ [Next]_vars => FileInv'
<1> SUFFICES ASSUME FileInv, [Next]_vars PROVE FileInv'
  OBVIOUS
<1>1. CASE Start \/ UNCHANGED vars
  <2>1. /\ up' \in BOOLEAN
        /\ UNCHANGED <<queue, job, status, progress, raw, zip, notified, told>>
    BY <1>1 DEF Start, vars, FileInv, TypeOK
  <2>2. TypeOK' /\ QueueIsOpen' /\ JobIsOpen' /\ OpenIsKept' /\ Settled'
    BY <2>1 DEF FileInv, TypeOK, QueueIsOpen, JobIsOpen, OpenIsKept, Settled
  <2> QED BY <2>2 DEF FileInv
<1>2. CASE \E f \in Files : Initiate(f) \/ Fetch(f) \/ Work(f)
  BY <1>2, InitiateKeeps, FetchKeeps, EarlyWorkKeeps, CompressKeeps, NotifyKeeps,
     BreakKeeps DEF Work
<1>3. CASE Take \/ Kill
  BY <1>3, TakeKeeps, KillKeeps
<1> QED BY <1>1, <1>2, <1>3 DEF Next

\* The file worker keeps its inductive invariant: queue, job and registry name the same
\* open files, and what is known of a finished file is on the disk.
THEOREM FileInvariant == Spec => []FileInv
  BY FileInit, FileStep, PTL DEF Spec

\* Queue, registry, disk and answers keep their types.
THEOREM TypeCorrect == Spec => []TypeOK
<1>1. FileInv => TypeOK
  BY DEF FileInv
<1> QED BY <1>1, FileInvariant, PTL

\* For any number of files: what the registry calls INPROCESS is queued once or in the
\* worker's hands, and nothing else is.
THEOREM NothingForgottenAlways == Spec => []NothingForgotten
<1>1. FileInv => NothingForgotten
  <2> SUFFICES ASSUME FileInv PROVE NothingForgotten
    OBVIOUS
  <2> USE DEF FileInv, TypeOK
  <2>1. DOMAIN queue = 1..Len(queue)
    OBVIOUS
  <2>2. IsInjective(queue)
    BY <2>1 DEF IsInjective, QueueIsOpen
  <2>3. \A f \in Files : f \in ToSet(queue) <=> \E i \in 1..Len(queue) : queue[i] = f
    BY <2>1 DEF ToSet
  <2>4. \A f \in Files : f \in ToSet(queue) => status[f] = "INPROCESS" /\ job # f
    BY <2>3 DEF QueueIsOpen
  <2>5. \A f \in Files : status[f] = "INPROCESS" => f \in ToSet(queue) \/ job = f
    BY <2>3 DEF OpenIsKept
  <2>6. \A f \in Files : job = f => (status[f] = "INPROCESS" <=> progress[f] < 100)
    BY DEF JobIsOpen
  <2> QED BY <2>2, <2>4, <2>5, <2>6 DEF NothingForgotten
<1> QED BY <1>1, FileInvariant, PTL

\* A process never serves an archive it cut off itself.
THEOREM FetchedIsWholeAlways == Spec => []FetchedIsWhole
<1>1. FileInv => FetchedIsWhole
  BY DEF FileInv, Settled, FetchedIsWhole
<1> QED BY <1>1, FileInvariant, PTL

\* The archive of a delivered callback is whole.
THEOREM NotifiedIsWholeAlways == Spec => []NotifiedIsWhole
<1>1. FileInv => NotifiedIsWhole
  BY DEF FileInv, TypeOK, Settled, NotifiedIsWhole
<1> QED BY <1>1, FileInvariant, PTL

\* Over failures and restarts an archive stays available and a lost file stays lost.
THEOREM AnswersStayAlways == Spec => AnswersStay
<1>1. FileInv /\ [Next]_vars =>
        [\A f \in Files : told[f] \in {"whole", "missing"} => told'[f] = told[f]]_vars
  <2> SUFFICES ASSUME FileInv, Next, NEW g \in Files, told[g] \in {"whole", "missing"}
               PROVE  told'[g] = told[g]
    OBVIOUS
  <2> USE DEF FileInv, TypeOK
  <2>1. CASE \E f \in Files : Initiate(f)
    BY <2>1 DEF Initiate
  <2>2. CASE \E f \in Files : Fetch(f)
    BY <2>2 DEF Fetch, Asks, OnDisk, Settled
  <2>3. CASE (\E f \in Files : Work(f)) \/ Take \/ Kill \/ Start
    BY <2>3 DEF Work, Connect, Open, Dump, Compress, Notify, Break, Take, Kill, Start
  <2> QED BY <2>1, <2>2, <2>3 DEF Next
<1> QED BY <1>1, FileInvariant, PTL DEF Spec, AnswersStay
=============================================================================
