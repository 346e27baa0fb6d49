--------------------------- MODULE FileGeneration ---------------------------
(***************************************************************************)
(* Biller master files: an admin asks for one and gets a file id, the       *)
(* FileGenerationWorker compiles them one by one, and the client asks for    *)
(* the state of its file until it gets the archive.  Queue and registry are *)
(* in memory and die with the process; the files under biller_list/ stay.   *)
(* The worker suspends only where the code awaits: the archive is written,  *)
(* the raw files removed and the job marked COMPLETED without a suspension, *)
(* but the process may be killed, and the disk may fail, in the middle.     *)
(***************************************************************************)
EXTENDS Naturals, SequencesExt

CONSTANTS Files,   \* file ids
          NoFile   \* no job

ASSUME NoFileAssumption == NoFile \notin Files

VARIABLES up,        \* the process runs, with its worker loop
          queue,     \* _queue
          job,       \* the file that _loop processes
          status,    \* _status_registry: status
          progress,  \* _status_registry: progress
          raw,       \* files whose .json and .csv are on disk
          zip,       \* the archive on disk: none, cut off, or whole
          notified,  \* files whose callback was delivered
          told       \* the last answer a client got about a file (history)

vars == <<up, queue, job, status, progress, raw, zip, notified, told>>

Archives == {"none", "cut", "whole"}

TypeOK ==
  /\ up \in BOOLEAN
  /\ queue \in Seq(Files)
  /\ job \in Files \cup {NoFile}
  /\ status \in [Files -> {"NOT_FOUND", "INPROCESS", "COMPLETED", "FAILED"}]
  /\ progress \in [Files -> {0, 10, 50, 75, 100}]
  /\ raw \subseteq Files
  /\ zip \in [Files -> Archives]
  /\ notified \subseteq Files
  /\ told \in [Files -> {"nothing", "INPROCESS", "FAILED", "missing"} \cup Archives]

Init ==
  /\ up = TRUE
  /\ queue = <<>> /\ job = NoFile
  /\ status = [f \in Files |-> "NOT_FOUND"]
  /\ progress = [f \in Files |-> 0]
  /\ raw = {} /\ notified = {}
  /\ zip = [f \in Files |-> "none"]
  /\ told = [f \in Files |-> "nothing"]

-----------------------------------------------------------------------------
\* The request handlers

\* initiate_file_generation, after its commit: registered and queued under a new id
Initiate(f) ==
  /\ up /\ told[f] = "nothing"
  /\ status' = [status EXCEPT ![f] = "INPROCESS"]
  /\ queue' = Append(queue, f)
  /\ told' = [told EXCEPT ![f] = "INPROCESS"]
  /\ UNCHANGED <<up, job, progress, raw, zip, notified>>

Asks(f, answer) ==
  /\ up /\ told[f] # "nothing"
  /\ told' = [told EXCEPT ![f] = answer]
  /\ UNCHANGED <<up, queue, job, status, progress, raw, zip, notified>>

OnDisk(f) == IF zip[f] = "none" THEN "missing" ELSE zip[f]

\* Mutant of Fetch: the disk is asked first
FetchTrustsDisk(f) ==
  Asks(f, IF zip[f] = "none" /\ status[f] # "NOT_FOUND" THEN status[f] ELSE OnDisk(f))

\* Mutant of Fetch: only the registry knows an archive
FetchTrustsRegistry(f) ==
  Asks(f, CASE status[f] = "NOT_FOUND" -> "missing"
            [] status[f] = "COMPLETED" -> zip[f]
            [] OTHER -> status[f])

\* get_file_archive: an open or failed job by the registry, anything else by the disk
Fetch(f) ==
  Asks(f, IF status[f] \in {"INPROCESS", "FAILED"} THEN status[f] ELSE OnDisk(f))

-----------------------------------------------------------------------------
\* FileGenerationWorker

Works(f, at) == up /\ job = f /\ progress[f] = at
Reaches(f, p) == progress' = [progress EXCEPT ![f] = p]

\* queue.get and 10%
Take ==
  /\ up /\ job = NoFile /\ queue # <<>>
  /\ job' = Head(queue)
  /\ queue' = Tail(queue)
  /\ Reaches(job', 10)
  /\ UNCHANGED <<up, status, raw, zip, notified, told>>

Connect(f) ==
  /\ Works(f, 10)
  /\ Reaches(f, 50)
  /\ UNCHANGED <<up, queue, job, status, raw, zip, notified, told>>

\* the raw files are opened, and filled over many chunks
Open(f) ==
  /\ Works(f, 50) /\ f \notin raw
  /\ raw' = raw \cup {f}
  /\ UNCHANGED <<up, queue, job, status, progress, zip, notified, told>>

\* Mutant of Dump: progress is added up
DumpAddsProgress(f) ==
  /\ Works(f, 50) /\ f \in raw
  /\ Reaches(f, progress[f] + 35)
  /\ UNCHANGED <<up, queue, job, status, raw, zip, notified, told>>

\* the last chunk
Dump(f) ==
  /\ Works(f, 50) /\ f \in raw
  /\ Reaches(f, 75)
  /\ UNCHANGED <<up, queue, job, status, raw, zip, notified, told>>

\* Mutant of Compress: the archive is not closed
CompressLeavesOpen(f) ==
  /\ Works(f, 75)
  /\ zip' = [zip EXCEPT ![f] = "cut"]
  /\ raw' = raw \ {f}
  /\ status' = [status EXCEPT ![f] = "COMPLETED"]
  /\ Reaches(f, 100)
  /\ UNCHANGED <<up, queue, job, notified, told>>

\* the archive, the end of the raw files, COMPLETED
Compress(f) ==
  /\ Works(f, 75)
  /\ zip' = [zip EXCEPT ![f] = "whole"]
  /\ raw' = raw \ {f}
  /\ status' = [status EXCEPT ![f] = "COMPLETED"]
  /\ Reaches(f, 100)
  /\ UNCHANGED <<up, queue, job, notified, told>>

\* Mutant of Notify: the callback is awaited without a timeout
NotifyWaits(f) ==
  /\ Works(f, 100)
  /\ UNCHANGED vars

\* the callback is delivered, or its failure logged; the loop goes on
Notify(f) ==
  /\ Works(f, 100)
  /\ job' = NoFile
  /\ notified' \in {notified, notified \cup {f}}
  /\ UNCHANGED <<up, queue, status, progress, raw, zip, told>>

\* What an archive may be like when writing it, or what follows, is interrupted
Interrupted ==
  IF job \in Files /\ progress[job] = 75
  THEN \E z \in Archives : zip' = [zip EXCEPT ![job] = z]
  ELSE UNCHANGED zip

\* Mutant of Break: the loop does not mark the job
BreakUnmarked(f) ==
  /\ up /\ job = f /\ progress[f] \in {50, 75}
  /\ Interrupted
  /\ job' = NoFile
  /\ UNCHANGED <<up, queue, status, progress, raw, notified, told>>

\* the database or the disk fails: _loop marks the job and goes on
Break(f) ==
  /\ up /\ job = f /\ progress[f] \in {50, 75}
  /\ Interrupted
  /\ status' = [status EXCEPT ![f] = "FAILED"]
  /\ job' = NoFile
  /\ UNCHANGED <<up, queue, progress, raw, notified, told>>

\* the process stops or is killed
Kill ==
  /\ up
  /\ up' = FALSE
  /\ Interrupted
  /\ queue' = <<>> /\ job' = NoFile
  /\ status' = [f \in Files |-> "NOT_FOUND"]
  /\ progress' = [f \in Files |-> 0]
  /\ UNCHANGED <<raw, notified, told>>

Start ==
  /\ ~up
  /\ up' = TRUE
  /\ UNCHANGED <<queue, job, status, progress, raw, zip, notified, told>>

Work(f) == Connect(f) \/ Open(f) \/ Dump(f) \/ Compress(f) \/ Notify(f) \/ Break(f)

Next ==
  \/ \E f \in Files : Initiate(f) \/ Fetch(f) \/ Work(f)
  \/ Take \/ Kill \/ Start

Spec == Init /\ [][Next]_vars

\* the event loop runs the worker, and its sleeps and requests end
FairSpec == Spec /\ WF_vars(Take) /\ \A f \in Files : WF_vars(Work(f))

-----------------------------------------------------------------------------
\* Every file the registry calls INPROCESS is in the queue or in the worker's hands,
\* once, and nothing else is: a failed job does not leave its client waiting, and no
\* job is processed twice.
NothingForgotten ==
  /\ IsInjective(queue)
  /\ \A f \in Files :
       status[f] = "INPROCESS" <=> \/ f \in ToSet(queue) /\ job # f
                                   \/ job = f /\ progress[f] < 100 /\ f \notin ToSet(queue)

\* "Successfully fetched the zipped file" (get_file_archive): a process never serves
\* an archive that it cut off itself; only one cut off before a restart gets through.
FetchedIsWhole ==
  \A f \in Files : told[f] = "cut" => status[f] = "NOT_FOUND"

\* A callback that says COMPLETED is about an archive that is whole, also when the
\* process has died since.
NotifiedIsWhole == \A f \in notified : zip[f] = "whole"

\* What a client is given stays so, over failures and restarts: an archive remains
\* available, and a lost file is not found later.
AnswersStay ==
  [][\A f \in Files : told[f] \in {"whole", "missing"} => told'[f] = told[f]]_vars

\* A job ends, whatever the jobs before it meet: completed, failed, or lost with the
\* process.
JobsEnd == \A f \in Files : status[f] = "INPROCESS" ~> status[f] # "INPROCESS"
=============================================================================
