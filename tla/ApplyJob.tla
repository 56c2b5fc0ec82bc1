------------------------------- MODULE ApplyJob -------------------------------
(***************************************************************************)
(* `sufur validate-job`, `sufur apply-job` and the frontend that starts     *)
(* them.  apply-job (main's cmd_apply_job, pipeline.rs's validate_job and  *)
(* run_create) writes one line of NDJSON per event into a pipe; the        *)
(* frontend, which is not in the repository, does what progress.rs tells   *)
(* consumers to do with them.  The frontend may close the pipe early and   *)
(* start a command again, and the job file may change at any time.         *)
(***************************************************************************)
EXTENDS Naturals, Sequences

CONSTANTS MaxRuns,   \* bound: how often the frontend starts a command
          MaxEdits   \* bound: how often the job file changes

ASSUME JobAssumption == MaxRuns \in Nat /\ MaxEdits \in Nat

VARIABLES file,   \* the job file
          cmd,    \* the command that was started last
          job,    \* the job file as the command read it
          json,   \* the --json flag
          pc, code, exit,   \* the command: progress, its error's code, exit status
          sent, pipe,       \* lines it wrote in this run; those not yet read
          reading,          \* the frontend still holds its end of the pipe
          ui, runs, edits,  \* the frontend: "ready" to start, "busy", "failed"
          dry     \* ghost: the file validate-job last read, and whether it accepted

vars    == <<file, cmd, job, json, pc, code, exit, sent, pipe, reading, ui, runs, edits, dry>>
setting == <<file, cmd, json, runs, edits>>
command == <<setting, job, pc, code, exit, dry>>

Job(state, v, p, s) == [state |-> state, version |-> v, path |-> p, selector |-> s]
Jobs == {Job("missing", 1, FALSE, FALSE), Job("garbled", 1, FALSE, FALSE)} \cup
        {Job("parsed", v, p, s) : v \in {1, 2}, p \in BOOLEAN, s \in BOOLEAN}

\* The codes of the ErrorCode enum, which code_of maps to themselves; an io::Error
\* becomes "IO_ERROR", which is not among them.
ErrorCodes == {"DEVICE_BUSY", "DEVICE_NOT_FOUND", "PERMISSION_DENIED", "INVALID_IMAGE",
               "CHECKSUM_MISMATCH", "UNSUPPORTED_FILESYSTEM", "CANCELLED", "INTERNAL"}

Line(t) == [type |-> t, code |-> ""]

\* Mutant: the stage after which nothing is left to do comes last.
EventsCompleteEarly == <<Line("stage"), Line("stage"), Line("complete"), Line("stage")>>

\* What run_create emits: partition, format, copy, and the end.
Events == <<Line("stage"), Line("stage"), Line("stage"), Line("complete")>>

\* Mutant: a path and a selector together are not refused.
VerdictNotExclusive(j) ==
  IF j.version # 1 THEN "INTERNAL"
  ELSE IF ~j.path /\ ~j.selector THEN "DEVICE_NOT_FOUND" ELSE "ok"

\* validate_job.
Verdict(j) ==
  IF j.version # 1 \/ (j.path /\ j.selector) THEN "INTERNAL"
  ELSE IF ~j.path /\ ~j.selector THEN "DEVICE_NOT_FOUND" ELSE "ok"

Init ==
  /\ file \in Jobs /\ job = file /\ json \in BOOLEAN /\ cmd = "apply-job"
  /\ pc = "off" /\ code = "" /\ exit = "none"
  /\ sent = <<>> /\ pipe = <<>> /\ reading = TRUE
  /\ ui = "ready" /\ runs = 0 /\ edits = 0
  /\ dry = [job |-> file, ok |-> "never"]

\* The frontend starts a command on the job file.
Launch(c) ==
  /\ ui = "ready" /\ pc = "off" /\ runs < MaxRuns
  /\ cmd' = c /\ pc' = "read" /\ code' = "" /\ exit' = "none"
  /\ sent' = <<>> /\ pipe' = <<>> /\ reading' = TRUE
  /\ ui' = "busy" /\ runs' = runs + 1
  /\ UNCHANGED <<file, job, json, edits, dry>>

\* The user, or the frontend, writes another job, or removes it.
Edit ==
  /\ edits < MaxEdits /\ edits' = edits + 1
  /\ file' \in Jobs
  /\ UNCHANGED <<cmd, job, json, pc, code, exit, sent, pipe, reading, ui, runs, dry>>

Noted(ok) == dry' = IF cmd = "validate-job" THEN [job |-> job', ok |-> ok] ELSE dry

Fail(c) == pc' = "error" /\ code' = c

\* read_to_string and from_str, the same in both commands.
ReadJob ==
  /\ pc = "read"
  /\ job' = file
  /\ \/ file.state = "missing" /\ Fail("IO_ERROR") /\ Noted("no")
     \/ file.state = "garbled" /\ Fail("INTERNAL") /\ Noted("no")
     \/ file.state = "parsed" /\ pc' = "validate" /\ UNCHANGED <<code, dry>>
  /\ UNCHANGED <<setting, exit, sent, pipe, reading, ui>>

Exit(status) == pc' = "off" /\ exit' = status

\* Mutant: the dry run only parses.
CheckedParsed(j) == IF cmd = "validate-job" THEN "ok" ELSE Verdict(j)

\* validate_job, called by cmd_validate_job and by run_create before anything else.
Checked(j) == Verdict(j)

Validate ==
  /\ pc = "validate" /\ UNCHANGED job
  /\ IF Checked(job) # "ok" THEN Fail(Checked(job)) /\ UNCHANGED exit /\ Noted("no")
     ELSE /\ UNCHANGED code /\ Noted("yes")
          /\ IF cmd = "validate-job" THEN Exit("0") ELSE pc' = "events" /\ UNCHANGED exit
  /\ UNCHANGED <<setting, sent, pipe, reading, ui>>

\* Mutant: the newest line is read first.
PrintLineFront(l) == sent' = Append(sent, l) /\ pipe' = <<l>> \o pipe

\* println! of a line; it panics when nobody holds the other end of the pipe.
PrintLine(l) == sent' = Append(sent, l) /\ pipe' = Append(pipe, l)

Panic ==
  /\ ~reading
  /\ pc = "events" \/ (pc = "error" /\ json)
  /\ Exit("panic")
  /\ UNCHANGED <<setting, job, code, sent, pipe, reading, ui, dry>>

\* One on_event call; main returns after the last.
Emit ==
  /\ pc = "events" /\ reading
  /\ PrintLine(Events[Len(sent) + 1])
  /\ IF Len(sent') = Len(Events) THEN Exit("0") ELSE UNCHANGED <<pc, exit>>
  /\ UNCHANGED <<setting, job, code, reading, ui, dry>>

\* main's error envelope, on stdout only with --json.
Envelope ==
  /\ pc = "error"
  /\ IF json THEN reading /\ PrintLine([type |-> "error", code |-> code])
             ELSE UNCHANGED <<sent, pipe>>
  /\ Exit("1")
  /\ UNCHANGED <<setting, job, code, reading, ui, dry>>

\* The frontend reads a line.  It may start something new after Complete; after a
\* failure it waits for Cleanup, as progress.rs demands.
Consume ==
  /\ reading /\ pipe # <<>> /\ cmd = "apply-job"
  /\ pipe' = Tail(pipe)
  /\ ui' = CASE Head(pipe).type \in {"complete", "cleanup"} -> "ready"
             [] Head(pipe).type = "error" -> "failed"
             [] OTHER -> ui
  /\ UNCHANGED <<command, sent, reading>>

\* validate-job says by its exit status how it went; nothing of it needs a Cleanup.
Reap ==
  /\ cmd = "validate-job" /\ pc = "off" /\ ui = "busy"
  /\ ui' = "ready" /\ pipe' = <<>>
  /\ UNCHANGED <<command, sent, reading>>

\* The frontend goes away; another one takes its place.
CloseReader ==
  /\ reading /\ ui = "busy"
  /\ reading' = FALSE /\ pipe' = <<>>
  /\ ui' = "ready"
  /\ UNCHANGED <<command, sent>>

Command == ReadJob \/ Validate \/ Panic \/ Emit \/ Envelope

Next ==
  \/ \E c \in {"validate-job", "apply-job"} : Launch(c)
  \/ Edit \/ Command \/ Consume \/ Reap \/ CloseReader

Spec == Init /\ [][Next]_vars

\* Both processes keep running; nobody has to close the pipe or start anything.
FairSpec == Spec /\ WF_vars(Command) /\ WF_vars(Consume) /\ WF_vars(Reap)

-----------------------------------------------------------------------------
Wrote(t) == \E i \in DOMAIN sent : sent[i].type = t

\* The variables have their types; an unread line was written in this run.
TypeOK ==
  /\ file \in Jobs /\ job \in Jobs /\ json \in BOOLEAN /\ reading \in BOOLEAN
  /\ cmd \in {"validate-job", "apply-job"}
  /\ runs \in 0 .. MaxRuns /\ edits \in 0 .. MaxEdits
  /\ dry.job \in Jobs /\ dry.ok \in {"never", "no", "yes"}
  /\ pc \in {"off", "read", "validate", "events", "error"}
  /\ code \in ErrorCodes \cup {"", "IO_ERROR"}
  /\ exit \in {"none", "0", "1", "panic"} /\ ui \in {"ready", "busy", "failed"}
  /\ Len(sent) <= Len(Events)
  /\ \E k \in 0 .. Len(sent) : pipe \in {<<>>, SubSeq(sent, k + 1, Len(sent))}

\* A stage is announced only for a job with version 1 and exactly one way to name
\* the device.
OnlyValidJobsRun ==
  Wrote("stage") => job.state = "parsed" /\ job.version = 1 /\ job.path # job.selector

\* The stream and the exit status agree, wherever the reader went away: Complete
\* is the last line of a run that exits 0, and of no other run.
CompleteIffSuccess == cmd = "apply-job" => (Wrote("complete") <=> exit = "0")

\* "Dry-run check of a job file without touching devices" (main.rs:70): validate-job
\* emits no event, and on what it read apply-job decides as it did, whatever is
\* edited before, between and while they run: what it accepted does not fail, what it
\* refused does not begin.
DryRunAgrees ==
  /\ cmd = "validate-job" => ~Wrote("stage") /\ ~Wrote("complete")
  /\ cmd = "apply-job" /\ job = dry.job =>
       /\ dry.ok = "yes" => exit # "1"
       /\ dry.ok = "no" => ~Wrote("stage")

\* A failed run ends with Cleanup, so a frontend that obeys progress.rs may start
\* again some day.
RetryIsAllowed == ui = "failed" ~> ui = "ready"
=============================================================================
