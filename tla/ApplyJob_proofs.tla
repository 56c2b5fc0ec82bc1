---------------------------- MODULE ApplyJob_proofs ----------------------------
(***************************************************************************)
(* Proofs about apply-job and validate-job, for any number of runs and of  *)
(* edits of the job file: the stream, the exit status and the dry run say  *)
(* the same.                                                               *)
(***************************************************************************)
EXTENDS ApplyJob, SequenceTheorems, TLAPS

Lines == [type : {"stage", "complete", "error"}, code : ErrorCodes \cup {"", "IO_ERROR"}]

\* A job file the command makes no objection to.
Accepts(j) == j.state = "parsed" /\ Verdict(j) = "ok"

\* The stream holds the events of run_create, as far as it got.
Emitted == \A i \in 1 .. Len(sent) : sent[i] = Events[i]

\* What was written, how the command ended and what it thinks of its job agree.
Streamed ==
  /\ sent \in Seq(Lines) /\ pipe \in Seq(Lines)
  /\ sent # <<>> /\ exit # "1" => Emitted /\ cmd = "apply-job" /\ Accepts(job)
  /\ exit = "1" => ~Accepts(job) /\ \A i \in 1 .. Len(sent) : sent[i].type = "error"
  /\ cmd = "apply-job" => (exit = "0" <=> Len(sent) = Len(Events))

\* What each stage of the command knows.
Stage ==
  /\ pc # "off" => exit = "none"
  /\ pc \in {"read", "validate", "error"} => sent = <<>>
  /\ pc = "validate" => job.state = "parsed"
  /\ pc = "events" => cmd = "apply-job" /\ Accepts(job)
  /\ pc = "error" => ~Accepts(job)

\* The dry run noted what the command thinks of the job it read.
Dry ==
  /\ dry \in [job : Jobs, ok : {"never", "no", "yes"}]
  /\ dry.ok = "yes" => Accepts(dry.job)
  /\ dry.ok = "no" => ~Accepts(dry.job)

\* The inductive invariant.
IInv == TypeOK /\ Streamed /\ Stage /\ Dry

-----------------------------------------------------------------------------
\* What is unread at the end of a stream.
Rest(s, k) == SubSeq(s, k + 1, Len(s))

\* A line joins what is unread as it joins the stream.
LEMMA RestOfAppend ==
  ASSUME NEW S, NEW s \in Seq(S), NEW l \in S, NEW k \in 0 .. Len(s)
  PROVE  Append(Rest(s, k), l) = Rest(Append(s, l), k)
<1>1. Len(Append(s, l)) = Len(s) + 1 /\ Append(s, l) \in Seq(S)
  OBVIOUS
<1>2. Rest(s, k) \in Seq(S) /\ Len(Rest(s, k)) = Len(s) - k
  BY DEF Rest
<1>3. Rest(Append(s, l), k) \in Seq(S) /\ Len(Rest(Append(s, l), k)) = Len(s) + 1 - k
  BY <1>1 DEF Rest
<1>4. \A i \in 1 .. Len(s) - k : Rest(s, k)[i] = s[i + k]
  BY DEF Rest
<1>5. \A i \in 1 .. Len(s) + 1 - k : Rest(Append(s, l), k)[i] = Append(s, l)[i + k]
  BY <1>1 DEF Rest
<1>6. ASSUME NEW i \in 1 .. Len(s) + 1 - k
      PROVE  Append(Rest(s, k), l)[i] = Append(s, l)[i + k]
  <2>1. CASE i \in 1 .. Len(s) - k
    BY <1>2, <1>4, <2>1
  <2>2. CASE i = Len(s) - k + 1
    <3>1. Append(Rest(s, k), l)[i] = l
      BY <1>2, <2>2
    <3>2. Append(s, l)[i + k] = l
      BY <2>2
    <3> QED
      BY <3>1, <3>2
  <2>3. i \in 1 .. Len(s) - k \/ i = Len(s) - k + 1
    <3>1. Len(s) \in Nat
      OBVIOUS
    <3> QED
      BY <3>1
  <2> QED
    BY <2>1, <2>2, <2>3
<1>7. Append(Rest(s, k), l) \in Seq(S) /\ Len(Append(Rest(s, k), l)) = Len(s) + 1 - k
  BY <1>2
<1> QED
  BY <1>3, <1>5, <1>6, <1>7, SeqEqual

\* Reading a line leaves the rest unread.
LEMMA RestOfTail ==
  ASSUME NEW S, NEW s \in Seq(S), NEW k \in 0 .. Len(s), Rest(s, k) # <<>>
  PROVE  k + 1 \in 0 .. Len(s) /\ Tail(Rest(s, k)) = Rest(s, k + 1)
<1>1. Rest(s, k) \in Seq(S) /\ Len(Rest(s, k)) = Len(s) - k
  BY DEF Rest
<1>2. k + 1 \in 0 .. Len(s)
  BY <1>1
<1>3. Tail(Rest(s, k)) \in Seq(S) /\ Len(Tail(Rest(s, k))) = Len(s) - k - 1
  BY <1>1
<1>4. Rest(s, k + 1) \in Seq(S) /\ Len(Rest(s, k + 1)) = Len(s) - k - 1
  BY <1>2 DEF Rest
<1>5. \A i \in 1 .. Len(s) - k : Rest(s, k)[i] = s[i + k]
  BY DEF Rest
<1>6. \A i \in 1 .. Len(s) - k - 1 : Tail(Rest(s, k))[i] = s[i + k + 1]
  <2>1. \A i \in 1 .. Len(s) - k - 1 : Tail(Rest(s, k))[i] = Rest(s, k)[i + 1]
    BY <1>1
  <2>2. \A i \in 1 .. Len(s) - k - 1 : i + 1 \in 1 .. Len(s) - k /\ (i + 1) + k = i + k + 1
    BY <1>2
  <2> QED
    BY <1>5, <2>1, <2>2
<1>7. \A i \in 1 .. Len(s) - k - 1 : Rest(s, k + 1)[i] = s[i + k + 1]
  <2> DEFINE l == k + 1
  <2>1. \A i \in 1 .. Len(s) - l : Rest(s, l)[i] = s[i + l]
    <3>1. l \in 0 .. Len(s)
      BY <1>2
    <3> HIDE DEF l
    <3> QED
      BY <3>1 DEF Rest
  <2>2. \A i \in 1 .. Len(s) - k - 1 : i \in 1 .. Len(s) - l /\ i + l = i + k + 1
    OBVIOUS
  <2> QED
    BY <2>1, <2>2
<1>8. \A i \in 1 .. Len(Tail(Rest(s, k))) : Tail(Rest(s, k))[i] = Rest(s, k + 1)[i]
  BY <1>3, <1>6, <1>7
<1> QED
  BY <1>2, <1>3, <1>4, <1>8, SeqEqual

\* The events: three stages and the end.
LEMMA EventsKnown ==
  /\ Len(Events) = 4
  /\ \A i \in 1 .. 3 : Events[i] \in Lines /\ Events[i].type = "stage"
  /\ Events[4] \in Lines /\ Events[4].type = "complete"
<1>1. Events = <<Line("stage"), Line("stage"), Line("stage"), Line("complete")>>
  BY DEF Events
<1>2. Len(Events) = 4 /\ Events[1] = Line("stage") /\ Events[2] = Line("stage")
      /\ Events[3] = Line("stage") /\ Events[4] = Line("complete")
  BY <1>1
<1>3. \A i \in 1 .. 3 : Events[i] = Line("stage")
  BY <1>2
<1>4. \A k \in {"stage", "complete"} : Line(k) \in Lines /\ Line(k).type = k
  BY DEF Line, Lines
<1> QED
  BY <1>2, <1>3, <1>4

\* What validate_job may say.
LEMMA Verdicts ==
  ASSUME NEW j
  PROVE  /\ Verdict(j) \in {"ok", "INTERNAL", "DEVICE_NOT_FOUND"}
         /\ Accepts(j) => j.state = "parsed" /\ j.version = 1 /\ j.path # j.selector
<1>1. Verdict(j) \in {"ok", "INTERNAL", "DEVICE_NOT_FOUND"}
  BY DEF Verdict
<1>2. ASSUME Accepts(j)
      PROVE  j.state = "parsed" /\ j.version = 1 /\ j.path # j.selector
  <2>1. j.state = "parsed" /\ j.version = 1 /\ ~(j.path /\ j.selector) /\ (j.path \/ j.selector)
    BY <1>2, Zenon DEF Accepts, Verdict
  <2> QED
    BY <2>1, Zenon
<1> QED
  BY <1>1, <1>2

-----------------------------------------------------------------------------
\* The lines that are not read are the last ones written.
Unread == \E k \in 0 .. Len(sent) : pipe \in {<<>>, Rest(sent, k)}

\* No more lines are written than there are events.
Short == Len(sent) <= Len(Events)

\* The types of everything but the stream.
Plain ==
  /\ file \in Jobs /\ job \in Jobs /\ json \in BOOLEAN /\ reading \in BOOLEAN
  /\ cmd \in {"validate-job", "apply-job"}
  /\ runs \in 0 .. MaxRuns /\ edits \in 0 .. MaxEdits
  /\ dry.job \in Jobs /\ dry.ok \in {"never", "no", "yes"}
  /\ pc \in {"off", "read", "validate", "events", "error"}
  /\ code \in ErrorCodes \cup {"", "IO_ERROR"}
  /\ exit \in {"none", "0", "1", "panic"} /\ ui \in {"ready", "busy", "failed"}

\* Together they are all there is to it.
LEMMA TypeIsPlain == TypeOK <=> Plain /\ Short /\ Unread
  BY Zenon DEF TypeOK, Plain, Short, Unread, Rest

\* A step that writes nothing leaves of the stream what it was, or less of it unread.
LEMMA StreamKept ==
  ASSUME Streamed, Short, Unread,
         sent' = sent, pipe' \in {<<>>, pipe}
  PROVE  /\ Short' /\ Unread'
         /\ sent' \in Seq(Lines) /\ pipe' \in Seq(Lines)
         /\ (Emitted' <=> Emitted)
<1>1. sent \in Seq(Lines) /\ pipe \in Seq(Lines) /\ <<>> \in Seq(Lines)
  BY EmptySeq DEF Streamed
<1>2. Unread'
  BY DEF Unread
<1>3. Emitted' <=> Emitted
  BY DEF Emitted
<1>4. Short'
  BY DEF Short
<1> QED
  BY <1>1, <1>2, <1>3, <1>4

\* A note of the dry run is one.
LEMMA Noting ==
  /\ \A j \in Jobs, ok \in {"no", "yes"} :
       [job |-> j, ok |-> ok] \in [job : Jobs, ok : {"never", "no", "yes"}]
  /\ \A d \in [job : Jobs, ok : {"never", "no", "yes"}] :
       d.job \in Jobs /\ d.ok \in {"never", "no", "yes"}
OBVIOUS

\* The frontend starts a command.
LEMMA LaunchSafe ==
  ASSUME IInv, NEW c \in {"validate-job", "apply-job"}, Launch(c)
  PROVE  IInv'
<1>1. /\ UNCHANGED <<file, job, json, edits, dry>> /\ reading' = TRUE
      /\ cmd' = c /\ pc' = "read" /\ code' = "" /\ exit' = "none" /\ ui' = "busy"
      /\ sent' = <<>> /\ pipe' = <<>>
  BY DEF Launch
<1>2. runs' \in 0 .. MaxRuns
  <2>1. runs \in 0 .. MaxRuns /\ runs < MaxRuns /\ runs' = runs + 1
    BY TypeIsPlain DEF Launch, IInv, Plain
  <2> QED
    BY <2>1, JobAssumption
<1>3. Plain'
  <2>1. Plain
    BY TypeIsPlain, Zenon DEF IInv
  <2> QED
    BY <1>1, <1>2, <2>1 DEF Plain
<1>4. <<>> \in Seq(Lines) /\ Len(<<>>) = 0
  BY EmptySeq
<1>5. Short' /\ Unread'
  <2>1. Len(sent') = 0
    BY <1>1, <1>4
  <2>2. \E k \in 0 .. Len(sent') : pipe' \in {<<>>, Rest(sent', k)}
    <3>1. 0 \in 0 .. Len(sent')
      BY <2>1
    <3> QED
      BY <1>1, <3>1
  <2> QED
    BY <2>1, <2>2, EventsKnown DEF Short, Unread
<1>6. TypeOK'
  BY <1>3, <1>5, TypeIsPlain, PTL
<1>7. Streamed'
  <2>1. Len(sent') = 0 /\ Len(Events) = 4
    BY <1>1, <1>4, EventsKnown
  <2>2. exit' # "0" /\ exit' # "1" /\ sent' \in Seq(Lines) /\ pipe' \in Seq(Lines)
    BY <1>1, <1>4
  <2>3. sent' = <<>>
    BY <1>1
  <2>4. Len(sent') # Len(Events)
    BY <2>1
  <2> QED
    BY <2>2, <2>3, <2>4 DEF Streamed
<1>8. Stage' /\ Dry'
  BY <1>1 DEF IInv, Stage, Dry
<1> QED
  BY <1>6, <1>7, <1>8 DEF IInv

\* The job file changes, which the command does not notice.
LEMMA EditSafe ==
  ASSUME IInv, Edit
  PROVE  IInv'
<1>1. /\ UNCHANGED <<cmd, job, json, pc, code, exit, sent, pipe, reading, ui, runs, dry>>
      /\ file' \in Jobs
  BY DEF Edit
<1>2. edits' \in 0 .. MaxEdits
  <2>1. edits \in 0 .. MaxEdits /\ edits < MaxEdits /\ edits' = edits + 1
    BY TypeIsPlain DEF Edit, IInv, Plain
  <2> QED
    BY <2>1, JobAssumption
<1>3. Plain'
  <2>1. Plain
    BY TypeIsPlain, Zenon DEF IInv
  <2>2. /\ cmd' = cmd /\ job' = job /\ json' = json /\ pc' = pc /\ code' = code
        /\ exit' = exit /\ reading' = reading /\ ui' = ui /\ runs' = runs /\ dry' = dry
    BY <1>1
  <2> QED
    BY <1>1, <1>2, <2>1, <2>2, Zenon DEF Plain
<1>4. /\ Short' /\ Unread'
      /\ sent' \in Seq(Lines) /\ pipe' \in Seq(Lines) /\ (Emitted' <=> Emitted)
  BY <1>1, StreamKept, TypeIsPlain DEF IInv
<1>5. TypeOK'
  BY <1>3, <1>4, TypeIsPlain, PTL
<1>6. Streamed'
  BY <1>1, <1>4 DEF IInv, Streamed
<1>7. Stage' /\ Dry'
  BY <1>1 DEF IInv, Stage, Dry
<1> QED
  BY <1>5, <1>6, <1>7 DEF IInv

\* The command reads the job file, as it is by now.
LEMMA ReadSafe ==
  ASSUME IInv, ReadJob
  PROVE  IInv'
<1>1. /\ UNCHANGED <<cmd, file, json, edits, runs, exit, sent, pipe, reading, ui>>
      /\ pc = "read" /\ job' = file
  BY DEF ReadJob, setting
<1>2. \/ /\ pc' = "error" /\ code' \in {"IO_ERROR", "INTERNAL"} /\ file.state # "parsed"
         /\ dry' \in {[job |-> file, ok |-> "no"], dry}
      \/ pc' = "validate" /\ code' = code /\ dry' = dry /\ file.state = "parsed"
  BY DEF ReadJob, Fail, Noted
<1>3. file \in Jobs
  BY DEF IInv, TypeOK
<1>4. dry'.job \in Jobs /\ dry'.ok \in {"never", "no", "yes"}
  BY <1>2, <1>3, Noting DEF IInv, Dry
<1>5. Plain'
  <2>1. Plain
    BY TypeIsPlain, Zenon DEF IInv
  <2> QED
    BY <1>1, <1>2, <1>4, <2>1 DEF Plain, ErrorCodes
<1>6. /\ Short' /\ Unread'
      /\ sent' \in Seq(Lines) /\ pipe' \in Seq(Lines) /\ (Emitted' <=> Emitted)
  BY <1>1, StreamKept, TypeIsPlain DEF IInv
<1>7. TypeOK'
  BY <1>5, <1>6, TypeIsPlain, PTL
<1>8. sent = <<>> /\ exit = "none"
  BY <1>1 DEF IInv, Stage
<1>9. Streamed'
  BY <1>1, <1>6, <1>8 DEF IInv, Streamed
<1>10. file.state # "parsed" => ~Accepts(file)
  BY DEF Accepts
<1>11. Stage'
  BY <1>1, <1>2, <1>8, <1>10 DEF Stage
<1>12. Dry'
  BY <1>2, <1>3, <1>10 DEF IInv, Dry
<1> QED
  BY <1>7, <1>9, <1>11, <1>12 DEF IInv

\* The command validates what it read.
LEMMA ValidateSafe ==
  ASSUME IInv, Validate
  PROVE  IInv'
<1>1. /\ UNCHANGED <<cmd, file, json, edits, runs, sent, pipe, reading, ui>>
      /\ pc = "validate" /\ job' = job
  BY DEF Validate, setting
<1>2. \/ /\ pc' = "error" /\ code' = Verdict(job) /\ exit' = exit /\ Verdict(job) # "ok"
         /\ dry' \in {[job |-> job, ok |-> "no"], dry}
      \/ /\ Verdict(job) = "ok" /\ code' = code /\ dry' \in {[job |-> job, ok |-> "yes"], dry}
         /\ \/ cmd = "validate-job" /\ pc' = "off" /\ exit' = "0"
            \/ cmd # "validate-job" /\ pc' = "events" /\ exit' = exit
  BY DEF Validate, Checked, Fail, Noted, Exit
<1>3. job \in Jobs /\ cmd \in {"validate-job", "apply-job"}
  BY DEF IInv, TypeOK
<1>4. dry'.job \in Jobs /\ dry'.ok \in {"never", "no", "yes"}
  BY <1>2, <1>3, Noting DEF IInv, Dry
<1>5. Plain'
  <2>1. Plain
    BY TypeIsPlain, Zenon DEF IInv
  <2> QED
    BY <1>1, <1>2, <1>4, Verdicts, <2>1 DEF Plain, ErrorCodes
<1>6. /\ Short' /\ Unread'
      /\ sent' \in Seq(Lines) /\ pipe' \in Seq(Lines) /\ (Emitted' <=> Emitted)
  BY <1>1, StreamKept, TypeIsPlain DEF IInv
<1>7. TypeOK'
  BY <1>5, <1>6, TypeIsPlain, PTL
<1>8. sent = <<>> /\ exit = "none" /\ job.state = "parsed"
  BY <1>1 DEF IInv, Stage
<1>9. Streamed'
  BY <1>1, <1>2, <1>3, <1>6, <1>8 DEF IInv, Streamed
<1>10. Accepts(job) <=> Verdict(job) = "ok"
  BY <1>8 DEF Accepts
<1>11. Stage'
  BY <1>1, <1>2, <1>3, <1>8, <1>10 DEF Stage
<1>12. Dry'
  BY <1>2, <1>3, <1>10 DEF IInv, Dry
<1> QED
  BY <1>7, <1>9, <1>11, <1>12 DEF IInv

\* Where the pipe is closed nothing is written any more.
LEMMA PanicSafe ==
  ASSUME IInv, Panic
  PROVE  IInv'
<1>1. /\ UNCHANGED <<cmd, file, json, edits, runs, job, code, sent, pipe, reading, ui, dry>>
      /\ pc \in {"events", "error"} /\ pc' = "off" /\ exit' = "panic"
  BY DEF Panic, Exit, setting
<1>2. Plain'
  <2>1. Plain
    BY TypeIsPlain, Zenon DEF IInv
  <2> QED
    BY <1>1, <2>1 DEF Plain
<1>3. /\ Short' /\ Unread'
      /\ sent' \in Seq(Lines) /\ pipe' \in Seq(Lines) /\ (Emitted' <=> Emitted)
  BY <1>1, StreamKept, TypeIsPlain DEF IInv
<1>4. TypeOK'
  BY <1>2, <1>3, TypeIsPlain, PTL
<1>5. exit = "none"
  BY <1>1 DEF IInv, Stage
<1>6. Streamed'
  BY <1>1, <1>3, <1>5 DEF IInv, Streamed
<1>7. Stage' /\ Dry'
  BY <1>1 DEF IInv, Stage, Dry
<1> QED
  BY <1>4, <1>6, <1>7 DEF IInv

\* What a line more makes of the stream.
LEMMA PrintStream ==
  ASSUME Streamed, Unread, NEW l \in Lines, PrintLine(l)
  PROVE  /\ sent' \in Seq(Lines) /\ pipe' \in Seq(Lines) /\ Unread'
         /\ Len(sent') = Len(sent) + 1 /\ sent'[Len(sent) + 1] = l
         /\ \A i \in 1 .. Len(sent) : sent'[i] = sent[i]
<1>1. sent' = Append(sent, l) /\ pipe' = Append(pipe, l)
  BY DEF PrintLine
<1>2. sent \in Seq(Lines) /\ pipe \in Seq(Lines)
  BY DEF Streamed
<1>3. sent' \in Seq(Lines) /\ pipe' \in Seq(Lines) /\ Len(sent') = Len(sent) + 1
  BY <1>1, <1>2
<1>4. sent'[Len(sent) + 1] = l /\ \A i \in 1 .. Len(sent) : sent'[i] = sent[i]
  BY <1>1, <1>2
<1>5. PICK k \in 0 .. Len(sent) : pipe \in {<<>>, Rest(sent, k)}
  BY DEF Unread
<1>6. CASE pipe = Rest(sent, k)
  <2>1. pipe' = Rest(sent', k)
    BY <1>1, <1>2, <1>6, RestOfAppend
  <2>2. k \in 0 .. Len(sent')
    BY <1>2, <1>3
  <2> QED
    BY <1>3, <1>4, <2>1, <2>2 DEF Unread
<1>7. CASE pipe = <<>>
  <2>1. Len(sent) \in 0 .. Len(sent) /\ Len(sent) \in 0 .. Len(sent')
    BY <1>2, <1>3
  <2>2. Rest(sent, Len(sent)) = <<>>
    BY <1>2, SubSeqEmpty DEF Rest
  <2>3. pipe' = Rest(sent', Len(sent))
    BY <1>1, <1>2, <1>7, <2>1, <2>2, RestOfAppend
  <2> QED
    BY <1>3, <1>4, <2>1, <2>3 DEF Unread
<1> QED
  BY <1>5, <1>6, <1>7

\* Each event is the next in order; after the last the command succeeds.
LEMMA EmitSafe ==
  ASSUME IInv, Emit
  PROVE  IInv'
<1>1. /\ UNCHANGED <<cmd, file, json, edits, runs, job, code, reading, ui, dry>>
      /\ pc = "events" /\ PrintLine(Events[Len(sent) + 1])
  BY DEF Emit, setting
<1>2. \/ Len(sent') = Len(Events) /\ pc' = "off" /\ exit' = "0"
      \/ Len(sent') # Len(Events) /\ UNCHANGED <<pc, exit>>
  BY DEF Emit, Exit
<1>3. exit = "none" /\ cmd = "apply-job" /\ Accepts(job)
  BY <1>1 DEF IInv, Stage
<1>4. Len(sent) \in Nat /\ Len(sent) < 4
  <2>1. Len(sent) \in Nat
    BY DEF IInv, Streamed
  <2>2. Len(sent) # Len(Events)
    BY <1>3 DEF IInv, Streamed
  <2>3. Len(sent) <= Len(Events)
    BY TypeIsPlain DEF IInv, Short
  <2> QED
    BY <2>1, <2>2, <2>3, EventsKnown
<1>5. Events[Len(sent) + 1] \in Lines
  BY <1>4, EventsKnown
<1>6. /\ sent' \in Seq(Lines) /\ pipe' \in Seq(Lines) /\ Unread'
      /\ Len(sent') = Len(sent) + 1 /\ sent'[Len(sent) + 1] = Events[Len(sent) + 1]
      /\ \A i \in 1 .. Len(sent) : sent'[i] = sent[i]
  BY <1>1, <1>5, PrintStream, TypeIsPlain DEF IInv
<1>7. \A i \in 1 .. Len(sent) : sent[i] = Events[i]
  <2>1. CASE sent = <<>>
    BY <2>1
  <2>2. CASE sent # <<>>
    BY <1>3, <2>2 DEF IInv, Streamed, Emitted
  <2> QED
    BY <2>1, <2>2
<1>8. Emitted'
  <2>1. \A i \in 1 .. Len(sent) + 1 : i \in 1 .. Len(sent) \/ i = Len(sent) + 1
    BY <1>4
  <2>2. \A i \in 1 .. Len(sent') : sent'[i] = Events[i]
    BY <1>6, <1>7, <2>1
  <2> QED
    BY <2>2 DEF Emitted
<1>9. Short'
  BY <1>4, <1>6, EventsKnown DEF Short
<1>10. Plain'
  <2>1. Plain
    BY TypeIsPlain, Zenon DEF IInv
  <2>2. /\ pc' \in {"off", "read", "validate", "events", "error"}
        /\ exit' \in {"none", "0", "1", "panic"}
    BY <1>1, <1>2, <1>3
  <2>3. /\ file' = file /\ cmd' = cmd /\ job' = job /\ json' = json /\ code' = code
        /\ reading' = reading /\ ui' = ui /\ runs' = runs /\ edits' = edits /\ dry' = dry
    BY <1>1
  <2>4. /\ file' \in Jobs /\ job' \in Jobs /\ json' \in BOOLEAN /\ reading' \in BOOLEAN
        /\ cmd' \in {"validate-job", "apply-job"}
        /\ runs' \in 0 .. MaxRuns /\ edits' \in 0 .. MaxEdits
    BY <2>1, <2>3, Zenon DEF Plain
  <2>5. /\ dry'.job \in Jobs /\ dry'.ok \in {"never", "no", "yes"}
        /\ code' \in ErrorCodes \cup {"", "IO_ERROR"} /\ ui' \in {"ready", "busy", "failed"}
    BY <2>1, <2>3, Zenon DEF Plain
  <2> QED
    BY <2>2, <2>4, <2>5, Zenon DEF Plain
<1>11. TypeOK'
  BY <1>6, <1>9, <1>10, TypeIsPlain, PTL
<1>12. Streamed'
  <2>1. exit' # "1" /\ (exit' = "0" <=> Len(sent') = Len(Events))
    BY <1>2, <1>3
  <2>2. cmd' = "apply-job" /\ Accepts(job)'
    BY <1>1, <1>3
  <2> QED
    BY <1>6, <1>8, <2>1, <2>2 DEF Streamed
<1>13. Stage' /\ Dry'
  BY <1>1, <1>2, <1>3 DEF IInv, Stage, Dry
<1> QED
  BY <1>11, <1>12, <1>13 DEF IInv

\* The error envelope is the only line of a run that fails.
LEMMA EnvelopeSafe ==
  ASSUME IInv, Envelope
  PROVE  IInv'
<1>1. /\ UNCHANGED <<cmd, file, json, edits, runs, job, code, reading, ui, dry>>
      /\ pc = "error" /\ pc' = "off" /\ exit' = "1"
  BY DEF Envelope, Exit, setting
<1>2. PrintLine([type |-> "error", code |-> code]) \/ UNCHANGED <<sent, pipe>>
  BY DEF Envelope
<1>3. sent = <<>> /\ ~Accepts(job) /\ Len(sent) = 0
  BY <1>1, EmptySeq DEF IInv, Stage
<1>4. [type |-> "error", code |-> code] \in Lines
  BY TypeIsPlain DEF IInv, Plain, Lines
<1>5. /\ sent' \in Seq(Lines) /\ pipe' \in Seq(Lines) /\ Unread' /\ Len(sent') \in {0, 1}
      /\ \A i \in 1 .. Len(sent') : sent'[i].type = "error"
  <2>1. CASE PrintLine([type |-> "error", code |-> code])
    <3>1. /\ sent' \in Seq(Lines) /\ pipe' \in Seq(Lines) /\ Unread' /\ Len(sent') = 1
          /\ sent'[1] = [type |-> "error", code |-> code]
      BY <1>3, <1>4, <2>1, PrintStream, TypeIsPlain DEF IInv
    <3>2. \A i \in 1 .. Len(sent') : i = 1
      BY <3>1
    <3> QED
      BY <3>1, <3>2
  <2>2. CASE UNCHANGED <<sent, pipe>>
    <3>1. Unread' /\ sent' \in Seq(Lines) /\ pipe' \in Seq(Lines)
      BY <2>2, StreamKept, TypeIsPlain DEF IInv
    <3>2. Len(sent') = 0
      BY <1>3, <2>2
    <3> QED
      BY <3>1, <3>2
  <2> QED
    BY <1>2, <2>1, <2>2
<1>6. Short'
  BY <1>5, EventsKnown DEF Short
<1>7. Plain'
  <2>1. Plain
    BY TypeIsPlain, Zenon DEF IInv
  <2> QED
    BY <1>1, <2>1 DEF Plain
<1>8. TypeOK'
  BY <1>5, <1>6, <1>7, TypeIsPlain, PTL
<1>9. Streamed'
  <2>1. Len(Events) = 4 /\ Len(sent') \in {0, 1}
    BY <1>5, EventsKnown
  <2>2. Len(sent') # Len(Events)
    BY <2>1
  <2> QED
    BY <1>1, <1>3, <1>5, <2>2 DEF Streamed
<1>10. Stage' /\ Dry'
  BY <1>1 DEF IInv, Stage, Dry
<1> QED
  BY <1>8, <1>9, <1>10 DEF IInv

\* The frontend reads a line, or looks at validate-job's exit status, or goes away.
LEMMA FrontendSafe ==
  ASSUME IInv, Consume \/ Reap \/ CloseReader
  PROVE  IInv'
<1>1. UNCHANGED <<file, cmd, json, runs, edits, job, pc, code, exit, dry, sent>>
  BY DEF Consume, Reap, CloseReader, command, setting
<1>2. reading' \in BOOLEAN
  BY TypeIsPlain DEF IInv, Plain, Consume, Reap, CloseReader
<1>3. ui' \in {"ready", "busy", "failed"}
  <2>1. ui \in {"ready", "busy", "failed"}
    BY TypeIsPlain DEF IInv, Plain
  <2>2. CASE Consume
    <3>1. ui' \in {"ready", "failed", ui}
      BY <2>2 DEF Consume
    <3> QED
      BY <2>1, <3>1
  <2>3. CASE Reap \/ CloseReader
    BY <2>3 DEF Reap, CloseReader
  <2> QED
    BY <2>2, <2>3
<1>4. Plain'
  <2>1. Plain
    BY TypeIsPlain, Zenon DEF IInv
  <2> QED
    BY <1>1, <1>2, <1>3, <2>1 DEF Plain
<1>5. sent \in Seq(Lines) /\ pipe \in Seq(Lines) /\ Unread /\ Short /\ Streamed
  BY TypeIsPlain DEF IInv, Streamed
<1>6. pipe' \in Seq(Lines) /\ Unread'
  <2>1. CASE Consume
    <3>1. pipe' = Tail(pipe) /\ pipe # <<>>
      BY <2>1 DEF Consume
    <3>2. PICK k \in 0 .. Len(sent) : pipe = Rest(sent, k)
      BY <1>5, <3>1 DEF Unread
    <3>3. k + 1 \in 0 .. Len(sent) /\ pipe' = Rest(sent, k + 1)
      BY <1>5, <3>1, <3>2, RestOfTail
    <3>4. pipe' \in Seq(Lines)
      BY <1>5, <3>1, HeadTailProperties
    <3> QED
      BY <1>1, <3>3, <3>4 DEF Unread
  <2>2. CASE Reap \/ CloseReader
    <3>1. pipe' = <<>>
      BY <2>2 DEF Reap, CloseReader
    <3> QED
      BY <1>1, <1>5, <3>1, StreamKept
  <2> QED
    BY <2>1, <2>2
<1>7. Short' /\ (Emitted' <=> Emitted)
  BY <1>1, <1>5 DEF Short, Emitted
<1>8. TypeOK'
  BY <1>4, <1>6, <1>7, TypeIsPlain, PTL
<1>9. Streamed'
  BY <1>1, <1>5, <1>6, <1>7 DEF Streamed
<1>10. Stage' /\ Dry'
  BY <1>1 DEF IInv, Stage, Dry
<1> QED
  BY <1>8, <1>9, <1>10 DEF IInv

-----------------------------------------------------------------------------
\* Before the first run nothing is written.
LEMMA InitSafe == Init => IInv
<1> SUFFICES ASSUME Init PROVE IInv
  OBVIOUS
<1>1. /\ file \in Jobs /\ job = file /\ cmd = "apply-job" /\ pc = "off" /\ code = ""
      /\ exit = "none" /\ sent = <<>> /\ pipe = <<>> /\ ui = "ready" /\ runs = 0 /\ edits = 0
      /\ dry = [job |-> file, ok |-> "never"]
  BY DEF Init
<1>2. json \in BOOLEAN /\ reading \in BOOLEAN
  BY Zenon DEF Init
<1>3. dry \in [job : Jobs, ok : {"never", "no", "yes"}] /\ dry.ok = "never" /\ dry.job \in Jobs
  BY <1>1
<1>4. runs \in 0 .. MaxRuns /\ edits \in 0 .. MaxEdits
  <2>1. 0 \in 0 .. MaxRuns /\ 0 \in 0 .. MaxEdits
    BY JobAssumption
  <2>2. runs = 0 /\ edits = 0
    BY <1>1
  <2> QED
    BY <2>1, <2>2
<1>5. Plain
  BY <1>1, <1>2, <1>3, <1>4 DEF Plain, ErrorCodes
<1>6. <<>> \in Seq(Lines) /\ Len(<<>>) = 0
  BY EmptySeq
<1>7. Len(sent) = 0 /\ Len(Events) = 4
  BY <1>1, <1>6, EventsKnown
<1>8. Short
  BY <1>7 DEF Short
<1>9. 0 \in 0 .. Len(sent)
  BY <1>7
<1>10. Unread
  BY <1>1, <1>9 DEF Unread
<1>11. Len(sent) # Len(Events)
  BY <1>7
<1>12. Streamed
  BY <1>1, <1>6, <1>11 DEF Streamed
<1>13. Stage /\ Dry
  BY <1>1, <1>3 DEF Stage, Dry
<1> QED
  BY <1>5, <1>8, <1>10, <1>12, <1>13, TypeIsPlain DEF IInv

\* Every step keeps the inductive invariant.
LEMMA NextSafe == IInv /\ [Next]_vars => IInv'
<1> SUFFICES ASSUME IInv, [Next]_vars PROVE IInv'
  OBVIOUS
<1>1. CASE Next
  BY <1>1, LaunchSafe, EditSafe, ReadSafe, ValidateSafe, PanicSafe, EmitSafe, EnvelopeSafe,
     FrontendSafe DEF Next, Command
<1>2. CASE UNCHANGED vars
  <2>1. /\ UNCHANGED <<file, cmd, json, runs, edits, job, pc, code, exit, dry, sent, pipe, ui>>
        /\ UNCHANGED reading
    BY <1>2 DEF vars
  <2>2. Plain'
    <3>1. Plain
      BY TypeIsPlain, Zenon DEF IInv
    <3>2. /\ file' = file /\ cmd' = cmd /\ job' = job /\ json' = json /\ pc' = pc
          /\ code' = code /\ exit' = exit /\ reading' = reading /\ ui' = ui
          /\ runs' = runs /\ edits' = edits /\ dry' = dry
      BY <2>1
    <3>3. /\ file' \in Jobs /\ job' \in Jobs /\ json' \in BOOLEAN /\ reading' \in BOOLEAN
          /\ cmd' \in {"validate-job", "apply-job"}
          /\ runs' \in 0 .. MaxRuns /\ edits' \in 0 .. MaxEdits
      BY <3>1, <3>2, Zenon DEF Plain
    <3>4. /\ dry'.job \in Jobs /\ dry'.ok \in {"never", "no", "yes"}
          /\ pc' \in {"off", "read", "validate", "events", "error"}
          /\ exit' \in {"none", "0", "1", "panic"} /\ ui' \in {"ready", "busy", "failed"}
          /\ code' \in ErrorCodes \cup {"", "IO_ERROR"}
      BY <3>1, <3>2, Zenon DEF Plain
    <3> QED
      BY <3>3, <3>4, Zenon DEF Plain
  <2>3. /\ Short' /\ Unread'
        /\ sent' \in Seq(Lines) /\ pipe' \in Seq(Lines) /\ (Emitted' <=> Emitted)
    BY <2>1, StreamKept, TypeIsPlain DEF IInv
  <2>4. TypeOK'
    BY <2>2, <2>3, TypeIsPlain, PTL
  <2>5. Streamed'
    BY <2>1, <2>3 DEF IInv, Streamed
  <2>6. Stage' /\ Dry'
    BY <2>1 DEF IInv, Stage, Dry
  <2> QED
    BY <2>4, <2>5, <2>6 DEF IInv
<1> QED
  BY <1>1, <1>2

\* Stream, stage, job and dry run agree, however often the frontend runs a command,
\* goes away or edits the file.
THEOREM JobSafe == Spec => []IInv
<1>1. Init => IInv
  BY InitSafe
<1>2. IInv /\ [Next]_vars => IInv'
  BY NextSafe
<1> QED
  BY <1>1, <1>2, PTL DEF Spec

\* The variables have their types; an unread line was written in this run.
THEOREM TypesKept == Spec => []TypeOK
<1>1. IInv => TypeOK
  BY DEF IInv
<1> QED
  BY <1>1, JobSafe, PTL

\* What a stream of events, or an error envelope, holds.
LEMMA WhatIsWritten ==
  ASSUME IInv
  PROVE  /\ Wrote("stage") => Accepts(job) /\ cmd = "apply-job" /\ exit # "1"
         /\ Wrote("complete") => cmd = "apply-job" /\ exit = "0"
         /\ cmd = "apply-job" /\ exit = "0" => Wrote("complete")
<1>1. sent \in Seq(Lines) /\ DOMAIN sent = 1 .. Len(sent) /\ Len(sent) \in Nat
  BY DEF IInv, Streamed
<1>2. Len(sent) <= 4
  BY EventsKnown, TypeIsPlain DEF IInv, Short
<1>3. ASSUME NEW i \in 1 .. Len(sent), sent[i].type # "error"
      PROVE  /\ exit # "1" /\ sent[i] = Events[i] /\ cmd = "apply-job" /\ Accepts(job)
             /\ sent[i].type = "complete" => exit = "0"
  <2>1. sent # <<>>
    BY <1>1
  <2>2. exit # "1"
    BY <1>3 DEF IInv, Streamed
  <2>3. sent[i] = Events[i] /\ cmd = "apply-job" /\ Accepts(job)
    BY <2>1, <2>2 DEF IInv, Streamed, Emitted
  <2>4. CASE sent[i].type = "complete"
    <3>1. i \notin 1 .. 3
      BY <2>3, <2>4, EventsKnown
    <3>2. Len(sent) = 4
      BY <1>1, <1>2, <3>1
    <3>3. exit = "0"
      BY <2>3, <3>2, EventsKnown DEF IInv, Streamed
    <3> QED
      BY <2>2, <2>3, <3>3
  <2> QED
    BY <2>2, <2>3, <2>4
<1>4. ASSUME cmd = "apply-job", exit = "0" PROVE Wrote("complete")
  <2>1. Len(sent) = 4
    BY <1>4, EventsKnown DEF IInv, Streamed
  <2>2. 4 \in 1 .. Len(sent)
    BY <2>1
  <2>3. sent # <<>>
    BY <1>1, <2>2
  <2>4. sent[4] = Events[4]
    BY <1>4, <2>2, <2>3 DEF IInv, Streamed, Emitted
  <2> QED
    BY <1>1, <2>2, <2>4, EventsKnown DEF Wrote
<1>5. Wrote("stage") => Accepts(job) /\ cmd = "apply-job" /\ exit # "1"
  BY <1>1, <1>3 DEF Wrote
<1>6. Wrote("complete") => cmd = "apply-job" /\ exit = "0"
  BY <1>1, <1>3 DEF Wrote
<1> QED
  BY <1>4, <1>5, <1>6

\* A stage is announced only for a job of version 1 that names its device in exactly
\* one way.
THEOREM ValidJobsOnly == Spec => []OnlyValidJobsRun
<1>1. IInv => OnlyValidJobsRun
  <2> SUFFICES ASSUME IInv, Wrote("stage")
               PROVE  job.state = "parsed" /\ job.version = 1 /\ job.path # job.selector
    BY DEF OnlyValidJobsRun
  <2>1. Accepts(job)
    BY WhatIsWritten
  <2> QED
    BY <2>1, Verdicts
<1> QED
  BY <1>1, JobSafe, PTL

\* Complete is written by the runs that exit 0, and by no other, wherever the reader
\* went away.
THEOREM StreamTellsExit == Spec => []CompleteIffSuccess
<1>1. IInv => CompleteIffSuccess
  BY WhatIsWritten DEF CompleteIffSuccess
<1> QED
  BY <1>1, JobSafe, PTL

\* What validate-job accepted does not fail, what it refused does not begin, whatever
\* is edited in between.
THEOREM DryRunTells == Spec => []DryRunAgrees
<1>1. IInv => DryRunAgrees
  <2>1. ASSUME IInv, exit = "1" PROVE ~Accepts(job)
    BY <2>1 DEF IInv, Streamed
  <2>2. ASSUME IInv PROVE (dry.ok = "yes" => Accepts(dry.job)) /\ (dry.ok = "no" => ~Accepts(dry.job))
    BY <2>2 DEF IInv, Dry
  <2> QED
    BY <2>1, <2>2, WhatIsWritten DEF DryRunAgrees
<1> QED
  BY <1>1, JobSafe, PTL
=============================================================================
