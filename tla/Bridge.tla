------------------------------- MODULE Bridge -------------------------------
(***************************************************************************)
(* The runner that stands between BotMux and the agent service: it reads   *)
(* messages from BotMux one at a time, uploads their attachments, streams  *)
(* a turn of the session's thread or resumes the one that waits for a      *)
(* decision, mirrors reminders into BotMux's scheduler, and ends every     *)
(* message with one final frame. Its state file outlives it.               *)
(*                                                                         *)
(* The service is reduced to the checkpoints of the thread (AgentRuns has  *)
(* the rest). A request the bridge has stopped listening to goes on in the *)
(* service until it notices: it is the "lost" stream.                      *)
(***************************************************************************)
EXTENDS Naturals, Sequences, FiniteSets

CONSTANTS
    MaxMsgs,     \* bound: messages of the session
    MaxQueue,    \* bound: messages that wait in the bridge
    Kinds,       \* what is sent: chat, plan, remind, yes, no, due, empty
    MaxFaults,   \* bound: lost streams, failed calls, deaths of the bridge
    Files        \* attachments that may come with a message

BridgeAssumption == MaxMsgs \in Nat /\ MaxQueue \in Nat /\ MaxFaults \in Nat /\ "none" \notin Kinds

VARIABLES
    inbox,     \* messages read from stdin and not yet processed
    kind,      \* what each message is; "none": not sent
    file,      \* its attachment, or NoFile
    turn,      \* the message in process and where process() is
    finals,    \* final frames per message
    pending,   \* pending_interrupt of the state file: a run, or 0
    uploaded, scheduled,   \* fingerprints and reminders of the state file
    docs,      \* documents stored by the service, per file
    tasks,     \* BotMux tasks, per reminder (named after the run that made it)
    ckpt,      \* the thread's latest checkpoint
    stream,    \* requests the service works on: the live one and a lost one
    stored,    \* how often the plan of each run was stored
    approved,  \* history: runs whose plan the user approved
    said,      \* history: the latest decision on each run
    overtaken, \* history: a lost request went on beside a later one
    faults, up

disk == <<pending, uploaded, scheduled>>
service == <<docs, ckpt, stream, stored, overtaken>>
world == <<inbox, kind, file, finals, tasks, approved, said>>
vars == <<inbox, kind, file, turn, finals, pending, uploaded, scheduled, docs, tasks, ckpt,
          stream, stored, approved, said, overtaken, faults, up>>

Ids == 1..MaxMsgs
NoFile == "no file"
\* a run is named after the message that started it
NoRun == [run |-> 0, next |-> "none", ok |-> FALSE]
NoStream == [pc |-> "off", label |-> 0, at |-> NoRun, decision |-> "none"]
Rest == [pc |-> "idle", m |-> 0]

Init ==
    /\ inbox = <<>> /\ turn = Rest /\ pending = 0 /\ uploaded = {} /\ scheduled = {}
    /\ kind = [m \in Ids |-> "none"] /\ file = [m \in Ids |-> NoFile]
    /\ finals = [m \in Ids |-> 0] /\ stored = [m \in Ids |-> 0] /\ tasks = [m \in Ids |-> 0]
    /\ docs = [f \in Files |-> 0]
    /\ ckpt = NoRun /\ stream = [s \in {"live", "lost"} |-> NoStream]
    /\ approved = {} /\ said = [m \in Ids |-> "none"] /\ overtaken = FALSE /\ faults = 0 /\ up = TRUE

Fault == faults < MaxFaults /\ faults' = faults + 1
At(pc) == up /\ turn.pc = pc
M == turn.m

---------------------------------------------------------------------------
(* run_bridge: stdin and the worker thread.                                *)

\* a line of stdin is decoded and queued
Send(m, k, f) ==
    /\ up /\ kind[m] = "none" /\ \A n \in Ids : n < m => kind[n] # "none"
    /\ Len(inbox) < MaxQueue /\ (f = NoFile \/ k \in {"chat", "empty"})
    /\ kind' = [kind EXCEPT ![m] = k] /\ file' = [file EXCEPT ![m] = f]
    /\ inbox' = Append(inbox, m)
    /\ UNCHANGED <<turn, finals, disk, service, tasks, approved, said, faults, up>>

\* _emit_final, at the end of every path of process
Final == /\ finals' = [finals EXCEPT ![M] = @ + 1] /\ turn' = Rest

\* what process does first with a message
Entry(m) ==
    CASE kind[m] = "due" -> "say"
      [] kind[m] = "empty" /\ file[m] = NoFile -> "say"
      [] pending # 0 /\ kind[m] \in {"yes", "no"} -> "resume"
      [] OTHER -> IF file[m] = NoFile THEN "text" ELSE "upload"

Take ==
    /\ At("idle") /\ inbox # <<>>
    /\ turn' = [pc |-> Entry(Head(inbox)), m |-> Head(inbox)]
    /\ inbox' = Tail(inbox)
    /\ UNCHANGED <<kind, file, finals, disk, service, tasks, approved, said, faults, up>>

\* nothing to do, or a reminder that is due: it is shown
Say ==
    /\ At("say") /\ Final
    /\ UNCHANGED <<inbox, kind, file, disk, service, tasks, approved, said, faults, up>>

\* LearningFlowClientError, OSError, ValueError
Error ==
    /\ up /\ turn.pc \in {"resume", "text", "upload"} /\ Fault /\ Final
    /\ UNCHANGED <<inbox, kind, file, disk, service, tasks, approved, said, up>>

---------------------------------------------------------------------------
(* _upload_attachments.                                                    *)

SkipUpload ==
    /\ At("upload") /\ file[M] \in uploaded
    /\ turn' = [turn EXCEPT !.pc = "text"]
    /\ UNCHANGED <<world, disk, service, faults, up>>

\* faulty: the fingerprint is kept before the document is stored
UploadMarksFirst ==
    /\ At("upload") /\ file[M] \notin uploaded
    /\ uploaded' = uploaded \cup {file[M]}
    /\ turn' = [turn EXCEPT !.pc = "answered"]
    /\ UNCHANGED <<world, pending, scheduled, service, faults, up>>

\* POST /api/documents
Upload ==
    /\ At("upload") /\ file[M] \notin uploaded
    /\ docs' = [docs EXCEPT ![file[M]] = @ + 1]
    /\ turn' = [turn EXCEPT !.pc = "answered"]
    /\ UNCHANGED <<world, disk, ckpt, stream, stored, overtaken, faults, up>>

MarkUploaded ==
    /\ At("answered")
    /\ uploaded' = uploaded \cup {file[M]}
    /\ turn' = [turn EXCEPT !.pc = "text"]
    /\ UNCHANGED <<world, pending, scheduled, service, faults, up>>

\* the document is stored but its answer does not arrive
UploadUnanswered ==
    /\ At("answered") /\ Fault /\ Final
    /\ UNCHANGED <<inbox, kind, file, disk, service, tasks, approved, said, up>>

---------------------------------------------------------------------------
(* process, with the attachments uploaded.                                 *)

\* no text, or a decision is pending: "请回复确认或取消"
Refuse ==
    /\ At("text") /\ (kind[M] = "empty" \/ pending # 0) /\ Final
    /\ UNCHANGED <<inbox, kind, file, disk, service, tasks, approved, said, faults, up>>

\* stream_chat: the input discards what was pending on the thread
Start ==
    /\ At("text") /\ kind[M] # "empty" /\ pending = 0 /\ stream["live"].pc = "off"
    /\ stream' = [stream EXCEPT !["live"] = [pc |-> "step", label |-> M, decision |-> "none",
                     at |-> [run |-> M, next |-> "work", ok |-> FALSE]]]
    /\ ckpt' = [run |-> M, next |-> "work", ok |-> FALSE]
    /\ overtaken' = (overtaken \/ stream["lost"].pc # "off")
    /\ turn' = [turn EXCEPT !.pc = "events"]
    /\ UNCHANGED <<world, disk, docs, stored, faults, up>>

\* _handle_resume: stream_resume goes on from the thread's checkpoint, if it
\* has anything left to run
Resume ==
    /\ At("resume") /\ stream["live"].pc = "off"
    /\ stream' = [stream EXCEPT !["live"] =
                    [pc |-> "step", label |-> pending, decision |-> kind[M], at |-> ckpt]]
    /\ said' = [said EXCEPT ![pending] = kind[M]]
    /\ approved' = IF kind[M] = "yes" THEN approved \cup {pending} ELSE approved
    /\ overtaken' = (overtaken \/ stream["lost"].pc # "off")
    /\ turn' = [turn EXCEPT !.pc = "events"]
    /\ UNCHANGED <<inbox, kind, file, finals, disk, docs, tasks, ckpt, stored, faults, up>>

---------------------------------------------------------------------------
(* The service works on a request, one checkpoint at a time.               *)

NextNode(s) ==
    LET at == stream[s].at
    IN CASE at.next = "work" /\ kind[at.run] = "plan" -> [at EXCEPT !.next = "approve"]
         [] at.next = "approve" -> [at EXCEPT !.next = "persist", !.ok = (stream[s].decision = "yes")]
         [] OTHER -> [at EXCEPT !.next = "none"]

\* the graph stops: at its end, or at a plan without a decision
Stops(s) == stream[s].at.next = "none" \/ (stream[s].at.next = "approve" /\ stream[s].decision = "none")

StreamEnds(s) ==
    /\ stream[s].pc = "step" /\ Stops(s)
    /\ stream' = [stream EXCEPT ![s].pc = IF stream[s].at.next = "none" THEN "done" ELSE "interrupt"]
    /\ UNCHANGED <<world, turn, disk, docs, ckpt, stored, overtaken, faults, up>>

\* persist_plan
Persist(s) == IF stream[s].at.next = "persist" /\ stream[s].at.ok
              THEN [stored EXCEPT ![stream[s].at.run] = @ + 1] ELSE stored

Step(s) ==
    /\ stream[s].pc = "step" /\ ~Stops(s)
    /\ ckpt' = NextNode(s)
    /\ stream' = [stream EXCEPT ![s].at = NextNode(s), ![s].decision = "none",
                     ![s].pc = IF stream[s].at.next = "work" /\ kind[stream[s].at.run] = "remind"
                               THEN "reminder" ELSE "step"]
    /\ stored' = Persist(s)
    /\ UNCHANGED <<world, turn, disk, docs, overtaken, faults, up>>

\* a node raises, persist_plan before or after the plan is stored
Raise ==
    /\ stream["live"].pc = "step" /\ Fault
    /\ stream' = [stream EXCEPT !["live"].pc = "error"]
    /\ stored' \in {stored, Persist("live")}
    /\ UNCHANGED <<world, turn, disk, docs, ckpt, overtaken, up>>

\* a request nobody listens to stops at its next event, or has ended
LostEnds ==
    /\ stream["lost"].pc # "off"
    /\ stream' = [stream EXCEPT !["lost"] = NoStream]
    /\ UNCHANGED <<world, turn, disk, docs, ckpt, stored, overtaken, faults, up>>

---------------------------------------------------------------------------
(* _consume_events.                                                        *)

Live(pc) == At("events") /\ stream["live"].pc = pc
Hangs == stream' = [stream EXCEPT !["live"] = NoStream]

Done ==
    /\ Live("done")
    /\ pending' = 0
    /\ Hangs /\ Final
    /\ UNCHANGED <<inbox, kind, file, uploaded, scheduled, docs, tasks, ckpt, stored, approved, said,
                   overtaken, faults, up>>

Interrupt ==
    /\ Live("interrupt")
    /\ pending' = stream["live"].label
    /\ Hangs /\ Final
    /\ UNCHANGED <<inbox, kind, file, uploaded, scheduled, docs, tasks, ckpt, stored, approved, said,
                   overtaken, faults, up>>

\* faulty: an error event ends the message without a word
ErrorEventSilent ==
    /\ Live("error")
    /\ Hangs /\ turn' = Rest
    /\ UNCHANGED <<world, disk, docs, ckpt, stored, overtaken, faults, up>>

\* an error event leaves pending as it is
ErrorEvent ==
    /\ Live("error")
    /\ Hangs /\ Final
    /\ UNCHANGED <<inbox, kind, file, disk, docs, tasks, ckpt, stored, approved, said, overtaken,
                   faults, up>>

Skipped == stream' = [stream EXCEPT !["live"].pc = "step"]

\* botmux schedule add; it may fail, and may have registered the task then
Register ==
    /\ Live("reminder") /\ stream["live"].at.run \notin scheduled
    /\ tasks' = [tasks EXCEPT ![stream["live"].at.run] = @ + 1]
    /\ turn' = [turn EXCEPT !.pc = "mirrored"]
    /\ UNCHANGED <<inbox, kind, file, finals, disk, service, approved, said, faults, up>>

RegisterFails(registered) ==
    /\ Live("reminder") /\ stream["live"].at.run \notin scheduled /\ Fault
    /\ tasks' = IF registered THEN [tasks EXCEPT ![stream["live"].at.run] = @ + 1] ELSE tasks
    /\ Skipped
    /\ UNCHANGED <<inbox, kind, file, turn, finals, disk, docs, ckpt, stored, approved, said, overtaken, up>>

MarkScheduled ==
    /\ At("mirrored")
    /\ scheduled' = scheduled \cup {stream["live"].at.run}
    /\ turn' = [turn EXCEPT !.pc = "events"] /\ Skipped
    /\ UNCHANGED <<world, pending, uploaded, docs, ckpt, stored, overtaken, faults, up>>

\* the stream ends without a last event, or times out: the service does not
\* know yet
Lose ==
    /\ At("events") /\ stream["lost"].pc = "off" /\ Fault
    /\ stream' = [live |-> NoStream, lost |-> stream["live"]]
    /\ Final
    /\ UNCHANGED <<inbox, kind, file, disk, docs, tasks, ckpt, stored, approved, said, overtaken, up>>

---------------------------------------------------------------------------
\* BotMux ends the session's process; what was queued in it is gone
Die ==
    /\ up /\ up' = FALSE /\ Fault
    /\ stream["lost"].pc = "off"
    /\ turn' = Rest /\ inbox' = <<>>
    /\ stream' = [live |-> NoStream, lost |-> stream["live"]]
    /\ UNCHANGED <<kind, file, finals, disk, docs, tasks, ckpt, stored, approved, said, overtaken>>

Reborn ==
    /\ ~up /\ up' = TRUE
    /\ UNCHANGED <<world, turn, disk, service, faults>>

SendSome == \E m \in Ids, k \in Kinds, f \in Files \cup {NoFile} : Send(m, k, f)
Process ==
    \/ Take \/ Say \/ SkipUpload \/ Upload \/ MarkUploaded \/ Refuse \/ Start \/ Resume
    \/ Step("live") \/ StreamEnds("live") \/ Done \/ Interrupt \/ ErrorEvent \/ Register \/ MarkScheduled
Next ==
    \/ SendSome \/ Process \/ Error \/ UploadUnanswered \/ Step("lost") \/ StreamEnds("lost") \/ Raise \/ LostEnds
    \/ (\E b \in BOOLEAN : RegisterFails(b)) \/ Lose \/ Die \/ Reborn

Spec == Init /\ [][Next]_vars

\* The worker thread and the service go on, and BotMux starts the bridge again.
Fairness == WF_vars(Process) /\ WF_vars(LostEnds) /\ WF_vars(Reborn)

---------------------------------------------------------------------------
\* Types of the bridge's state, its file and the service's.
TypeOK ==
    /\ inbox \in Seq(Ids) /\ kind \in [Ids -> Kinds \cup {"none"}]
    /\ file \in [Ids -> Files \cup {NoFile}]
    /\ turn \in [pc : {"idle", "say", "resume", "text", "upload", "answered", "events", "mirrored"},
                 m : 0..MaxMsgs]
    /\ finals \in [Ids -> 0..1] /\ pending \in 0..MaxMsgs
    /\ uploaded \subseteq Files /\ scheduled \subseteq Ids
    /\ docs \in [Files -> Nat] /\ tasks \in [Ids -> Nat] /\ stored \in [Ids -> Nat]
    /\ ckpt.run \in 0..MaxMsgs /\ ckpt.next \in {"work", "approve", "persist", "none"}
    /\ approved \subseteq Ids /\ said \in [Ids -> {"none", "yes", "no"}] /\ overtaken \in BOOLEAN /\ faults \in 0..MaxFaults /\ up \in BOOLEAN

\* A decision reaches the turn it is about: as long as no abandoned request has
\* gone on beside a later one, the run the bridge keeps as pending is the run of
\* the thread's checkpoint.
PendingIsCurrent == pending # 0 /\ ~overtaken => ckpt.run = pending

\* A plan is stored only if the user has approved it, whatever streams were
\* lost and decisions repeated, under the same proviso.
StoredOnApproval == ~overtaken => \A r \in Ids : stored[r] > 0 => r \in approved

\* A plan is stored only while the user's latest word on it is to store it.
CancelHonoured ==
    [][\A r \in Ids : stored'[r] > stored[r] => said[r] = "yes"]_vars

\* The state file never claims more than was done: what it calls uploaded is
\* stored, what it calls scheduled has its task, so that skipping it is right.
FileTrue ==
    /\ \A f \in uploaded : docs[f] > 0
    /\ \A r \in scheduled : tasks[r] > 0

\* The same attachment is stored once as long as the bridge lives and its
\* uploads are answered.
IndexedOnce == faults = 0 => \A f \in Files : docs[f] <= 1

\* The fingerprint prevents that a file sent again is indexed again.
NeverIndexedTwice == \A f \in Files : docs[f] <= 1

\* Every message that is processed ends with a final frame, unless the bridge
\* dies first; then the bridge takes the next one.
EveryMessageAnswered ==
    \A m \in Ids : (turn.m = m) ~> (finals[m] = 1 \/ ~up)
=============================================================================
