---------------------------- MODULE RequestsProofs ----------------------------
(***************************************************************************)
(* Proofs about the two ways to an agent, modules AgentRuns and Bridge as  *)
(* MCRequests puts them together. For the page: with one request at a time *)
(* and none broken down, turns do not mix. For the bridge, whatever is     *)
(* lost, repeated or killed: what its state file says is true.             *)
(***************************************************************************)
EXTENDS MCRequests, Integers, Sequences, TLAPS

-----------------------------------------------------------------------------
(***************************************************************************)
(* The page.                                                               *)
(***************************************************************************)

Request == [pc : {"idle", "input", "resume", "step", "snapshot", "mark"},
            label : 0..MaxRuns, at : A!Checkpoint, decision : {"none", "approved", "rejected"}]

(* What a request in progress knows while no request has broken down and   *)
(* no other one runs: its run id is the page's, the checkpoint it works on *)
(* is the thread's latest and belongs to that run, and a consent it        *)
(* carries is one for the plan it will find there.                         *)
Undisturbed(s) ==
    /\ stream[s].pc # "idle" => stream[s].label = pendingRun
    /\ stream[s].pc # "input" => pendingRun = ckpt.run
    /\ stream[s].pc \in {"step", "snapshot", "mark"} => stream[s].at = ckpt
    /\ stream[s].pc \in {"resume", "step"} /\ stream[s].decision = "approved" /\ ckpt.next = "approve_plan"
          => ckpt.run \in confirmed
    /\ stream[s].pc \in {"idle", "snapshot", "mark"} /\ ckpt.next = "approve_plan" => card \in {0, ckpt.run}

KeptApart ==
    /\ A!PlanConfirmed
    /\ \A r \in A!Runs : status[r] = "completed" => answer[r] = r
    /\ ckpt.approved => ckpt.run \in confirmed
    /\ \A s \in Streams : Undisturbed(s)

(* A request on its way, and the card on screen, go with a run id. *)
Labelled ==
    /\ card # 0 => pendingRun # 0
    /\ \A s \in Streams : stream[s].pc # "idle" => stream[s].label # 0

ApartInv == A!TypeOK /\ Labelled /\ (faults = 0 => KeptApart)

OneAtATime == \A s, u \in Streams : s = u

(* Initially nothing is stored and nobody has asked. *)
LEMMA ApartInit == A!Init => ApartInv
<1> SUFFICES ASSUME A!Init PROVE ApartInv
  OBVIOUS
<1>0. MaxRuns \in Nat /\ MaxFaults \in Nat
  BY RequestsAssumption DEF A!AgentRunsAssumption
<1>1. A!Idle.at = [run |-> 0, next |-> "none", approved |-> FALSE] /\ A!Idle.at \in A!Checkpoint
  BY <1>0 DEF A!Idle, A!Checkpoint, A!NextNode
<1>2. A!Idle \in Request /\ A!Idle.pc = "idle"
  BY <1>0, <1>1 DEF A!Idle, Request
<1>3. A!TypeOK
  BY <1>0, <1>1, <1>2 DEF A!Init, A!TypeOK, A!Runs, A!Statuses, Request
<1>4. KeptApart
  BY <1>1, <1>2 DEF A!Init, KeptApart, A!PlanConfirmed, Undisturbed
<1>5. Labelled
  BY <1>2 DEF A!Init, Labelled
<1> QED
  BY <1>3, <1>4, <1>5 DEF ApartInv

(* Types of what a request changes. *)
LEMMA ApartTypes ==
  ASSUME A!TypeOK, Labelled, A!Next
  PROVE  A!TypeOK'
<1>0. MaxRuns \in Nat /\ MaxFaults \in Nat
  BY RequestsAssumption DEF A!AgentRunsAssumption
<1>a. /\ status \in [A!Runs -> A!Statuses] /\ answer \in [A!Runs -> 0..MaxRuns] /\ stored \in [A!Runs -> Nat]
      /\ 0 \in 0..MaxRuns
  BY <1>0 DEF A!TypeOK
<1>b. {"interrupted", "failed", "completed"} \subseteq A!Statuses
  BY DEF A!Statuses
<1>1. /\ stream \in [Streams -> Request] /\ ckpt \in A!Checkpoint
      /\ \A s \in Streams : stream[s] \in Request /\ stream[s].at \in A!Checkpoint
  BY DEF A!TypeOK, Request
<1>2. ASSUME NEW s \in Streams, NEW l \in {"input", "resume"}, NEW r \in 0..MaxRuns, NEW d \in {"none", "approved", "rejected"},
             stream' = [stream EXCEPT ![s] = [A!Idle EXCEPT !.pc = l, !.label = r, !.decision = d]]
      PROVE  stream' \in [Streams -> Request]
  <2>1. A!Idle \in Request
    BY <1>0 DEF A!Idle, Request, A!Checkpoint, A!NextNode
  <2>2. [A!Idle EXCEPT !.pc = l, !.label = r, !.decision = d] \in Request
    BY <2>1 DEF Request
  <2> QED
    BY <1>1, <1>2, <2>2
<1>3. ASSUME NEW s \in Streams, stream' = [stream EXCEPT ![s] = A!Idle] PROVE stream' \in [Streams -> Request]
  <2>1. A!Idle \in Request
    BY <1>0 DEF A!Idle, Request, A!Checkpoint, A!NextNode
  <2> QED
    BY <1>1, <1>3, <2>1
<1>4. ASSUME NEW s \in Streams, NEW c \in A!Checkpoint, A!Write(s, c)
      PROVE  ckpt' \in A!Checkpoint /\ stream' \in [Streams -> Request]
  <2> DEFINE p == IF c.next = "none" THEN "snapshot" ELSE "step"
             rec == [stream[s] EXCEPT !.pc = p, !.at = c, !.decision = "none"]
  <2>1. stream' = [stream EXCEPT ![s] = rec] /\ ckpt' = c
    BY <1>1, <1>4 DEF A!Write
  <2>2. p \in {"step", "snapshot"} /\ stream[s] \in Request
    BY <1>1
  <2> HIDE DEF p
  <2>3. rec \in Request
    BY <2>2 DEF Request
  <2> HIDE DEF rec
  <2> QED
    BY <1>1, <2>1, <2>3
<1>5. ASSUME NEW s \in Streams, NEW r \in A!Runs, NEW k \in {"chat", "plan"}, A!Run(s, r, k) PROVE A!TypeOK'
  <2>1. stream' = [stream EXCEPT ![s] = [A!Idle EXCEPT !.pc = "input", !.label = r]]
    BY <1>5 DEF A!Run
  <2>2. A!Idle \in Request
    BY <1>0 DEF A!Idle, Request, A!Checkpoint, A!NextNode
  <2>3. r \in 0..MaxRuns
    BY <1>0 DEF A!Runs
  <2>4. [A!Idle EXCEPT !.pc = "input", !.label = r] \in Request
    BY <2>2, <2>3 DEF Request
  <2>5. stream' \in [Streams -> Request]
    BY <1>1, <2>1, <2>4
  <2> QED
    BY <1>5, <2>3, <2>5 DEF A!Run, A!TypeOK, A!Statuses, Request
<1>6. ASSUME NEW r \in A!Runs, NEW k \in {"chat", "plan"}, A!RunRefused(r, k) PROVE A!TypeOK'
  BY <1>6, <1>1 DEF A!RunRefused, A!TypeOK, A!Statuses, A!page
<1>7. ASSUME NEW s \in Streams, NEW d \in {"approved", "rejected"}, A!Resume(s, d) PROVE A!TypeOK'
  <2>1. stream' = [stream EXCEPT ![s] = [A!Idle EXCEPT !.pc = "resume", !.label = pendingRun, !.decision = d]]
    BY <1>7 DEF A!Resume
  <2>2. stream' \in [Streams -> Request]
    BY <2>1, <1>2 DEF A!TypeOK
  <2>3. card \in A!Runs
    BY <1>7 DEF A!Resume, A!TypeOK, A!Runs
  <2> QED
    BY <1>7, <1>0, <2>2, <2>3 DEF A!Resume, A!TypeOK, A!rows, Request
<1>8. ASSUME NEW s \in Streams, A!Input(s) PROVE A!TypeOK'
  <2>1. [run |-> stream[s].label, next |-> "work", approved |-> FALSE] \in A!Checkpoint
    BY <1>1 DEF A!Checkpoint, A!NextNode, Request
  <2>2. ckpt' \in A!Checkpoint /\ stream' \in [Streams -> Request]
    BY <1>8, <2>1, <1>4 DEF A!Input
  <2> QED
    BY <1>8, <2>2 DEF A!Input, A!TypeOK, A!rows, A!page, Request
<1>9. ASSUME NEW s \in Streams, A!Load(s) PROVE A!TypeOK'
  <2> DEFINE p == IF ckpt.next = "none" THEN "snapshot" ELSE "step"
             rec == [stream[s] EXCEPT !.pc = p, !.at = ckpt]
  <2>a. stream' = [stream EXCEPT ![s] = rec]
    BY <1>1, <1>9 DEF A!Load
  <2>b. p \in {"step", "snapshot"} /\ stream[s] \in Request
    BY <1>1
  <2> HIDE DEF p
  <2>c. rec \in Request
    BY <2>b, <1>1 DEF Request
  <2> HIDE DEF rec
  <2>1. stream' \in [Streams -> Request]
    BY <1>1, <2>a, <2>c
  <2> QED
    BY <1>9, <2>1 DEF A!Load, A!TypeOK, A!rows, A!page, Request
<1>10. ASSUME NEW s \in Streams, NEW n \in A!NextNode, NEW b \in BOOLEAN
       PROVE  /\ [stream[s].at EXCEPT !.next = n] \in A!Checkpoint
              /\ [stream[s].at EXCEPT !.next = n, !.approved = b] \in A!Checkpoint
  BY <1>1 DEF A!Checkpoint
<1>11. ASSUME NEW s \in Streams, A!Work(s) PROVE A!TypeOK'
  <2>1. PICK n \in A!NextNode : A!Write(s, [stream[s].at EXCEPT !.next = n])
    BY <1>11 DEF A!Work, A!NextNode
  <2>2. ckpt' \in A!Checkpoint /\ stream' \in [Streams -> Request]
    BY <2>1, <1>4, <1>10
  <2> QED
    BY <1>11, <2>2 DEF A!Work, A!TypeOK, A!rows, A!page, Request
<1>12. ASSUME NEW s \in Streams, A!Interrupt(s) PROVE A!TypeOK'
  <2>1. stream' \in [Streams -> Request] /\ stream[s].label \in 0..MaxRuns /\ stream[s].at.run \in 0..MaxRuns
    BY <1>12, <1>1 DEF A!Interrupt, Request, A!Checkpoint
  <2>2. status' \in [A!Runs -> A!Statuses] /\ answer' \in [A!Runs -> 0..MaxRuns]
    BY <1>12, <1>a, <1>b DEF A!Interrupt
  <2> QED
    BY <1>12, <2>1, <2>2 DEF A!Interrupt, A!TypeOK, Request
<1>13. ASSUME NEW s \in Streams, A!Approve(s) PROVE A!TypeOK'
  <2>1. A!Write(s, [stream[s].at EXCEPT !.next = "persist_plan", !.approved = stream[s].decision = "approved"])
    BY <1>13 DEF A!Approve
  <2>2. "persist_plan" \in A!NextNode /\ (stream[s].decision = "approved") \in BOOLEAN
    BY DEF A!NextNode
  <2>3. ckpt' \in A!Checkpoint /\ stream' \in [Streams -> Request]
    BY <2>1, <2>2, <1>4, <1>10
  <2> QED
    BY <1>13, <2>3 DEF A!Approve, A!TypeOK, A!rows, A!page, Request
<1>14. ASSUME NEW r, NEW b PROVE A!Store(r, b) \in [A!Runs -> Nat]
  <2>1. \A x \in A!Runs : stored[x] \in Nat /\ stored[x] + 1 \in Nat
    BY <1>a
  <2> QED
    BY <1>a, <2>1 DEF A!Store
<1>15. ASSUME NEW s \in Streams, A!Persist(s) PROVE A!TypeOK'
  <2>1. A!Write(s, [stream[s].at EXCEPT !.next = "none"]) /\ "none" \in A!NextNode
    BY <1>15 DEF A!Persist, A!NextNode
  <2>2. ckpt' \in A!Checkpoint /\ stream' \in [Streams -> Request]
    BY <2>1, <1>4, <1>10
  <2>3. stored' \in [A!Runs -> Nat]
    BY <1>15, <1>14 DEF A!Persist
  <2> QED
    BY <1>15, <2>2, <2>3 DEF A!Persist, A!TypeOK, A!rows, A!page, Request
<1>16. ASSUME NEW s \in Streams, A!Snapshot(s) PROVE A!TypeOK'
  <2>1. stream' \in [Streams -> Request]
    <3>1. CASE stream' = [stream EXCEPT ![s] = A!Idle]
      BY <3>1, <1>3
    <3>2. CASE stream' = [stream EXCEPT ![s].pc = "mark", ![s].at = ckpt]
      BY <3>2, <1>1, ZenonT(40) DEF Request
    <3> QED
      BY <1>16, <3>1, <3>2 DEF A!Snapshot
  <2>2. replies' \in [A!Runs -> Nat]
    BY <1>16 DEF A!Snapshot, A!TypeOK
  <2> QED
    BY <1>16, <2>1, <2>2 DEF A!Snapshot, A!TypeOK, A!page, Request
<1>17. ASSUME NEW s \in Streams, A!Mark(s) PROVE A!TypeOK'
  <2>1. stream' \in [Streams -> Request]
    BY <1>17, <1>3 DEF A!Mark
  <2>2. stream[s].at.run \in 0..MaxRuns
    BY <1>1 DEF A!Checkpoint
  <2>3. status' \in [A!Runs -> A!Statuses] /\ answer' \in [A!Runs -> 0..MaxRuns]
    BY <1>17, <2>2, <1>a, <1>b DEF A!Mark
  <2> QED
    BY <1>17, <2>1, <2>3 DEF A!Mark, A!TypeOK, A!page, Request
<1>18. ASSUME NEW s \in Streams, A!Fail(s) PROVE A!TypeOK'
  <2>1. stream' \in [Streams -> Request]
    BY <1>18, <1>3 DEF A!Fail
  <2>2. stored' \in [A!Runs -> Nat]
    <3>1. stored' = stored \/ stored' = A!Store(stream[s].at.run, stream[s].at.approved)
      BY <1>18 DEF A!Fail
    <3> QED
      BY <3>1, <1>14 DEF A!TypeOK
  <2>3. status' \in [A!Runs -> A!Statuses] /\ answer' \in [A!Runs -> 0..MaxRuns]
    BY <1>18, <1>a, <1>b DEF A!Fail
  <2> QED
    BY <1>18, <2>1, <2>2, <2>3 DEF A!Fail, A!TypeOK, A!page, Request
<1>19. ASSUME NEW s \in Streams, A!Disconnect(s) PROVE A!TypeOK'
  <2>1. stream' \in [Streams -> Request]
    BY <1>19, <1>3 DEF A!Disconnect
  <2>2. abandoned' \subseteq A!Runs
    <3>1. stream[s].label \in A!Runs
      BY <1>19, <1>0, <1>1 DEF A!Disconnect, Labelled, A!Runs, Request
    <3> QED
      BY <3>1, <1>19 DEF A!Disconnect, A!TypeOK
  <2> QED
    BY <1>19, <2>1, <2>2 DEF A!Disconnect, A!TypeOK, A!rows, A!page, Request
<1> QED
  BY <1>5, <1>6, <1>7, <1>8, <1>9, <1>11, <1>12, <1>13, <1>15, <1>16, <1>17, <1>18, <1>19 DEF A!Next, A!Serve

-----------------------------------------------------------------------------
(* What a request's record is after each kind of step. *)
LEMMA WriteFields ==
  ASSUME A!TypeOK, NEW s \in Streams, NEW c \in A!Checkpoint, A!Write(s, c)
  PROVE  /\ ckpt' = c
         /\ stream'[s].pc = IF c.next = "none" THEN "snapshot" ELSE "step"
         /\ stream'[s].at = c /\ stream'[s].decision = "none" /\ stream'[s].label = stream[s].label
         /\ \A u \in Streams : u # s => stream'[u] = stream[u]
<1>1. stream \in [Streams -> Request]
  BY DEF A!TypeOK, Request
<1> QED
  BY <1>1 DEF A!Write, Request

(* Run ids stay with what needs them. *)
LEMMA LabelledStep ==
  ASSUME A!TypeOK, Labelled, A!Next
  PROVE  Labelled'
<1>1. stream \in [Streams -> Request] /\ A!Idle.pc = "idle" /\ MaxRuns \in Nat
  BY RequestsAssumption DEF A!TypeOK, Request, A!Idle, A!AgentRunsAssumption
<1>a. ASSUME NEW s \in Streams, NEW c, A!Write(s, c), stream[s].pc # "idle", UNCHANGED <<card, pendingRun>>
      PROVE  Labelled'
  <2>1. stream'[s].label = stream[s].label /\ \A u \in Streams : u # s => stream'[u] = stream[u]
    BY <1>1, <1>a DEF A!Write, Request
  <2> QED
    BY <2>1, <1>a DEF Labelled
<1>2. ASSUME NEW s \in Streams, NEW r \in A!Runs, NEW k \in {"chat", "plan"}, A!Run(s, r, k) PROVE Labelled'
  <2>1. r # 0
    BY <1>1 DEF A!Runs
  <2>2. stream'[s].label = r /\ \A u \in Streams : u # s => stream'[u] = stream[u]
    BY <1>1, <1>2 DEF A!Run, A!Idle
  <2> QED
    BY <2>1, <2>2, <1>2 DEF A!Run, Labelled
<1>3. ASSUME NEW r \in A!Runs, NEW k \in {"chat", "plan"}, A!RunRefused(r, k) PROVE Labelled'
  BY <1>3 DEF A!RunRefused, A!page, Labelled
<1>4. ASSUME NEW s \in Streams, NEW d \in {"approved", "rejected"}, A!Resume(s, d) PROVE Labelled'
  <2>1. stream'[s].label = pendingRun /\ \A u \in Streams : u # s => stream'[u] = stream[u]
    BY <1>1, <1>4 DEF A!Resume, A!Idle
  <2> QED
    BY <2>1, <1>4 DEF A!Resume, Labelled
<1>5. ASSUME NEW s \in Streams, A!Input(s) \/ A!Work(s) \/ A!Approve(s) \/ A!Persist(s) PROVE Labelled'
  <2>1. stream[s].pc # "idle" /\ UNCHANGED <<card, pendingRun>>
    BY <1>5 DEF A!Input, A!Work, A!Approve, A!Persist, A!page
  <2>2. PICK c : A!Write(s, c)
    BY <1>5 DEF A!Input, A!Work, A!Approve, A!Persist
  <2> QED
    BY <2>1, <2>2, <1>a
<1>6. ASSUME NEW s \in Streams, A!Load(s) PROVE Labelled'
  <2>1. stream'[s].label = stream[s].label /\ \A u \in Streams : u # s => stream'[u] = stream[u]
    BY <1>1, <1>6 DEF A!Load, Request
  <2> QED
    BY <2>1, <1>6 DEF A!Load, A!page, Labelled
<1>7. ASSUME NEW s \in Streams, A!Interrupt(s) PROVE Labelled'
  <2>1. stream'[s].label = stream[s].label /\ \A u \in Streams : u # s => stream'[u] = stream[u]
    BY <1>1, <1>7 DEF A!Interrupt, Request
  <2> QED
    BY <2>1, <1>7 DEF A!Interrupt, Labelled
<1>8. ASSUME NEW s \in Streams, A!Snapshot(s) PROVE Labelled'
  <2>1. /\ stream'[s].pc # "idle" => stream'[s].label = stream[s].label
        /\ \A u \in Streams : u # s => stream'[u] = stream[u]
    BY <1>1, <1>8 DEF A!Snapshot, Request
  <2> QED
    BY <2>1, <1>8 DEF A!Snapshot, A!page, Labelled
<1>9. ASSUME NEW s \in Streams, A!Mark(s) \/ A!Fail(s) \/ A!Disconnect(s) PROVE Labelled'
  <2>1. /\ stream'[s].pc = "idle" /\ UNCHANGED <<card, pendingRun>>
        /\ \A u \in Streams : u # s => stream'[u] = stream[u]
    BY <1>1, <1>9 DEF A!Mark, A!Fail, A!Disconnect, A!page
  <2> QED
    BY <2>1 DEF Labelled
<1> QED
  BY <1>2, <1>3, <1>4, <1>5, <1>6, <1>7, <1>8, <1>9 DEF A!Next, A!Serve

(* With one request at a time and none broken down, every step keeps the   *)
(* turns apart.                                                            *)
LEMMA KeptApartStep ==
  ASSUME OneAtATime, A!TypeOK, KeptApart, A!Next, faults' = 0, faults \in Nat
  PROVE  KeptApart'
<1>0. /\ stream \in [Streams -> Request] /\ A!Idle.pc = "idle" /\ MaxRuns \in Nat
      /\ ckpt \in A!Checkpoint /\ stored \in [A!Runs -> Nat]
      /\ status \in [A!Runs -> A!Statuses] /\ answer \in [A!Runs -> 0..MaxRuns]
  BY RequestsAssumption DEF A!TypeOK, Request, A!Idle, A!AgentRunsAssumption
<1>1. /\ \A r \in A!Runs : stored[r] > 0 => r \in confirmed
      /\ \A r \in A!Runs : status[r] = "completed" => answer[r] = r
      /\ ckpt.approved => ckpt.run \in confirmed
      /\ \A s \in Streams : Undisturbed(s)
  BY DEF KeptApart, A!PlanConfirmed
<1>a. ASSUME NEW s \in Streams, Undisturbed(s)',
             \A r \in A!Runs : stored'[r] > 0 => r \in confirmed',
             \A r \in A!Runs : status'[r] = "completed" => answer'[r] = r,
             ckpt'.approved => ckpt'.run \in confirmed'
      PROVE  KeptApart'
  <2>1. \A u \in Streams : u = s
    BY DEF OneAtATime
  <2> QED
    BY <1>a, <2>1 DEF KeptApart, A!PlanConfirmed
<1>2. ASSUME NEW s \in Streams, NEW r \in A!Runs, NEW k \in {"chat", "plan"}, A!Run(s, r, k) PROVE KeptApart'
  <2>1. stream'[s].pc = "input" /\ stream'[s].label = r /\ pendingRun' = r /\ ckpt' = ckpt /\ confirmed' = confirmed
    BY <1>0, <1>2 DEF A!Run, A!Idle
  <2>2. Undisturbed(s)'
    BY <2>1 DEF Undisturbed
  <2>3. \A q \in A!Runs : status'[q] = "completed" => status[q] = "completed"
    BY <1>0, <1>2 DEF A!Run
  <2> QED
    BY <2>1, <2>2, <2>3, <1>1, <1>2, <1>a DEF A!Run
<1>3. ASSUME NEW r \in A!Runs, NEW k \in {"chat", "plan"}, A!RunRefused(r, k) PROVE KeptApart'
  BY <1>3 DEF A!RunRefused
<1>4. ASSUME NEW s \in Streams, NEW d \in {"approved", "rejected"}, A!Resume(s, d) PROVE KeptApart'
  <2>1. /\ stream'[s].pc = "resume" /\ stream'[s].label = pendingRun /\ stream'[s].decision = d
        /\ UNCHANGED <<pendingRun, ckpt, stored, status, answer>>
    BY <1>0, <1>4 DEF A!Resume, A!Idle, A!rows
  <2>2. confirmed \subseteq confirmed' /\ (d = "approved" => card \in confirmed')
    BY <1>4 DEF A!Resume
  <2>3. stream[s].pc = "idle" /\ card # 0
    BY <1>4 DEF A!Resume
  <2>4. pendingRun = ckpt.run /\ (ckpt.next = "approve_plan" => card = ckpt.run)
    BY <2>3, <1>1 DEF Undisturbed
  <2>5. Undisturbed(s)'
    BY <2>1, <2>2, <2>4 DEF Undisturbed
  <2> QED
    BY <2>1, <2>2, <2>5, <1>1, <1>a
<1>5. ASSUME NEW s \in Streams, A!Input(s) PROVE KeptApart'
  <2> DEFINE c == [run |-> stream[s].label, next |-> "work", approved |-> FALSE]
  <2>1. c \in A!Checkpoint /\ c.next = "work" /\ c.approved = FALSE /\ c.run = stream[s].label
    BY <1>0 DEF A!Checkpoint, A!NextNode, Request
  <2>2. A!Write(s, c) /\ UNCHANGED <<status, answer, stored, pendingRun, confirmed>> /\ stream[s].pc = "input"
    BY <1>5 DEF A!Input, A!rows, A!page
  <2> HIDE DEF c
  <2>3. ckpt' = c /\ stream'[s].pc = "step" /\ stream'[s].at = c /\ stream'[s].label = stream[s].label
    BY <2>1, <2>2, WriteFields
  <2>4. Undisturbed(s)'
    BY <2>1, <2>2, <2>3, <1>1 DEF Undisturbed
  <2> QED
    BY <2>1, <2>2, <2>3, <2>4, <1>1, <1>a
<1>6. ASSUME NEW s \in Streams, A!Load(s) PROVE KeptApart'
  <2>1. /\ stream'[s].pc \in {"step", "snapshot"} /\ stream'[s].at = ckpt /\ stream'[s].label = stream[s].label
        /\ (stream'[s].pc = "snapshot" => ckpt.next = "none") /\ stream'[s].decision = stream[s].decision
        /\ UNCHANGED <<status, answer, stored, ckpt, card, pendingRun, confirmed>> /\ stream[s].pc = "resume"
    BY <1>0, <1>6 DEF A!Load, A!rows, A!page, Request
  <2>2. Undisturbed(s)'
    BY <2>1, <1>1 DEF Undisturbed
  <2> QED
    BY <2>1, <2>2, <1>1, <1>a
<1>b. ASSUME NEW s \in Streams, stream[s].pc = "step" PROVE stream[s].at = ckpt /\ stream[s].label = ckpt.run /\ pendingRun = ckpt.run
  BY <1>b, <1>1 DEF Undisturbed
<1>7. ASSUME NEW s \in Streams, A!Work(s) PROVE KeptApart'
  <2>1. stream[s].pc = "step" /\ UNCHANGED <<status, answer, stored, card, pendingRun, confirmed>>
    BY <1>7 DEF A!Work, A!rows, A!page
  <2>2. PICK n \in {"approve_plan", "none"} : A!Write(s, [stream[s].at EXCEPT !.next = n])
    BY <1>7 DEF A!Work
  <2> DEFINE c == [ckpt EXCEPT !.next = n]
  <2>3. c \in A!Checkpoint /\ c.next = n /\ c.run = ckpt.run /\ c.approved = ckpt.approved
    BY <1>0 DEF A!Checkpoint, A!NextNode
  <2>4. A!Write(s, c)
    BY <2>1, <2>2, <1>b
  <2> HIDE DEF c
  <2>5. /\ ckpt' = c /\ stream'[s].pc = (IF n = "none" THEN "snapshot" ELSE "step")
        /\ stream'[s].at = c /\ stream'[s].label = stream[s].label /\ stream'[s].decision = "none"
    BY <2>3, <2>4, WriteFields
  <2>6. Undisturbed(s)'
    BY <2>1, <2>3, <2>5, <1>b DEF Undisturbed
  <2> QED
    BY <2>1, <2>3, <2>5, <2>6, <1>1, <1>a
<1>8. ASSUME NEW s \in Streams, A!Interrupt(s) PROVE KeptApart'
  <2>1. /\ stream[s].pc = "step" /\ stream'[s].pc = "snapshot" /\ stream'[s].at = stream[s].at
        /\ stream'[s].label = stream[s].label /\ card' = stream[s].at.run /\ pendingRun' = stream[s].label
        /\ UNCHANGED <<stored, ckpt, confirmed>>
    BY <1>0, <1>8 DEF A!Interrupt, Request
  <2>2. Undisturbed(s)'
    BY <2>1, <1>b DEF Undisturbed
  <2>3. \A r \in A!Runs : status'[r] = "completed" => answer'[r] = r
    BY <1>0, <1>1, <1>8 DEF A!Interrupt
  <2> QED
    BY <2>1, <2>2, <2>3, <1>1, <1>a
<1>9. ASSUME NEW s \in Streams, A!Approve(s) PROVE KeptApart'
  <2>1. /\ stream[s].pc = "step" /\ stream[s].at.next = "approve_plan"
        /\ UNCHANGED <<status, answer, stored, card, pendingRun, confirmed>>
    BY <1>9 DEF A!Approve, A!rows, A!page
  <2> DEFINE c == [ckpt EXCEPT !.next = "persist_plan", !.approved = stream[s].decision = "approved"]
  <2>2. /\ c \in A!Checkpoint /\ c.next = "persist_plan" /\ c.run = ckpt.run
        /\ c.approved <=> stream[s].decision = "approved"
    BY <1>0 DEF A!Checkpoint, A!NextNode
  <2>3. A!Write(s, c)
    BY <2>1, <1>9, <1>b DEF A!Approve
  <2> HIDE DEF c
  <2>4. /\ ckpt' = c /\ stream'[s].pc = "step" /\ stream'[s].at = c /\ stream'[s].label = stream[s].label
    BY <2>2, <2>3, WriteFields
  <2>5. Undisturbed(s)'
    BY <2>1, <2>2, <2>4, <1>b DEF Undisturbed
  <2>6. c.approved => ckpt.run \in confirmed
    BY <2>1, <2>2, <1>1, <1>b DEF Undisturbed
  <2> QED
    BY <2>1, <2>2, <2>4, <2>5, <2>6, <1>1, <1>a
<1>10. ASSUME NEW s \in Streams, A!Persist(s) PROVE KeptApart'
  <2>1. stream[s].pc = "step" /\ UNCHANGED <<status, answer, card, pendingRun, confirmed>>
    BY <1>10 DEF A!Persist, A!rows, A!page
  <2> DEFINE c == [ckpt EXCEPT !.next = "none"]
  <2>2. c \in A!Checkpoint /\ c.next = "none" /\ c.run = ckpt.run /\ c.approved = ckpt.approved
    BY <1>0 DEF A!Checkpoint, A!NextNode
  <2>3. A!Write(s, c) /\ stored' = A!Store(ckpt.run, ckpt.approved)
    BY <2>1, <1>10, <1>b DEF A!Persist
  <2> HIDE DEF c
  <2>4. /\ ckpt' = c /\ stream'[s].pc = "snapshot" /\ stream'[s].at = c /\ stream'[s].label = stream[s].label
    BY <2>2, <2>3, WriteFields
  <2>5. Undisturbed(s)'
    BY <2>1, <2>2, <2>4, <1>b DEF Undisturbed
  <2>6. \A r \in A!Runs : stored'[r] > 0 => r \in confirmed
    BY <2>3, <1>0, <1>1 DEF A!Store
  <2> QED
    BY <2>1, <2>2, <2>4, <2>5, <2>6, <1>1, <1>a
<1>11. ASSUME NEW s \in Streams, A!Snapshot(s) PROVE KeptApart'
  <2>1. /\ stream[s].pc = "snapshot" /\ UNCHANGED <<status, answer, stored, ckpt, card, pendingRun, confirmed>>
        /\ \/ stream'[s].pc = "idle"
           \/ stream'[s].pc = "mark" /\ stream'[s].at = ckpt /\ stream'[s].label = stream[s].label
    BY <1>0, <1>11 DEF A!Snapshot, A!page, Request
  <2>2. Undisturbed(s)'
    BY <2>1, <1>1 DEF Undisturbed
  <2> QED
    BY <2>1, <2>2, <1>1, <1>a
<1>12. ASSUME NEW s \in Streams, A!Mark(s) PROVE KeptApart'
  <2>1. /\ stream[s].pc = "mark" /\ UNCHANGED <<stored, ckpt, card, pendingRun, confirmed>>
        /\ stream'[s].pc = "idle"
    BY <1>0, <1>12 DEF A!Mark, A!page
  <2>2. stream[s].at.run = stream[s].label /\ pendingRun = ckpt.run
    BY <2>1, <1>1 DEF Undisturbed
  <2>3. \A r \in A!Runs : status'[r] = "completed" => answer'[r] = r
    BY <2>2, <1>0, <1>1, <1>12 DEF A!Mark
  <2>4. Undisturbed(s)'
    BY <2>1, <2>2, <1>1 DEF Undisturbed
  <2> QED
    BY <2>1, <2>3, <2>4, <1>1, <1>a
<1>13. ASSUME NEW s \in Streams, A!Fail(s) \/ A!Disconnect(s) PROVE KeptApart'
  BY <1>13 DEF A!Fail, A!Disconnect
<1> QED
  BY <1>2, <1>3, <1>4, <1>5, <1>6, <1>7, <1>8, <1>9, <1>10, <1>11, <1>12, <1>13 DEF A!Next, A!Serve

-----------------------------------------------------------------------------
(***************************************************************************)
(* The bridge.                                                             *)
(***************************************************************************)

Place == [run : 0..MaxMsgs, next : {"work", "approve", "persist", "none"}, ok : BOOLEAN]
Service == [pc : {"off", "step", "reminder", "interrupt", "done", "error"},
            label : 0..MaxMsgs, at : Place, decision : {"none", "yes", "no"}]
Steps == {"idle", "say", "resume", "text", "upload", "answered", "events", "mirrored"}

(* The types, with those of the service's side in full. *)
BridgeTypes ==
    /\ B!TypeOK
    /\ thread \in Place
    /\ request \in [{"live", "lost"} -> Service]

(* A message that waits or is in process has been sent, has no final frame *)
(* yet, and is in one place only.                                          *)
Queued ==
    /\ \A i \in 1..Len(inbox) : /\ message[inbox[i]] # "none" /\ finals[inbox[i]] = 0
                                /\ inbox[i] # turn.m
                                /\ \A j \in 1..Len(inbox) : inbox[i] = inbox[j] => i = j
    /\ \A m \in B!Ids : message[m] = "none" => finals[m] = 0
    /\ turn.pc # "idle" => turn.m \in B!Ids /\ finals[turn.m] = 0 /\ message[turn.m] # "none"
    /\ turn.pc = "idle" => turn.m = 0

(* What process() has checked holds until it acts on it. *)
Checked ==
    /\ turn.pc \in {"upload", "answered"} => file[turn.m] \in Files
    /\ turn.pc = "resume" => pending # 0 /\ message[turn.m] \in {"yes", "no"}
    /\ turn.pc = "answered" => docs[file[turn.m]] > 0
    /\ turn.pc = "mirrored" => request["live"].pc = "reminder" /\ tasks[request["live"].at.run] > 0
    /\ thread.next # "none" => thread.run \in B!Ids
    /\ \A s \in {"live", "lost"} :
          request[s].at.next # "none" \/ request[s].pc = "reminder" => request[s].at.run \in B!Ids

(* As long as no lost request has gone on beside a later one, the one that *)
(* runs works on the thread's latest checkpoint, under that run's id, and  *)
(* consent is the user's to that run.                                      *)
Followed ==
    /\ ~(request["live"].pc # "off" /\ request["lost"].pc # "off")
    /\ \A s \in {"live", "lost"} :
          request[s].pc # "off" =>
             /\ request[s].at = thread /\ request[s].label = thread.run
             /\ request[s].decision = "yes" => thread.run \in approved
    /\ thread.ok => thread.run \in approved
    /\ pending # 0 => thread.run = pending
    /\ \A r \in B!Ids : plans[r] > 0 => r \in approved

(* Without a fault a file is stored when its fingerprint is kept, or about *)
(* to be.                                                                  *)
Once ==
    \A f \in Files : /\ docs[f] <= 1
                     /\ f \notin uploaded /\ docs[f] # 0 => turn.pc = "answered" /\ file[turn.m] = f

BridgeInv ==
    /\ BridgeTypes
    /\ Queued
    /\ Checked
    /\ B!FileTrue
    /\ ~overtaken => Followed
    /\ losses = 0 => Once

(* What the runs check follows. *)
LEMMA BridgeInvTrue == BridgeInv => BridgeTrue
BY DEF BridgeInv, BridgeTypes, Followed, Once, BridgeTrue, B!PendingIsCurrent, B!StoredOnApproval, B!IndexedOnce

(* Initially nothing is queued, kept or stored. *)
LEMMA BridgeInit == B!Init => BridgeInv
<1> SUFFICES ASSUME B!Init PROVE BridgeInv
  OBVIOUS
<1>0. MaxMsgs \in Nat /\ MaxLosses \in Nat /\ "none" \notin Kinds
  BY RequestsAssumption DEF B!BridgeAssumption
<1>1. B!NoRun \in Place /\ B!NoRun.next = "none" /\ B!NoRun.run = 0 /\ B!NoRun.ok = FALSE
  BY <1>0 DEF B!NoRun, Place
<1>2. B!NoStream \in Service /\ B!NoStream.pc = "off" /\ B!NoStream.at = B!NoRun
  BY <1>0, <1>1 DEF B!NoStream, Service
<1>3. /\ request \in [{"live", "lost"} -> Service] /\ thread \in Place
      /\ \A s \in {"live", "lost"} : request[s] = B!NoStream
  BY <1>1, <1>2 DEF B!Init
<1>4. BridgeTypes
  <2>1. inbox \in Seq(B!Ids) /\ turn \in [pc : Steps, m : 0..MaxMsgs] /\ turn.pc = "idle" /\ turn.m = 0
    BY <1>0 DEF B!Init, B!Rest, Steps
  <2>2. /\ message \in [B!Ids -> Kinds \cup {"none"}] /\ file \in [B!Ids -> Files \cup {B!NoFile}]
        /\ finals \in [B!Ids -> 0..1] /\ docs \in [Files -> Nat] /\ tasks \in [B!Ids -> Nat] /\ plans \in [B!Ids -> Nat]
        /\ said \in [B!Ids -> {"none", "yes", "no"}]
    BY DEF B!Init
  <2>3. pending \in 0..MaxMsgs /\ uploaded \subseteq Files /\ scheduled \subseteq B!Ids /\ approved \subseteq B!Ids
    BY <1>0 DEF B!Init
  <2>4. overtaken \in BOOLEAN /\ up \in BOOLEAN
    BY DEF B!Init
  <2>5. losses \in 0..MaxLosses /\ thread.run \in 0..MaxMsgs /\ thread.next \in {"work", "approve", "persist", "none"}
    BY <1>0, <1>1 DEF B!Init
  <2> QED
    BY <1>3, <2>1, <2>2, <2>3, <2>4, <2>5 DEF BridgeTypes, B!TypeOK, Steps
<1>5. Queued
  <2>1. Len(inbox) = 0 /\ 1..0 = {} /\ turn.pc = "idle" /\ turn.m = 0
    BY DEF B!Init, B!Rest
  <2> QED
    BY <2>1 DEF B!Init, Queued
<1>6. Checked
  BY <1>1, <1>2, <1>3 DEF B!Init, B!Rest, Checked
<1>7. B!FileTrue
  BY DEF B!Init, B!FileTrue
<1>8. Followed
  BY <1>1, <1>2, <1>3 DEF B!Init, Followed
<1>9. Once
  BY DEF B!Init, Once
<1> QED
  BY <1>4, <1>5, <1>6, <1>7, <1>8, <1>9 DEF BridgeInv

-----------------------------------------------------------------------------
(* The end of a message, and a step of process() with it. *)
LEMMA FinalTypes ==
  ASSUME BridgeTypes, Queued, B!Final, turn.pc # "idle"
  PROVE  /\ finals' \in [B!Ids -> 0..1] /\ turn' \in [pc : Steps, m : 0..MaxMsgs]
         /\ finals' = [finals EXCEPT ![turn.m] = 1] /\ turn'.pc = "idle" /\ turn'.m = 0
<1>1. finals \in [B!Ids -> 0..1] /\ turn.m \in B!Ids /\ finals[turn.m] = 0 /\ MaxMsgs \in Nat
  BY RequestsAssumption DEF BridgeTypes, B!TypeOK, Queued, B!BridgeAssumption
<1>2. finals' = [finals EXCEPT ![turn.m] = 1]
  BY <1>1 DEF B!Final, B!M
<1>3. turn' = B!Rest /\ B!Rest \in [pc : Steps, m : 0..MaxMsgs]
  BY <1>1 DEF B!Final, B!Rest, Steps
<1> QED
  BY <1>1, <1>2, <1>3 DEF B!Rest

(* process() goes on. *)
LEMMA TurnMoves ==
  ASSUME BridgeTypes, NEW l \in Steps, turn' = [turn EXCEPT !.pc = l]
  PROVE  turn' \in [pc : Steps, m : 0..MaxMsgs] /\ turn'.pc = l /\ turn'.m = turn.m
<1>1. turn \in [pc : Steps, m : 0..MaxMsgs]
  BY DEF BridgeTypes, B!TypeOK, Steps
<1> QED
  BY <1>1

(* Every step of the bridge or of the service keeps the types. *)
LEMMA BridgeTypesStep ==
  ASSUME BridgeTypes, Queued, Checked, B!Next
  PROVE  BridgeTypes'
<1>0. MaxMsgs \in Nat /\ MaxLosses \in Nat /\ 0 \in 0..MaxMsgs /\ B!Ids \subseteq 0..MaxMsgs
  BY RequestsAssumption DEF B!BridgeAssumption, B!Ids
<1>1. /\ inbox \in Seq(B!Ids) /\ message \in [B!Ids -> Kinds \cup {"none"}]
      /\ file \in [B!Ids -> Files \cup {B!NoFile}] /\ turn \in [pc : Steps, m : 0..MaxMsgs]
      /\ finals \in [B!Ids -> 0..1] /\ pending \in 0..MaxMsgs
      /\ uploaded \subseteq Files /\ scheduled \subseteq B!Ids
      /\ docs \in [Files -> Nat] /\ tasks \in [B!Ids -> Nat] /\ plans \in [B!Ids -> Nat]
      /\ approved \subseteq B!Ids /\ said \in [B!Ids -> {"none", "yes", "no"}]
      /\ losses \in 0..MaxLosses
      /\ thread \in Place /\ request \in [{"live", "lost"} -> Service]
  BY DEF BridgeTypes, B!TypeOK, Steps
<1>2. overtaken \in BOOLEAN /\ up \in BOOLEAN
  BY DEF BridgeTypes, B!TypeOK
<1>a. ASSUME inbox' \in Seq(B!Ids), message' \in [B!Ids -> Kinds \cup {"none"}],
             file' \in [B!Ids -> Files \cup {B!NoFile}], turn' \in [pc : Steps, m : 0..MaxMsgs],
             finals' \in [B!Ids -> 0..1], pending' \in 0..MaxMsgs,
             uploaded' \subseteq Files, scheduled' \subseteq B!Ids,
             docs' \in [Files -> Nat], tasks' \in [B!Ids -> Nat], plans' \in [B!Ids -> Nat],
             approved' \subseteq B!Ids, said' \in [B!Ids -> {"none", "yes", "no"}],
             losses' \in 0..MaxLosses, overtaken' \in BOOLEAN, up' \in BOOLEAN,
             thread' \in Place, request' \in [{"live", "lost"} -> Service]
      PROVE  BridgeTypes'
  <2>1. thread'.run \in 0..MaxMsgs /\ thread'.next \in {"work", "approve", "persist", "none"}
    BY <1>a DEF Place
  <2> QED
    BY <1>a, <2>1 DEF BridgeTypes, B!TypeOK, Steps
<1>b. B!Fault => losses' \in 0..MaxLosses
  BY <1>0, <1>1 DEF B!Fault
<1>c. ASSUME NEW s \in {"live", "lost"}, NEW x \in Service, request' = [request EXCEPT ![s] = x]
      PROVE  request' \in [{"live", "lost"} -> Service]
  BY <1>1, <1>c
<1>d. B!NoStream \in Service
  BY <1>0 DEF B!NoStream, B!NoRun, Service, Place
<1>e. ASSUME NEW s \in {"live", "lost"}, NEW p \in {"off", "step", "reminder", "interrupt", "done", "error"},
             request' = [request EXCEPT ![s].pc = p]
      PROVE  request' \in [{"live", "lost"} -> Service]
  <2>1. request[s] \in Service
    BY <1>1
  <2>2. [request[s] EXCEPT !.pc = p] \in Service
    BY <2>1 DEF Service
  <2>3. request' = [request EXCEPT ![s] = [request[s] EXCEPT !.pc = p]]
    BY <1>1, <1>e
  <2> QED
    BY <2>2, <2>3, <1>c
<1>f. turn.pc # "idle" => turn.m \in B!Ids
  BY DEF Queued
<1>g. ASSUME NEW s \in {"live", "lost"} PROVE B!Persist(s) \in [B!Ids -> Nat]
  <2>1. \A x \in B!Ids : plans[x] \in Nat /\ plans[x] + 1 \in Nat
    BY <1>1
  <2> QED
    BY <1>1, <2>1 DEF B!Persist
<1>3. ASSUME NEW m \in B!Ids, NEW k \in Kinds, NEW f \in Files \cup {B!NoFile}, B!Send(m, k, f) PROVE BridgeTypes'
  <2>1. inbox' \in Seq(B!Ids)
    BY <1>1, <1>3 DEF B!Send
  <2>2. message' \in [B!Ids -> Kinds \cup {"none"}] /\ file' \in [B!Ids -> Files \cup {B!NoFile}]
    BY <1>1, <1>3 DEF B!Send
  <2> QED
    BY <1>1, <1>2, <1>3, <1>a, <2>1, <2>2 DEF B!Send, B!disk, B!service
<1>4. CASE B!Take
  <2>1. Head(inbox) \in B!Ids /\ inbox' \in Seq(B!Ids)
    BY <1>1, <1>4 DEF B!Take
  <2>2. B!Entry(Head(inbox)) \in Steps
    <3>1. {"say", "resume", "text", "upload"} \subseteq Steps
      BY DEF Steps
    <3>2. B!Entry(Head(inbox)) \in {"say", "resume", "text", "upload"}
      BY DEF B!Entry
    <3> QED
      BY <3>1, <3>2
  <2>3. turn' \in [pc : Steps, m : 0..MaxMsgs]
    BY <2>1, <2>2, <1>0, <1>4 DEF B!Take
  <2> QED
    BY <1>1, <1>2, <1>4, <1>a, <2>1, <2>3 DEF B!Take, B!disk, B!service
<1>5. CASE B!Say \/ B!Error \/ B!UploadUnanswered \/ B!Refuse
  <2>1. B!Final /\ turn.pc # "idle"
    BY <1>5 DEF B!Say, B!Error, B!UploadUnanswered, B!Refuse, B!At
  <2>2. losses' \in 0..MaxLosses
    BY <1>5, <1>1, <1>b DEF B!Say, B!Error, B!UploadUnanswered, B!Refuse
  <2>3. UNCHANGED <<inbox, message, file, B!disk, B!service, tasks, approved, said, up>>
    BY <1>5 DEF B!Say, B!Error, B!UploadUnanswered, B!Refuse
  <2> QED
    BY <1>1, <1>2, <1>a, <2>1, <2>2, <2>3, FinalTypes DEF B!disk, B!service
<1>6. CASE B!SkipUpload \/ B!Upload \/ B!MarkUploaded
  <2>1. PICK l \in {"text", "answered"} : turn' = [turn EXCEPT !.pc = l]
    BY <1>6 DEF B!SkipUpload, B!Upload, B!MarkUploaded
  <2>2. turn' \in [pc : Steps, m : 0..MaxMsgs]
    BY <2>1, TurnMoves DEF Steps
  <2>3. file[turn.m] \in Files
    BY <1>6 DEF B!SkipUpload, B!Upload, B!MarkUploaded, B!At, Checked
  <2>4. docs' \in [Files -> Nat] /\ uploaded' \subseteq Files
    <3>1. docs' = docs \/ docs' = [docs EXCEPT ![file[turn.m]] = @ + 1]
      BY <1>6 DEF B!SkipUpload, B!Upload, B!MarkUploaded, B!M, B!service
    <3>2. uploaded' = uploaded \/ uploaded' = uploaded \cup {file[turn.m]}
      BY <1>6 DEF B!SkipUpload, B!Upload, B!MarkUploaded, B!M, B!disk
    <3>3. docs' \in [Files -> Nat]
      <4>1. docs \in [Files -> Nat] /\ \A f \in Files : docs[f] \in Nat /\ docs[f] + 1 \in Nat
        BY <1>1
      <4> QED
        BY <3>1, <2>3, <4>1
    <3> QED
      BY <3>2, <3>3, <2>3, <1>1
  <2>5. UNCHANGED <<B!world, pending, scheduled, thread, request, plans, overtaken, losses, up>>
    BY <1>6 DEF B!SkipUpload, B!Upload, B!MarkUploaded, B!disk, B!service
  <2> QED
    BY <1>1, <1>2, <1>a, <2>2, <2>4, <2>5 DEF B!world
<1>7. CASE B!Start
  <2> DEFINE at == [run |-> turn.m, next |-> "work", ok |-> FALSE]
             x == [pc |-> "step", label |-> turn.m, decision |-> "none", at |-> at]
  <2>1. turn.m \in 0..MaxMsgs /\ at \in Place
    BY <1>1 DEF Place
  <2>2. x \in Service
    BY <2>1 DEF Service
  <2>3. request' = [request EXCEPT !["live"] = x] /\ thread' = at /\ turn' = [turn EXCEPT !.pc = "events"]
    BY <1>7 DEF B!Start, B!M
  <2> HIDE DEF x
  <2>4. request' \in [{"live", "lost"} -> Service]
    BY <2>2, <2>3, <1>c
  <2>5. turn' \in [pc : Steps, m : 0..MaxMsgs]
    BY <2>3, TurnMoves DEF Steps
  <2>6. overtaken' \in BOOLEAN
    BY <1>2, <1>7 DEF B!Start
  <2>7. UNCHANGED <<B!world, B!disk, docs, plans, losses, up>> /\ thread' \in Place
    BY <1>7, <2>1, <2>3 DEF B!Start
  <2> HIDE DEF at
  <2> QED
    BY <1>1, <1>2, <1>a, <2>4, <2>5, <2>6, <2>7 DEF B!world, B!disk
<1>8. CASE B!Resume
  <2> DEFINE x == [pc |-> "step", label |-> pending, decision |-> message[turn.m], at |-> thread]
  <2>1. message[turn.m] \in {"yes", "no"} /\ pending \in B!Ids
    BY <1>1, <1>8 DEF B!Resume, B!At, Checked, B!Ids
  <2>2. x \in Service
    BY <2>1, <1>1 DEF Service
  <2>3. request' = [request EXCEPT !["live"] = x] /\ turn' = [turn EXCEPT !.pc = "events"]
    BY <1>8 DEF B!Resume, B!M
  <2> HIDE DEF x
  <2>4. request' \in [{"live", "lost"} -> Service]
    BY <2>2, <2>3, <1>c
  <2>5. turn' \in [pc : Steps, m : 0..MaxMsgs]
    BY <2>3, TurnMoves DEF Steps
  <2>6. overtaken' \in BOOLEAN
    BY <1>2, <1>8 DEF B!Resume
  <2>7. said' \in [B!Ids -> {"none", "yes", "no"}] /\ approved' \subseteq B!Ids
    BY <2>1, <1>1, <1>8 DEF B!Resume, B!M
  <2>8. UNCHANGED <<inbox, message, file, finals, B!disk, docs, tasks, thread, plans, losses, up>>
    BY <1>8 DEF B!Resume
  <2> QED
    BY <1>1, <1>2, <1>a, <2>4, <2>5, <2>6, <2>7, <2>8 DEF B!disk
<1>9. ASSUME NEW s \in {"live", "lost"}, B!Step(s) PROVE BridgeTypes'
  <2>1. request[s] \in Service /\ request[s].at \in Place
    BY <1>1 DEF Service
  <2>2. B!NextNode(s) \in Place
    <3>1. /\ [request[s].at EXCEPT !.next = "approve"] \in Place
          /\ [request[s].at EXCEPT !.next = "persist", !.ok = (request[s].decision = "yes")] \in Place
          /\ [request[s].at EXCEPT !.next = "none"] \in Place
      BY <2>1 DEF Place
    <3> QED
      BY <3>1 DEF B!NextNode
  <2>3. PICK p \in {"step", "reminder"} :
           request' = [request EXCEPT ![s].at = B!NextNode(s), ![s].decision = "none", ![s].pc = p]
    BY <1>9 DEF B!Step
  <2> DEFINE x == [request[s] EXCEPT !.at = B!NextNode(s), !.decision = "none", !.pc = p]
  <2>4. x \in Service
    BY <2>1, <2>2 DEF Service
  <2>5. request' = [request EXCEPT ![s] = x]
    BY <2>3, <1>1
  <2> HIDE DEF x
  <2>6. request' \in [{"live", "lost"} -> Service]
    BY <2>4, <2>5, <1>c
  <2>7. thread' \in Place /\ plans' \in [B!Ids -> Nat]
    BY <1>9, <2>2, <1>g DEF B!Step
  <2>8. UNCHANGED <<B!world, turn, B!disk, docs, overtaken, losses, up>>
    BY <1>9 DEF B!Step
  <2> QED
    BY <1>1, <1>2, <1>a, <2>6, <2>7, <2>8 DEF B!world, B!disk
<1>10. ASSUME NEW s \in {"live", "lost"}, B!StreamEnds(s) PROVE BridgeTypes'
  <2>1. PICK p \in {"done", "interrupt"} : request' = [request EXCEPT ![s].pc = p]
    BY <1>10 DEF B!StreamEnds
  <2>2. request' \in [{"live", "lost"} -> Service]
    BY <2>1, <1>e
  <2> QED
    BY <1>1, <1>2, <1>10, <1>a, <2>2 DEF B!StreamEnds, B!world, B!disk
<1>11. CASE B!Raise
  <2>1. request' \in [{"live", "lost"} -> Service]
    BY <1>11, <1>e DEF B!Raise
  <2>2. plans' \in [B!Ids -> Nat]
    BY <1>11, <1>1, <1>g DEF B!Raise
  <2> QED
    BY <1>1, <1>2, <1>11, <1>a, <1>b, <2>1, <2>2 DEF B!Raise, B!world, B!disk
<1>12. CASE B!LostEnds
  <2>1. request' \in [{"live", "lost"} -> Service]
    BY <1>12, <1>c, <1>d DEF B!LostEnds
  <2> QED
    BY <1>1, <1>2, <1>12, <1>a, <2>1 DEF B!LostEnds, B!world, B!disk
<1>13. CASE B!Done \/ B!Interrupt \/ B!ErrorEvent
  <2>1. B!Final /\ turn.pc # "idle" /\ B!Hangs
    BY <1>13 DEF B!Done, B!Interrupt, B!ErrorEvent, B!Live, B!At
  <2>2. request' \in [{"live", "lost"} -> Service]
    BY <2>1, <1>c, <1>d DEF B!Hangs
  <2>3. request["live"].label \in 0..MaxMsgs
    BY <1>1 DEF Service
  <2>4. pending' \in 0..MaxMsgs
    BY <1>0, <1>1, <1>13, <2>3 DEF B!Done, B!Interrupt, B!ErrorEvent, B!disk
  <2>5. UNCHANGED <<inbox, message, file, uploaded, scheduled, docs, tasks, thread, plans, approved, said, overtaken, losses, up>>
    BY <1>13 DEF B!Done, B!Interrupt, B!ErrorEvent, B!disk
  <2> QED
    BY <1>1, <1>2, <1>a, <2>1, <2>2, <2>4, <2>5, FinalTypes
<1>14. CASE B!Register
  <2>1. request["live"].at.run \in B!Ids
    BY <1>14 DEF B!Register, B!Live, Checked
  <2>2. tasks' \in [B!Ids -> Nat]
    BY <1>1, <1>14, <2>1 DEF B!Register
  <2>3. turn' \in [pc : Steps, m : 0..MaxMsgs]
    BY <1>14, TurnMoves DEF B!Register, Steps
  <2> QED
    BY <1>1, <1>2, <1>14, <1>a, <2>2, <2>3 DEF B!Register, B!disk, B!service
<1>15. ASSUME NEW b \in BOOLEAN, B!RegisterFails(b) PROVE BridgeTypes'
  <2>1. request["live"].at.run \in B!Ids
    BY <1>15 DEF B!RegisterFails, B!Live, Checked
  <2>2. tasks' \in [B!Ids -> Nat]
    BY <1>1, <1>15, <2>1 DEF B!RegisterFails
  <2>3. request' \in [{"live", "lost"} -> Service]
    BY <1>15, <1>e DEF B!RegisterFails, B!Skipped
  <2> QED
    BY <1>1, <1>2, <1>15, <1>a, <1>b, <2>2, <2>3 DEF B!RegisterFails, B!disk
<1>16. CASE B!MarkScheduled
  <2>1. request["live"].at.run \in B!Ids
    BY <1>16 DEF B!MarkScheduled, B!At, Checked
  <2>2. scheduled' \subseteq B!Ids
    BY <1>1, <1>16, <2>1 DEF B!MarkScheduled
  <2>3. request' \in [{"live", "lost"} -> Service]
    BY <1>16, <1>e DEF B!MarkScheduled, B!Skipped
  <2>4. turn' \in [pc : Steps, m : 0..MaxMsgs]
    BY <1>16, TurnMoves DEF B!MarkScheduled, Steps
  <2> QED
    BY <1>1, <1>2, <1>16, <1>a, <2>2, <2>3, <2>4 DEF B!MarkScheduled, B!world
<1>h. ASSUME request' = [live |-> B!NoStream, lost |-> request["live"]]
      PROVE  request' \in [{"live", "lost"} -> Service]
  <2>1. request["live"] \in Service
    BY <1>1
  <2> QED
    BY <2>1, <1>d, <1>h
<1>17. CASE B!Lose
  <2>1. B!Final /\ turn.pc # "idle"
    BY <1>17 DEF B!Lose, B!At
  <2>2. request' \in [{"live", "lost"} -> Service]
    BY <1>17, <1>h DEF B!Lose
  <2> QED
    BY <1>1, <1>2, <1>17, <1>a, <1>b, <2>1, <2>2, FinalTypes DEF B!Lose, B!disk
<1>18. CASE B!Die
  <2>1. request' \in [{"live", "lost"} -> Service]
    BY <1>18, <1>h DEF B!Die
  <2>2. turn' \in [pc : Steps, m : 0..MaxMsgs]
    BY <1>0, <1>18 DEF B!Die, B!Rest, Steps
  <2>3. up' \in BOOLEAN
    BY <1>18 DEF B!Die
  <2>4. inbox' \in Seq(B!Ids)
    BY <1>18 DEF B!Die
  <2> QED
    BY <1>1, <1>2, <1>18, <1>a, <1>b, <2>1, <2>2, <2>3, <2>4 DEF B!Die, B!disk
<1>19. CASE B!Reborn
  <2>1. up' \in BOOLEAN
    BY <1>19 DEF B!Reborn
  <2> QED
    BY <1>1, <1>2, <1>19, <1>a, <2>1 DEF B!Reborn, B!world, B!disk, B!service
<1> QED
  BY <1>3, <1>4, <1>5, <1>6, <1>7, <1>8, <1>9, <1>10, <1>11, <1>12, <1>13, <1>14, <1>15, <1>16, <1>17, <1>18, <1>19
     DEF B!Next, B!SendSome, B!Process

-----------------------------------------------------------------------------
(* A message ends once: it leaves the queue when it is taken and gets its  *)
(* final frame when its processing ends.                                   *)
LEMMA QueuedStep ==
  ASSUME BridgeTypes, Queued, Checked, B!Next
  PROVE  Queued'
<1>0. MaxMsgs \in Nat /\ "none" \notin Kinds /\ B!Ids = 1..MaxMsgs
  BY RequestsAssumption DEF B!BridgeAssumption, B!Ids
<1>1. /\ inbox \in Seq(B!Ids) /\ message \in [B!Ids -> Kinds \cup {"none"}]
      /\ turn \in [pc : Steps, m : 0..MaxMsgs] /\ finals \in [B!Ids -> 0..1]
      /\ Len(inbox) \in Nat /\ \A i \in 1..Len(inbox) : inbox[i] \in B!Ids
  BY DEF BridgeTypes, B!TypeOK, Steps
<1>a. ASSUME turn.pc # "idle", B!Final, UNCHANGED <<inbox, message>> PROVE Queued'
  <2>1. finals' = [finals EXCEPT ![turn.m] = 1] /\ turn'.pc = "idle" /\ turn'.m = 0
    BY <1>a, FinalTypes
  <2>2. turn.m \in B!Ids /\ message[turn.m] # "none"
    BY <1>a DEF Queued
  <2>3. ASSUME NEW i \in 1..Len(inbox)
        PROVE  /\ message[inbox[i]] # "none" /\ finals'[inbox[i]] = 0 /\ inbox[i] # 0
               /\ \A j \in 1..Len(inbox) : inbox[i] = inbox[j] => i = j
    <3>1. /\ message[inbox[i]] # "none" /\ finals[inbox[i]] = 0 /\ inbox[i] # turn.m
          /\ \A j \in 1..Len(inbox) : inbox[i] = inbox[j] => i = j
      BY DEF Queued
    <3>2. inbox[i] \in B!Ids
      BY <1>1
    <3>3. inbox[i] # 0
      BY <3>2, <1>0
    <3> QED
      BY <3>1, <3>2, <3>3, <2>1, <1>1
  <2>4. \A m \in B!Ids : message[m] = "none" => finals'[m] = 0
    BY <2>1, <2>2, <1>1 DEF Queued
  <2> QED
    BY <1>a, <2>1, <2>3, <2>4 DEF Queued
<1>b. ASSUME turn.pc # "idle", turn'.pc # "idle", turn'.m = turn.m, UNCHANGED <<inbox, message, finals>>
      PROVE  Queued'
  BY <1>b DEF Queued
<1>c. ASSUME UNCHANGED <<inbox, message, finals, turn>> PROVE Queued'
  BY <1>c DEF Queued
<1>2. ASSUME NEW m \in B!Ids, NEW k \in Kinds, NEW f \in Files \cup {B!NoFile}, B!Send(m, k, f) PROVE Queued'
  <2>1. /\ message[m] = "none" /\ message' = [message EXCEPT ![m] = k] /\ inbox' = Append(inbox, m)
        /\ UNCHANGED <<turn, finals>>
    BY <1>2 DEF B!Send
  <2>2. finals[m] = 0 /\ turn.m # m
    BY <2>1, <1>0 DEF Queued
  <2>3. \A q \in B!Ids : message[q] # "none" => message'[q] # "none" /\ q # m
    BY <2>1, <1>0, <1>1
  <2>4. message'[m] # "none" /\ \A q \in B!Ids : message'[q] = "none" => message[q] = "none"
    BY <2>1, <1>0, <1>1
  <2> DEFINE n == Len(inbox)
  <2>5. n \in Nat /\ Len(inbox') = n + 1 /\ inbox'[n + 1] = m /\ \A i \in 1..n : inbox'[i] = inbox[i]
    BY <2>1, <1>1
  <2>6. \A i : i \in 1..(n + 1) <=> i \in 1..n \/ i = n + 1
    BY <2>5
  <2>7. n + 1 \notin 1..n
    BY <2>5
  <2>8. \A i \in 1..n : /\ message[inbox[i]] # "none" /\ finals[inbox[i]] = 0 /\ inbox[i] # turn.m
                        /\ inbox[i] \in B!Ids
                        /\ \A j \in 1..n : inbox[i] = inbox[j] => i = j
    BY <1>1 DEF Queued
  <2> HIDE DEF n
  <2>9. ASSUME NEW i \in 1..(n + 1)
        PROVE  /\ message'[inbox'[i]] # "none" /\ finals[inbox'[i]] = 0 /\ inbox'[i] # turn.m
               /\ \A j \in 1..(n + 1) : inbox'[i] = inbox'[j] => i = j
    <3>1. CASE i = n + 1
      BY <3>1, <2>2, <2>3, <2>4, <2>5, <2>6, <2>8
    <3>2. CASE i \in 1..n
      BY <3>2, <2>2, <2>3, <2>5, <2>6, <2>8
    <3> QED
      BY <3>1, <3>2, <2>6
  <2>10. \A q \in B!Ids : message'[q] = "none" => finals[q] = 0
    BY <2>4 DEF Queued
  <2>11. turn.pc # "idle" => turn.m \in B!Ids /\ finals[turn.m] = 0 /\ message'[turn.m] # "none"
    BY <2>3 DEF Queued
  <2>12. turn.pc = "idle" => turn.m = 0
    BY DEF Queued
  <2> QED
    BY <2>1, <2>5, <2>9, <2>10, <2>11, <2>12 DEF Queued
<1>3. CASE B!Take
  <2> DEFINE n == Len(inbox)
             h == Head(inbox)
  <2>1. /\ turn' = [pc |-> B!Entry(h), m |-> h] /\ inbox' = Tail(inbox) /\ inbox # <<>> /\ turn.pc = "idle"
        /\ UNCHANGED <<message, finals>>
    BY <1>3 DEF B!Take, B!At
  <2>2. B!Entry(h) # "idle"
    BY DEF B!Entry
  <2>3. n \in Nat /\ n > 0 /\ h = inbox[1] /\ Len(inbox') = n - 1 /\ \A i \in 1..(n - 1) : inbox'[i] = inbox[i + 1]
    BY <2>1, <1>1
  <2>4. 1 \in 1..n /\ \A i \in 1..(n - 1) : i + 1 \in 1..n /\ i + 1 # 1 /\ i \in Int
    BY <2>3
  <2>5. \A i \in 1..n : /\ message[inbox[i]] # "none" /\ finals[inbox[i]] = 0
                        /\ inbox[i] \in B!Ids
                        /\ \A j \in 1..n : inbox[i] = inbox[j] => i = j
    BY <1>1 DEF Queued
  <2> HIDE DEF n, h
  <2>6. turn'.pc # "idle" /\ turn'.m = h
    BY <2>1, <2>2
  <2>7. ASSUME NEW i \in 1..(n - 1)
        PROVE  /\ message[inbox'[i]] # "none" /\ finals[inbox'[i]] = 0 /\ inbox'[i] # h
               /\ \A j \in 1..(n - 1) : inbox'[i] = inbox'[j] => i = j
    <3>1. inbox'[i] = inbox[i + 1] /\ i + 1 \in 1..n /\ i + 1 # 1
      BY <2>3, <2>4
    <3>2. message[inbox'[i]] # "none" /\ finals[inbox'[i]] = 0 /\ inbox'[i] # h
      BY <3>1, <2>3, <2>4, <2>5
    <3>3. ASSUME NEW j \in 1..(n - 1), inbox'[i] = inbox'[j] PROVE i = j
      <4>1. i + 1 = j + 1
        BY <3>1, <3>3, <2>3, <2>4, <2>5
      <4> QED
        BY <4>1, <2>4
    <3> QED
      BY <3>2, <3>3
  <2>8. h \in B!Ids /\ finals[h] = 0 /\ message[h] # "none"
    BY <2>3, <2>4, <2>5
  <2> QED
    BY <2>1, <2>3, <2>6, <2>7, <2>8 DEF Queued
<1>4. CASE B!Say \/ B!Error \/ B!UploadUnanswered \/ B!Refuse \/ B!Done \/ B!Interrupt \/ B!ErrorEvent \/ B!Lose
  <2>1. turn.pc # "idle" /\ B!Final /\ UNCHANGED <<inbox, message>>
    BY <1>4 DEF B!Say, B!Error, B!UploadUnanswered, B!Refuse, B!Done, B!Interrupt, B!ErrorEvent, B!Lose, B!Live, B!At
  <2> QED
    BY <2>1, <1>a
<1>5. CASE B!SkipUpload \/ B!Upload \/ B!MarkUploaded \/ B!Start \/ B!Resume \/ B!Register \/ B!MarkScheduled
  <2>1. PICK l \in Steps \ {"idle"} : turn' = [turn EXCEPT !.pc = l]
    BY <1>5 DEF B!SkipUpload, B!Upload, B!MarkUploaded, B!Start, B!Resume, B!Register, B!MarkScheduled, Steps
  <2>2. turn.pc # "idle" /\ UNCHANGED <<inbox, message, finals>>
    BY <1>5 DEF B!SkipUpload, B!Upload, B!MarkUploaded, B!Start, B!Resume, B!Register, B!MarkScheduled,
                B!Live, B!At, B!world
  <2> QED
    BY <2>1, <2>2, <1>b, TurnMoves
<1>6. ASSUME \/ \E s \in {"live", "lost"} : B!Step(s) \/ B!StreamEnds(s)
             \/ B!Raise \/ B!LostEnds \/ B!Reborn \/ \E b \in BOOLEAN : B!RegisterFails(b)
      PROVE  Queued'
  BY <1>6, <1>c DEF B!Step, B!StreamEnds, B!Raise, B!LostEnds, B!Reborn, B!RegisterFails, B!world
<1>7. CASE B!Die
  <2>1. Len(inbox') = 0 /\ 1..0 = {} /\ turn'.pc = "idle" /\ turn'.m = 0 /\ UNCHANGED <<message, finals>>
    BY <1>7 DEF B!Die, B!Rest
  <2> QED
    BY <2>1 DEF Queued
<1> QED
  BY <1>2, <1>3, <1>4, <1>5, <1>6, <1>7 DEF B!Next, B!SendSome, B!Process

-----------------------------------------------------------------------------
(* A step of the service stays in its run and takes only consent the       *)
(* request brought.                                                        *)
LEMMA NextNodeKeeps ==
  ASSUME BridgeTypes, NEW s \in {"live", "lost"}
  PROVE  /\ B!NextNode(s).run = request[s].at.run
         /\ B!NextNode(s).ok => request[s].at.ok \/ request[s].decision = "yes"
         /\ request[s].at.next = "none" => B!NextNode(s).next = "none"
<1>1. request[s].at \in Place
  BY DEF BridgeTypes, Service
<1> QED
  BY <1>1 DEF B!NextNode, Place

(* What a request's record is after a step of the service. *)
LEMMA StepFields ==
  ASSUME BridgeTypes, NEW s \in {"live", "lost"}, B!Step(s)
  PROVE  /\ request'[s].at = B!NextNode(s) /\ request'[s].decision = "none" /\ request'[s].label = request[s].label
         /\ request[s].pc = "step" /\ request[s].at.next # "none"
         /\ request'[s].pc \in {"step", "reminder"}
         /\ \A t \in {"live", "lost"} : t # s => request'[t] = request[t]
<1>1. request \in [{"live", "lost"} -> Service]
  BY DEF BridgeTypes
<1> QED
  BY <1>1 DEF B!Step, B!Stops, Service

(* The same for the other steps that touch requests. *)
LEMMA PcFields ==
  ASSUME BridgeTypes, NEW s \in {"live", "lost"}, NEW p, request' = [request EXCEPT ![s].pc = p]
  PROVE  /\ request'[s].pc = p /\ request'[s].at = request[s].at /\ request'[s].label = request[s].label
         /\ request'[s].decision = request[s].decision
         /\ \A t \in {"live", "lost"} : t # s => request'[t] = request[t]
<1>1. request \in [{"live", "lost"} -> Service]
  BY DEF BridgeTypes
<1> QED
  BY <1>1 DEF Service

Placed ==
    /\ thread.next # "none" => thread.run \in B!Ids
    /\ \A s \in {"live", "lost"} :
          request[s].at.next # "none" \/ request[s].pc = "reminder" => request[s].at.run \in B!Ids

(* A checkpoint with a node left to run belongs to a run. *)
LEMMA PlacedStep ==
  ASSUME BridgeTypes, Queued, Placed, B!Next
  PROVE  Placed'
<1>0. B!NoStream.pc = "off" /\ B!NoStream.at.next = "none"
  BY DEF B!NoStream, B!NoRun
<1>1. request \in [{"live", "lost"} -> Service]
  BY DEF BridgeTypes
<1>a. ASSUME UNCHANGED <<thread, request>> PROVE Placed'
  BY <1>a DEF Placed
<1>b. ASSUME NEW s \in {"live", "lost"}, NEW p, p # "reminder", request' = [request EXCEPT ![s].pc = p], thread' = thread
      PROVE  Placed'
  BY <1>b, PcFields DEF Placed
<1>2. CASE B!SendSome \/ B!Take \/ B!Say \/ B!SkipUpload \/ B!Upload \/ B!MarkUploaded \/ B!Refuse \/ B!Register
           \/ B!Error \/ B!UploadUnanswered \/ B!Reborn
  BY <1>2, <1>a DEF B!SendSome, B!Send, B!Take, B!Say, B!SkipUpload, B!Upload, B!MarkUploaded, B!Refuse, B!Register,
                    B!Error, B!UploadUnanswered, B!Reborn, B!service
<1>3. CASE B!Start
  <2>1. turn.m \in B!Ids
    BY <1>3 DEF B!Start, B!At, Queued
  <2>2. thread'.run = turn.m /\ request'["live"].at.run = turn.m /\ request'["lost"] = request["lost"]
    BY <1>1, <1>3 DEF B!Start, B!M
  <2> QED
    BY <2>1, <2>2 DEF Placed
<1>4. CASE B!Resume
  <2>1. thread' = thread /\ request'["live"].at = thread /\ request'["live"].pc = "step" /\ request'["lost"] = request["lost"]
    BY <1>1, <1>4 DEF B!Resume
  <2> QED
    BY <2>1 DEF Placed
<1>5. ASSUME NEW s \in {"live", "lost"}, B!Step(s) PROVE Placed'
  <2>1. request[s].at.run \in B!Ids
    BY <1>5, StepFields DEF Placed
  <2>2. thread' = B!NextNode(s) /\ B!NextNode(s).run = request[s].at.run
    BY <1>5, NextNodeKeeps DEF B!Step
  <2> QED
    BY <1>5, <2>1, <2>2, StepFields DEF Placed
<1>6. ASSUME NEW s \in {"live", "lost"}, B!StreamEnds(s) PROVE Placed'
  <2>1. PICK p \in {"done", "interrupt"} : request' = [request EXCEPT ![s].pc = p]
    BY <1>6 DEF B!StreamEnds
  <2> QED
    BY <1>6, <2>1, <1>b DEF B!StreamEnds
<1>7. CASE B!Raise
  BY <1>7, <1>b DEF B!Raise
<1>8. CASE B!LostEnds
  BY <1>0, <1>1, <1>8 DEF B!LostEnds, Placed
<1>9. CASE B!Done \/ B!Interrupt \/ B!ErrorEvent
  BY <1>0, <1>1, <1>9 DEF B!Done, B!Interrupt, B!ErrorEvent, B!Hangs, Placed
<1>10. CASE B!MarkScheduled \/ \E b \in BOOLEAN : B!RegisterFails(b)
  BY <1>10, <1>b DEF B!MarkScheduled, B!RegisterFails, B!Skipped
<1>11. CASE B!Lose \/ B!Die
  BY <1>0, <1>1, <1>11 DEF B!Lose, B!Die, Placed
<1> QED
  BY <1>2, <1>3, <1>4, <1>5, <1>6, <1>7, <1>8, <1>9, <1>10, <1>11 DEF B!Next, B!Process

(* What process() has checked still holds when it acts on it: only its own *)
(* steps change what it looked at.                                         *)
LEMMA CheckedStep ==
  ASSUME BridgeTypes, Queued, Checked, B!Next
  PROVE  Checked'
<1>0. /\ request \in [{"live", "lost"} -> Service] /\ docs \in [Files -> Nat] /\ tasks \in [B!Ids -> Nat]
      /\ file \in [B!Ids -> Files \cup {B!NoFile}] /\ message \in [B!Ids -> Kinds \cup {"none"}]
      /\ inbox \in Seq(B!Ids)
  BY DEF BridgeTypes, B!TypeOK
<1>1. Placed'
  BY PlacedStep DEF Checked, Placed
<1>2. ASSUME turn'.pc \notin {"upload", "answered", "resume", "mirrored"} PROVE Checked'
  BY <1>1, <1>2 DEF Placed, Checked
<1>a. ASSUME UNCHANGED <<turn, pending>>, turn.pc # "idle" => file'[turn.m] = file[turn.m] /\ message'[turn.m] = message[turn.m],
             \A f \in Files : docs[f] > 0 => docs'[f] > 0,
             turn.pc = "mirrored" => request'["live"] = request["live"] /\ tasks' = tasks
      PROVE  Checked'
  BY <1>1, <1>a DEF Placed, Checked
<1>3. ASSUME NEW m \in B!Ids, NEW k \in Kinds, NEW f \in Files \cup {B!NoFile}, B!Send(m, k, f) PROVE Checked'
  <2>1. turn.pc # "idle" => turn.m # m /\ turn.m \in B!Ids
    BY <1>3 DEF B!Send, Queued
  <2>2. turn.pc # "idle" => file'[turn.m] = file[turn.m] /\ message'[turn.m] = message[turn.m]
    BY <2>1, <1>0, <1>3 DEF B!Send
  <2> QED
    BY <2>2, <1>3, <1>a DEF B!Send, B!disk, B!service
<1>4. CASE B!Take
  <2> DEFINE h == Head(inbox)
  <2>1. h \in B!Ids
    BY <1>0, <1>4 DEF B!Take
  <2>2. turn'.pc = B!Entry(h) /\ turn'.m = h /\ UNCHANGED <<pending, message, file, docs, request, thread>>
    BY <1>4 DEF B!Take, B!disk, B!service
  <2> HIDE DEF h
  <2>3. /\ B!Entry(h) = "upload" => file[h] # B!NoFile
        /\ B!Entry(h) = "resume" => pending # 0 /\ message[h] \in {"yes", "no"}
        /\ B!Entry(h) \in {"say", "resume", "text", "upload"}
    BY DEF B!Entry
  <2>4. B!Entry(h) = "upload" => file[h] \in Files
    BY <2>1, <2>3, <1>0
  <2> QED
    BY <2>2, <2>3, <2>4, <1>1 DEF Placed, Checked
<1>5. CASE B!Say \/ B!Error \/ B!UploadUnanswered \/ B!Refuse \/ B!Done \/ B!Interrupt \/ B!ErrorEvent \/ B!Lose \/ B!Die
  <2>1. turn' = B!Rest
    BY <1>5 DEF B!Say, B!Error, B!UploadUnanswered, B!Refuse, B!Done, B!Interrupt, B!ErrorEvent, B!Lose, B!Die, B!Final
  <2> QED
    BY <2>1, <1>2 DEF B!Rest
<1>6. CASE B!SkipUpload \/ B!MarkUploaded \/ B!Start \/ B!Resume \/ B!MarkScheduled
  <2>1. PICK l \in {"text", "events"} : turn' = [turn EXCEPT !.pc = l]
    BY <1>6 DEF B!SkipUpload, B!MarkUploaded, B!Start, B!Resume, B!MarkScheduled
  <2>2. turn'.pc \in {"text", "events"}
    BY <2>1, TurnMoves DEF Steps
  <2> QED
    BY <2>2, <1>2
<1>7. CASE B!Upload
  <2>1. /\ turn' = [turn EXCEPT !.pc = "answered"] /\ turn.pc = "upload" /\ docs' = [docs EXCEPT ![file[turn.m]] = @ + 1]
        /\ UNCHANGED <<file, message, pending, request, thread>>
    BY <1>7 DEF B!Upload, B!At, B!M, B!world, B!disk
  <2>2. turn'.pc = "answered" /\ turn'.m = turn.m /\ file[turn.m] \in Files
    BY <2>1, TurnMoves DEF Steps, Checked
  <2>3. docs'[file[turn.m]] > 0
    <3>1. docs[file[turn.m]] \in Nat
      BY <2>2, <1>0
    <3>2. docs'[file[turn.m]] = docs[file[turn.m]] + 1
      BY <2>1, <2>2, <1>0
    <3> QED
      BY <3>1, <3>2
  <2> QED
    BY <2>1, <2>2, <2>3, <1>1 DEF Placed, Checked
<1>8. CASE B!Register
  <2>1. /\ turn' = [turn EXCEPT !.pc = "mirrored"] /\ tasks' = [tasks EXCEPT ![request["live"].at.run] = @ + 1]
        /\ request["live"].pc = "reminder" /\ UNCHANGED request
    BY <1>8 DEF B!Register, B!Live, B!service
  <2>2. turn'.pc = "mirrored" /\ request["live"].at.run \in B!Ids
    BY <2>1, TurnMoves DEF Steps, Checked
  <2>3. tasks'[request["live"].at.run] > 0
    <3>1. tasks[request["live"].at.run] \in Nat
      BY <2>2, <1>0
    <3>2. tasks'[request["live"].at.run] = tasks[request["live"].at.run] + 1
      BY <2>1, <2>2, <1>0
    <3> QED
      BY <3>1, <3>2
  <2> QED
    BY <2>1, <2>2, <2>3, <1>1 DEF Placed, Checked
<1>9. ASSUME NEW s \in {"live", "lost"}, B!Step(s) PROVE Checked'
  <2>1. turn.pc = "mirrored" => request'["live"] = request["live"]
    BY <1>9, StepFields DEF Checked
  <2> QED
    BY <2>1, <1>9, <1>a DEF B!Step, B!world, B!disk
<1>10. ASSUME NEW s \in {"live", "lost"}, B!StreamEnds(s) PROVE Checked'
  <2>1. request[s].pc = "step" /\ \A t \in {"live", "lost"} : t # s => request'[t] = request[t]
    BY <1>0, <1>10 DEF B!StreamEnds
  <2>2. turn.pc = "mirrored" => request'["live"] = request["live"]
    BY <2>1 DEF Checked
  <2> QED
    BY <2>2, <1>10, <1>a DEF B!StreamEnds, B!world, B!disk
<1>11. CASE B!Raise
  <2>1. turn.pc # "mirrored"
    BY <1>11 DEF B!Raise, Checked
  <2> QED
    BY <2>1, <1>11, <1>a DEF B!Raise, B!world, B!disk
<1>12. CASE B!LostEnds
  <2>1. request'["live"] = request["live"]
    BY <1>0, <1>12 DEF B!LostEnds
  <2> QED
    BY <2>1, <1>12, <1>a DEF B!LostEnds, B!world, B!disk
<1>13. ASSUME NEW b \in BOOLEAN, B!RegisterFails(b) PROVE Checked'
  <2>1. turn.pc # "mirrored"
    BY <1>13 DEF B!RegisterFails, B!Live, B!At
  <2> QED
    BY <2>1, <1>13, <1>a DEF B!RegisterFails, B!disk
<1>14. CASE B!Reborn
  BY <1>14, <1>a DEF B!Reborn, B!world, B!disk, B!service
<1> QED
  BY <1>3, <1>4, <1>5, <1>6, <1>7, <1>8, <1>9, <1>10, <1>11, <1>12, <1>13, <1>14 DEF B!Next, B!SendSome, B!Process

-----------------------------------------------------------------------------
(* The file claims only what was done, and without a fault each file is    *)
(* stored once.                                                            *)
LEMMA FileStep ==
  ASSUME BridgeTypes, Queued, Checked, B!FileTrue, losses = 0 => Once, B!Next
  PROVE  B!FileTrue' /\ (losses' = 0 => Once')
<1>0. /\ docs \in [Files -> Nat] /\ tasks \in [B!Ids -> Nat] /\ uploaded \subseteq Files /\ scheduled \subseteq B!Ids
      /\ losses \in Nat /\ file \in [B!Ids -> Files \cup {B!NoFile}]
  BY RequestsAssumption DEF BridgeTypes, B!TypeOK, B!BridgeAssumption
<1>a. B!Fault => losses' # 0
  BY <1>0 DEF B!Fault
<1>b. ASSUME UNCHANGED <<docs, tasks, uploaded, scheduled>>, losses' = 0 => losses = 0,
             turn.pc = "answered" => losses' # 0 \/ (turn' = turn /\ file'[turn.m] = file[turn.m])
      PROVE  B!FileTrue' /\ (losses' = 0 => Once')
  BY <1>b DEF B!FileTrue, Once
<1>1. ASSUME NEW m \in B!Ids, NEW k \in Kinds, NEW f \in Files \cup {B!NoFile}, B!Send(m, k, f)
      PROVE  B!FileTrue' /\ (losses' = 0 => Once')
  <2>1. turn.pc # "idle" => turn.m # m /\ turn.m \in B!Ids
    BY <1>1 DEF B!Send, Queued
  <2>2. turn.pc # "idle" => file'[turn.m] = file[turn.m]
    BY <2>1, <1>0, <1>1 DEF B!Send
  <2> QED
    BY <2>2, <1>1, <1>b DEF B!Send, B!disk, B!service
<1>2. CASE B!Take \/ B!Say \/ B!SkipUpload \/ B!Refuse \/ B!Start \/ B!Resume \/ B!Done \/ B!Interrupt \/ B!ErrorEvent
  <2>1. turn.pc # "answered"
    BY <1>2 DEF B!Take, B!Say, B!SkipUpload, B!Refuse, B!Start, B!Resume, B!Done, B!Interrupt, B!ErrorEvent, B!Live, B!At
  <2>2. UNCHANGED <<docs, tasks, uploaded, scheduled, losses>>
    BY <1>2 DEF B!Take, B!Say, B!SkipUpload, B!Refuse, B!Start, B!Resume, B!Done, B!Interrupt, B!ErrorEvent,
                B!world, B!disk, B!service
  <2> QED
    BY <2>1, <2>2, <1>b
<1>3. CASE B!Error \/ B!UploadUnanswered \/ B!Raise \/ B!Lose \/ B!Die
  <2>1. UNCHANGED <<docs, tasks, uploaded, scheduled>> /\ B!Fault
    BY <1>3 DEF B!Error, B!UploadUnanswered, B!Raise, B!Lose, B!Die, B!world, B!disk, B!service
  <2> QED
    BY <2>1, <1>a, <1>b
<1>4. ASSUME \/ \E s \in {"live", "lost"} : B!Step(s) \/ B!StreamEnds(s)
             \/ B!LostEnds \/ B!Reborn
      PROVE  B!FileTrue' /\ (losses' = 0 => Once')
  BY <1>4, <1>b DEF B!Step, B!StreamEnds, B!LostEnds, B!Reborn, B!world, B!disk, B!service
<1>c. ASSUME NEW r \in B!Ids PROVE \A q \in B!Ids : tasks[q] > 0 => [tasks EXCEPT ![r] = @ + 1][q] > 0
  BY <1>0
<1>5. CASE B!Register \/ \E b \in BOOLEAN : B!RegisterFails(b)
  <2>1. request["live"].at.run \in B!Ids /\ turn.pc = "events"
    BY <1>5 DEF B!Register, B!RegisterFails, B!Live, B!At, Checked
  <2>2. tasks' = tasks \/ tasks' = [tasks EXCEPT ![request["live"].at.run] = @ + 1]
    BY <1>5 DEF B!Register, B!RegisterFails
  <2>3. \A q \in B!Ids : tasks[q] > 0 => tasks'[q] > 0
    BY <2>1, <2>2, <1>c
  <2>4. UNCHANGED <<docs, uploaded, scheduled>> /\ (losses' = 0 => losses = 0)
    BY <1>0, <1>5 DEF B!Register, B!RegisterFails, B!disk, B!service, B!Fault
  <2>5. B!FileTrue'
    BY <2>3, <2>4, <1>0 DEF B!FileTrue
  <2> QED
    BY <2>1, <2>4, <2>5 DEF Once
<1>6. CASE B!MarkScheduled
  <2>1. /\ scheduled' = scheduled \cup {request["live"].at.run} /\ UNCHANGED <<docs, uploaded, tasks, losses>>
        /\ turn.pc = "mirrored"
    BY <1>6 DEF B!MarkScheduled, B!At, B!world
  <2> QED
    BY <2>1 DEF B!FileTrue, Checked, Once
<1>7. CASE B!Upload
  <2>1. /\ turn' = [turn EXCEPT !.pc = "answered"] /\ turn.pc = "upload" /\ docs' = [docs EXCEPT ![file[turn.m]] = @ + 1]
        /\ UNCHANGED <<file, uploaded, scheduled, tasks, losses>> /\ file[turn.m] \notin uploaded
    BY <1>7 DEF B!Upload, B!At, B!M, B!world, B!disk
  <2>2. turn'.pc = "answered" /\ turn'.m = turn.m /\ file[turn.m] \in Files
    BY <2>1, TurnMoves DEF Steps, Checked
  <2>3. /\ docs'[file[turn.m]] = docs[file[turn.m]] + 1 /\ docs[file[turn.m]] \in Nat
        /\ \A f \in Files : f # file[turn.m] => docs'[f] = docs[f]
    BY <2>1, <2>2, <1>0
  <2>4. B!FileTrue'
    BY <2>1, <2>3, <1>0 DEF B!FileTrue
  <2>5. ASSUME losses = 0 PROVE Once'
    <3>1. docs[file[turn.m]] = 0
      BY <2>1, <2>2, <2>5 DEF Once
    <3>2. ASSUME NEW f \in Files
          PROVE  docs'[f] <= 1 /\ (f \notin uploaded' /\ docs'[f] # 0 => turn'.pc = "answered" /\ file'[turn'.m] = f)
      <4>1. CASE f = file[turn.m]
        BY <4>1, <3>1, <2>1, <2>2, <2>3
      <4>2. CASE f # file[turn.m]
        BY <4>2, <2>1, <2>3, <2>5 DEF Once
      <4> QED
        BY <4>1, <4>2
    <3> QED
      BY <3>2 DEF Once
  <2> QED
    BY <2>1, <2>4, <2>5
<1>8. CASE B!MarkUploaded
  <2>1. /\ uploaded' = uploaded \cup {file[turn.m]} /\ UNCHANGED <<docs, scheduled, tasks, losses>>
        /\ turn.pc = "answered"
    BY <1>8 DEF B!MarkUploaded, B!At, B!M, B!world, B!service
  <2>2. B!FileTrue'
    BY <2>1 DEF B!FileTrue, Checked
  <2>3. losses = 0 => Once'
    BY <2>1 DEF Once
  <2> QED
    BY <2>1, <2>2, <2>3
<1> QED
  BY <1>1, <1>2, <1>3, <1>4, <1>5, <1>6, <1>7, <1>8 DEF B!Next, B!SendSome, B!Process

(* A plan is stored only by a step past an approved checkpoint. *)
LEMMA PersistApproved ==
  ASSUME BridgeTypes, Followed, NEW s \in {"live", "lost"}, request[s].pc # "off",
         NEW r \in B!Ids, B!Persist(s)[r] > 0
  PROVE  r \in approved
<1>1. plans \in [B!Ids -> Nat] /\ request[s].at = thread
  BY DEF BridgeTypes, B!TypeOK, Followed
<1> QED
  BY <1>1 DEF B!Persist, Followed

(* As long as nothing is overtaken the bridge and the service follow the   *)
(* same run.                                                               *)
LEMMA FollowedStep ==
  ASSUME BridgeTypes, Queued, Checked, ~overtaken => Followed, B!Next
  PROVE  ~overtaken' => Followed'
<1> SUFFICES ASSUME ~overtaken' PROVE Followed'
  OBVIOUS
<1>0. /\ request \in [{"live", "lost"} -> Service] /\ B!NoStream.pc = "off" /\ thread \in Place
      /\ plans \in [B!Ids -> Nat]
  BY DEF BridgeTypes, B!TypeOK, B!NoStream
<1>1. ~overtaken
  BY DEF B!Next, B!SendSome, B!Process, B!Send, B!Take, B!Say, B!SkipUpload, B!Upload, B!MarkUploaded, B!Refuse,
         B!Start, B!Resume, B!Step, B!StreamEnds, B!Done, B!Interrupt, B!ErrorEvent, B!Register, B!MarkScheduled,
         B!Error, B!UploadUnanswered, B!Raise, B!LostEnds, B!RegisterFails, B!Lose, B!Die, B!Reborn, B!service
<1>2. Followed
  BY <1>1
<1>a. ASSUME UNCHANGED <<thread, request, approved, pending, plans>> PROVE Followed'
  BY <1>2, <1>a DEF Followed
<1>b. ASSUME NEW s \in {"live", "lost"}, NEW p, request' = [request EXCEPT ![s].pc = p], request[s].pc # "off",
             UNCHANGED <<thread, approved, pending>>, \A r \in B!Ids : plans'[r] > 0 => r \in approved
      PROVE  Followed'
  BY <1>2, <1>b, PcFields DEF Followed
<1>3. CASE B!SendSome \/ B!Take \/ B!Say \/ B!SkipUpload \/ B!Upload \/ B!MarkUploaded \/ B!Refuse \/ B!Register
           \/ B!Error \/ B!UploadUnanswered \/ B!Reborn
  BY <1>3, <1>a DEF B!SendSome, B!Send, B!Take, B!Say, B!SkipUpload, B!Upload, B!MarkUploaded, B!Refuse, B!Register,
                    B!Error, B!UploadUnanswered, B!Reborn, B!service, B!world, B!disk
<1>4. CASE B!Start
  <2> DEFINE at == [run |-> turn.m, next |-> "work", ok |-> FALSE]
  <2>1. /\ request'["live"] = [pc |-> "step", label |-> turn.m, decision |-> "none", at |-> at]
        /\ request'["lost"] = request["lost"] /\ thread' = at /\ pending = 0
        /\ UNCHANGED <<approved, pending, plans>>
    BY <1>0, <1>4 DEF B!Start, B!M, B!world, B!disk
  <2>2. request["lost"].pc = "off"
    BY <1>4 DEF B!Start
  <2>3. at.run = turn.m /\ at.ok = FALSE
    OBVIOUS
  <2> HIDE DEF at
  <2>4. /\ request'["live"].at = thread' /\ request'["live"].label = thread'.run
        /\ request'["live"].decision = "none" /\ ~thread'.ok
    BY <2>1, <2>3
  <2> QED
    BY <2>1, <2>2, <2>4, <1>2 DEF Followed
<1>5. CASE B!Resume
  <2>1. /\ request'["live"] = [pc |-> "step", label |-> pending, decision |-> message[turn.m], at |-> thread]
        /\ request'["lost"] = request["lost"]
        /\ UNCHANGED <<thread, pending, plans>>
    BY <1>0, <1>5 DEF B!Resume, B!M, B!disk
  <2>2. request["lost"].pc = "off" /\ pending # 0
    BY <1>5 DEF B!Resume, B!At, Checked
  <2>3. approved \subseteq approved' /\ (message[turn.m] = "yes" => pending \in approved')
    BY <1>5 DEF B!Resume, B!M
  <2>4. /\ request'["live"].at = thread /\ request'["live"].label = pending
        /\ request'["live"].decision = message[turn.m] /\ thread.run = pending
    BY <2>1, <2>2, <1>2 DEF Followed
  <2> QED
    BY <2>1, <2>2, <2>3, <2>4, <1>2 DEF Followed
<1>6. ASSUME NEW s \in {"live", "lost"}, B!Step(s) PROVE Followed'
  <2>1. UNCHANGED <<approved, pending>> /\ thread' = B!NextNode(s) /\ plans' = B!Persist(s)
    BY <1>6 DEF B!Step, B!world, B!disk
  <2>2. /\ request'[s].at = B!NextNode(s) /\ request'[s].decision = "none" /\ request'[s].label = request[s].label
        /\ request[s].pc = "step" /\ \A t \in {"live", "lost"} : t # s => request'[t] = request[t]
    BY <1>6, StepFields
  <2>3. /\ request[s].at = thread /\ request[s].label = thread.run /\ (request[s].decision = "yes" => thread.run \in approved)
        /\ \A t \in {"live", "lost"} : t # s => request[t].pc = "off"
    BY <2>2, <1>2 DEF Followed
  <2>4. /\ B!NextNode(s).run = thread.run
        /\ B!NextNode(s).ok => thread.run \in approved
    BY <2>3, <1>2, NextNodeKeeps DEF Followed
  <2>5. \A r \in B!Ids : plans'[r] > 0 => r \in approved
    BY <2>1, <2>2, <1>2, PersistApproved
  <2> QED
    BY <2>1, <2>2, <2>3, <2>4, <2>5, <1>2 DEF Followed
<1>7. ASSUME NEW s \in {"live", "lost"}, B!StreamEnds(s) PROVE Followed'
  <2>1. PICK p : request' = [request EXCEPT ![s].pc = p]
    BY <1>7 DEF B!StreamEnds
  <2>2. request[s].pc # "off" /\ UNCHANGED <<thread, approved, pending, plans>>
    BY <1>7 DEF B!StreamEnds, B!world, B!disk
  <2> QED
    BY <2>1, <2>2, <1>2, <1>b DEF Followed
<1>8. CASE B!Raise
  <2>1. request["live"].pc # "off" /\ UNCHANGED <<thread, approved, pending>> /\ request' = [request EXCEPT !["live"].pc = "error"]
    BY <1>8 DEF B!Raise, B!world, B!disk
  <2>2. \A r \in B!Ids : plans'[r] > 0 => r \in approved
    <3>1. plans' = plans \/ plans' = B!Persist("live")
      BY <1>8 DEF B!Raise
    <3> QED
      BY <3>1, <2>1, <1>2, PersistApproved DEF Followed
  <2> QED
    BY <2>1, <2>2, <1>b
<1>9. CASE B!LostEnds
  <2>1. request'["lost"].pc = "off" /\ request'["live"] = request["live"] /\ UNCHANGED <<thread, approved, pending, plans>>
    BY <1>0, <1>9 DEF B!LostEnds, B!world, B!disk
  <2> QED
    BY <2>1, <1>2 DEF Followed
<1>10. CASE B!Done \/ B!Interrupt \/ B!ErrorEvent
  <2>1. /\ request'["live"].pc = "off" /\ request'["lost"] = request["lost"] /\ UNCHANGED <<thread, approved, plans>>
        /\ request["live"].pc # "off"
    BY <1>0, <1>10 DEF B!Done, B!Interrupt, B!ErrorEvent, B!Hangs, B!Live
  <2>2. pending' \in {0, pending, request["live"].label}
    BY <1>10 DEF B!Done, B!Interrupt, B!ErrorEvent, B!disk
  <2>3. pending' # 0 => thread.run = pending'
    BY <2>1, <2>2, <1>2 DEF Followed
  <2> QED
    BY <2>1, <2>3, <1>2 DEF Followed
<1>11. CASE B!MarkScheduled
  <2>1. /\ request["live"].pc # "off" /\ request' = [request EXCEPT !["live"].pc = "step"]
        /\ UNCHANGED <<thread, approved, pending, plans>>
    BY <1>11 DEF B!MarkScheduled, B!Skipped, B!At, Checked, B!world
  <2> QED
    BY <2>1, <1>2, <1>b DEF Followed
<1>12. ASSUME NEW b \in BOOLEAN, B!RegisterFails(b) PROVE Followed'
  <2>1. /\ request["live"].pc # "off" /\ request' = [request EXCEPT !["live"].pc = "step"]
        /\ UNCHANGED <<thread, approved, pending, plans>>
    BY <1>12 DEF B!RegisterFails, B!Skipped, B!Live, B!disk
  <2> QED
    BY <2>1, <1>2, <1>b DEF Followed
<1>13. CASE B!Lose \/ B!Die
  <2>1. /\ request'["live"].pc = "off" /\ request'["lost"] = request["live"]
        /\ UNCHANGED <<thread, approved, pending, plans>>
    BY <1>0, <1>13 DEF B!Lose, B!Die, B!disk
  <2> QED
    BY <2>1, <1>2 DEF Followed
<1> QED
  BY <1>3, <1>4, <1>5, <1>6, <1>7, <1>8, <1>9, <1>10, <1>11, <1>12, <1>13 DEF B!Next, B!Process

-----------------------------------------------------------------------------
(* Both together.                                                          *)

(* The part that rests keeps what it had. *)
LEMMA Rests ==
  /\ ApartInv /\ UNCHANGED page => ApartInv'
  /\ BridgeInv /\ UNCHANGED bridge => BridgeInv'
<1>1. ASSUME ApartInv, UNCHANGED page PROVE ApartInv'
  <2>1. A!TypeOK'
    BY <1>1 DEF ApartInv, page, A!TypeOK
  <2>2. Labelled' /\ (faults' = 0 => KeptApart')
    BY <1>1 DEF ApartInv, page, Labelled, KeptApart, Undisturbed, A!PlanConfirmed
  <2> QED
    BY <2>1, <2>2 DEF ApartInv
<1>2. ASSUME BridgeInv, UNCHANGED bridge PROVE BridgeInv'
  <2>1. BridgeTypes'
    BY <1>2 DEF BridgeInv, bridge, BridgeTypes, B!TypeOK
  <2>2. Queued' /\ Checked'
    BY <1>2 DEF BridgeInv, bridge, Queued, Checked
  <2>3. B!FileTrue' /\ (~overtaken' => Followed') /\ (losses' = 0 => Once')
    BY <1>2 DEF BridgeInv, bridge, B!FileTrue, Followed, Once
  <2> QED
    BY <2>1, <2>2, <2>3 DEF BridgeInv
<1> QED
  BY <1>1, <1>2

(* The invariant of the bridge holds in every reachable state. *)
LEMMA BridgeInvStep == BridgeInv /\ [Next]_vars => BridgeInv'
<1> SUFFICES ASSUME BridgeInv, [Next]_vars PROVE BridgeInv'
  OBVIOUS
<1>1. CASE UNCHANGED bridge
  BY <1>1, Rests
<1>2. CASE B!Next
  <2>1. BridgeTypes' /\ Queued' /\ Checked'
    BY <1>2, BridgeTypesStep, QueuedStep, CheckedStep DEF BridgeInv
  <2>2. B!FileTrue' /\ (losses' = 0 => Once')
    BY <1>2, FileStep DEF BridgeInv
  <2>3. ~overtaken' => Followed'
    BY <1>2, FollowedStep DEF BridgeInv
  <2> QED
    BY <2>1, <2>2, <2>3 DEF BridgeInv
<1> QED
  BY <1>1, <1>2 DEF Next, vars

(* The same for the page, if its requests come one at a time. *)
LEMMA ApartInvStep == OneAtATime /\ ApartInv /\ [Next]_vars => ApartInv'
<1> SUFFICES ASSUME OneAtATime, ApartInv, [Next]_vars PROVE ApartInv'
  OBVIOUS
<1>1. CASE UNCHANGED page
  BY <1>1, Rests
<1>2. CASE A!Next
  <2>1. A!TypeOK' /\ Labelled'
    BY <1>2, ApartTypes, LabelledStep DEF ApartInv
  <2>2. ASSUME faults' = 0 PROVE KeptApart'
    <3>0. faults' \in {faults, faults + 1}
      BY <1>2 DEF A!Next, A!Serve, A!Run, A!RunRefused, A!Resume, A!Input, A!Load, A!Work,
         A!Interrupt, A!Approve, A!Persist, A!Snapshot, A!Mark, A!Fail, A!Disconnect
    <3>1. faults \in Nat /\ faults = 0
      BY <2>2, <3>0, SMTT(30) DEF ApartInv, A!TypeOK
    <3> QED
      BY <1>2, <2>2, <3>1, KeptApartStep DEF ApartInv
  <2> QED
    BY <2>1, <2>2 DEF ApartInv
<1> QED
  BY <1>1, <1>2 DEF Next, vars

(* service.py:51 and :90, for any number of turns: if requests come one at *)
(* a time and none breaks down, the plan stored is one whose card was      *)
(* confirmed, and a completed run holds the answer of its own turn. (With  *)
(* overlapping requests it does not hold: README.md:25 and the run         *)
(* requests_overlap.)                                                      *)
THEOREM TurnsApart == ASSUME OneAtATime PROVE FairSpec => []TurnsKeptApart
<1>1. Init => ApartInv
  BY ApartInit DEF Init
<1>2. ApartInv /\ [Next]_vars => ApartInv'
  BY OneAtATime, ApartInvStep
<1>3. ApartInv => TurnsKeptApart
  BY DEF ApartInv, KeptApart, TurnsKeptApart, A!PlanConfirmedIfUndisturbed, A!OwnAnswer
<1> QED
  BY <1>1, <1>2, <1>3, PTL DEF FairSpec

(* bridge.py:174 and :277, for any number of messages, files and faults:   *)
(* the pending decision is about the thread's current run and plans are    *)
(* stored with the user's approval as long as no lost request went on      *)
(* beside a later one; the state file claims nothing that was not done;    *)
(* and every message gets at most one final frame.                         *)
THEOREM BridgeKeepsTrue == FairSpec => []BridgeTrue
<1>1. Init => BridgeInv
  BY BridgeInit DEF Init
<1> QED
  BY <1>1, BridgeInvStep, BridgeInvTrue, PTL DEF FairSpec
==============================================================================
