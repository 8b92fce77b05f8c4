---------------------------- MODULE WorkerFence ----------------------------
(***************************************************************************)
(* The fence of one workflow attempt: the file a daemon writes before it   *)
(* forks the worker of the attempt, by which a later daemon finds out      *)
(* whether a worker still runs; the pool that forks, binds and ends the    *)
(* worker; and the drain of an attempt nobody in memory waits for, which   *)
(* looks for the worker, signals it and reports it closed.                 *)
(*                                                                         *)
(* Daemons follow each other (gen counts them). What happens between two   *)
(* awaits of a daemon is split where its death, or the operating system's  *)
(* processes, can fall in between. Changes of the fence file are atomic    *)
(* (file lock, rename).                                                    *)
(***************************************************************************)
EXTENDS Naturals

CONSTANTS
    MaxGen,      \* bound on the number of daemons
    SlowSetup,   \* the steps before the fork may outlast the two scans
    MaxBlind     \* bound on the scans that cannot read /proc

FenceAssumption == MaxGen \in Nat \ {0} /\ SlowSetup \in BOOLEAN /\ MaxBlind \in Nat

VARIABLES
    fence,    \* the file: phase and the daemon that armed it
    worker,   \* the process: none, forked (not yet exec'd), up, dead
    sig,      \* the strongest signal it got: none, int, kill
    pool,     \* where runNode of the attempt is
    gen, up,  \* the current daemon
    held,     \* the current drive waits for the attempt's promise
    since,    \* missingFenceNoneSince: no, fresh, old
    sent,     \* externalDrainSignals: none, int, old, kill
    drain,    \* a drain that found the attempt closed: idle, closed, proved
    journal,  \* the ledger: none, open, proved
    blind     \* bound: scans that could not read /proc

vars == <<fence, worker, sig, pool, gen, up, held, since, sent, drain, journal, blind>>

NoFence == [phase |-> "none", owner |-> 0]
Alive == worker \in {"forked", "up"}
Own == fence.owner = gen

Init ==
    /\ fence = NoFence /\ worker = "none" /\ sig = "none" /\ pool = "idle"
    /\ gen = 1 /\ up = TRUE /\ held = FALSE
    /\ since = "no" /\ sent = "none" /\ drain = "idle" /\ journal = "none" /\ blind = 0

\* the daemon's thread is not in the middle of a drain or of fork and bind
Thread == up /\ drain = "idle" /\ pool # "spawned"

Tracking == <<since, sent, drain>>
Daemon == <<gen, up, blind>>

---------------------------------------------------------------------------
(* startWork and the pool, in the daemon that dispatches the attempt.      *)

\* claimDispatch
Claim ==
    /\ Thread /\ pool = "idle" /\ journal = "none"
    /\ journal' = "open" /\ pool' = "claimed" /\ held' = TRUE
    /\ UNCHANGED <<fence, worker, sig, Daemon, Tracking>>

\* armV3AttemptWorkerFence
Arm ==
    /\ Thread /\ pool = "claimed"
    /\ fence' = [phase |-> "armed", owner |-> gen]
    /\ pool' = "setup"
    /\ UNCHANGED <<worker, sig, Daemon, held, Tracking, journal>>

ArmFails ==
    /\ Thread /\ pool = "claimed"
    /\ journal' = "proved" /\ pool' = "gone" /\ held' = FALSE
    /\ UNCHANGED <<fence, worker, sig, Daemon, Tracking>>

CloseNoSpawn == IF fence.phase = "armed" /\ Own THEN [fence EXCEPT !.phase = "closed_no_spawn"] ELSE fence

\* the run no longer runs when the fence is armed: no promise is made
RunEnded ==
    /\ Thread /\ pool = "setup" /\ held
    /\ fence' = CloseNoSpawn
    /\ pool' = "gone" /\ held' = FALSE
    /\ UNCHANGED <<worker, sig, Daemon, Tracking, journal>>

\* aborted, no secret, or a failed mkdir or spawn
SetupEnds ==
    /\ Thread /\ pool = "setup"
    /\ fence' = CloseNoSpawn
    /\ pool' = "result"
    /\ UNCHANGED <<worker, sig, Daemon, held, Tracking, journal>>

Fork ==
    /\ Thread /\ pool = "setup"
    /\ worker' = "forked" /\ pool' = "spawned"
    /\ UNCHANGED <<fence, sig, Daemon, held, Tracking, journal>>

\* activateV3AttemptWorkerFence: its own armed fence, or one a drain of this
\* daemon has bound to the same worker
Bindable == Own /\ fence.phase \in {"armed", "active"}

Bind ==
    /\ up /\ pool = "spawned" /\ Bindable
    /\ fence' = [fence EXCEPT !.phase = "active"]
    /\ pool' = "running"
    /\ UNCHANGED <<worker, sig, Daemon, held, Tracking, journal>>

\* the fence has changed, or the child has no pid or identity: it is killed and
\* the promise rejects only when it is gone
BindFails ==
    /\ up /\ pool = "spawned" /\ (~Bindable \/ worker = "dead")
    /\ pool' = "killing"
    /\ UNCHANGED <<fence, worker, sig, Daemon, held, Tracking, journal>>

\* the worker reported, timed out or is aborted
Finish ==
    /\ Thread /\ pool = "running"
    /\ pool' = "closing"
    /\ UNCHANGED <<fence, worker, sig, Daemon, held, Tracking, journal>>

\* close message, SIGTERM, and SIGKILL when the grace has expired
KillTimer ==
    /\ Thread /\ pool \in {"closing", "killing"} /\ Alive
    /\ sig' = "kill"
    /\ UNCHANGED <<fence, worker, pool, Daemon, held, Tracking, journal>>

\* ChildProcess close: markClosed, and the promise resolves
Closed ==
    /\ Thread /\ pool \in {"running", "closing"} /\ worker = "dead"
    /\ fence' = IF fence.phase = "active" /\ Own THEN [fence EXCEPT !.phase = "closed"] ELSE fence
    /\ pool' = "result"
    /\ UNCHANGED <<worker, sig, Daemon, held, Tracking, journal>>

ClosedUnbound ==
    /\ Thread /\ pool = "killing" /\ worker = "dead"
    /\ fence' = CASE fence.phase = "active" -> [fence EXCEPT !.phase = "closed"]
                  [] fence.phase = "armed" -> NoFence
                  [] OTHER -> fence
    /\ pool' = "result"
    /\ UNCHANGED <<worker, sig, Daemon, held, Tracking, journal>>

\* the verdict or the drain proof is journalled ...
Settle ==
    /\ Thread /\ pool = "result"
    /\ journal' = "proved" /\ pool' = "cleanup"
    /\ UNCHANGED <<fence, worker, sig, Daemon, held, Tracking>>

Gone == \/ fence.phase \in {"closed", "closed_no_spawn"}
        \/ fence.phase = "active" /\ worker = "dead"

\* ... and only then cleanupSettled removes the fence
Cleanup ==
    /\ Thread /\ pool = "cleanup"
    /\ fence' = IF Gone \/ fence.phase = "armed" THEN NoFence ELSE fence
    /\ pool' = "gone" /\ held' = FALSE
    /\ UNCHANGED <<worker, sig, Daemon, Tracking, journal>>

---------------------------------------------------------------------------
(* drainExternallyOwned: an open attempt without a promise in this drive.  *)

CanDrain == Thread /\ journal = "open" /\ ~held

\* faulty: no escalation
SignalsOnce ==
    CASE sent = "none" -> sent' = "int" /\ sig' = (IF sig = "kill" THEN "kill" ELSE "int")
      [] OTHER -> UNCHANGED <<sent, sig>>

\* the signal sent to a worker that is alive: SIGINT, and SIGKILL 5 s later
Signals ==
    CASE sent = "none" -> sent' = "int" /\ sig' = (IF sig = "kill" THEN "kill" ELSE "int")
      [] sent = "old" -> sent' = "kill" /\ sig' = "kill"
      [] OTHER -> UNCHANGED <<sent, sig>>

\* an active fence whose worker lives
DrainSignal ==
    /\ CanDrain /\ fence.phase = "active" /\ Alive
    /\ Signals
    /\ UNCHANGED <<fence, worker, pool, Daemon, held, since, drain, journal>>

\* armed by this daemon or by a dead one, or never armed: the worker is
\* discovered by its environment and command line, the fence bound to it
DrainDiscovers ==
    /\ CanDrain /\ fence.phase \in {"armed", "none"} /\ worker = "up"
    /\ fence' = [phase |-> "active",
                 owner |-> IF fence.phase = "armed" THEN fence.owner ELSE gen]
    /\ since' = "no"
    /\ Signals
    /\ UNCHANGED <<worker, pool, Daemon, held, drain, journal>>

\* discovery finds nothing, for the first time ...
DrainNone ==
    /\ CanDrain /\ fence.phase \in {"armed", "none"} /\ worker # "up" /\ since = "no"
    /\ since' = "fresh"
    /\ UNCHANGED <<fence, worker, sig, pool, Daemon, held, sent, drain, journal>>

\* ... and again, 500 ms later: closed. A fence of this daemon is turned into
\* the tombstone of an attempt that never forked
DrainStable ==
    /\ CanDrain /\ fence.phase \in {"armed", "none"} /\ worker # "up" /\ since = "old"
    /\ fence' = CloseNoSpawn
    /\ drain' = "closed"
    /\ UNCHANGED <<worker, sig, pool, Daemon, held, since, sent, journal>>

\* a tombstone, or an active fence whose process is missing or another
DrainDead ==
    /\ CanDrain /\ Gone
    /\ drain' = "closed"
    /\ UNCHANGED <<fence, worker, sig, pool, Daemon, held, since, sent, journal>>

\* several candidates, or a process that cannot be inspected
DrainUnknown ==
    /\ CanDrain /\ blind < MaxBlind /\ fence.phase \in {"armed", "none"} /\ since # "no"
    /\ since' = "no" /\ blind' = blind + 1
    /\ UNCHANGED <<fence, worker, sig, pool, gen, up, held, sent, drain, journal>>

\* recordClosed: the proof first, then the fence is removed
DrainProof ==
    /\ up /\ drain = "closed"
    /\ journal' = "proved" /\ drain' = "proved"
    /\ UNCHANGED <<fence, worker, sig, pool, Daemon, held, since, sent>>

DrainFinalize ==
    /\ up /\ drain = "proved"
    /\ fence' = NoFence
    /\ since' = "no" /\ sent' = "none" /\ drain' = "idle"
    /\ UNCHANGED <<worker, sig, pool, Daemon, held, journal>>

---------------------------------------------------------------------------
(* Time, processes, and daemons that die and return.                       *)

\* 500 ms pass: longer than an exec, and than the setup unless SlowSetup
ScanInterval ==
    /\ up /\ since = "fresh" /\ worker # "forked"
    /\ pool \in {"claimed", "setup"} => SlowSetup
    /\ since' = "old"
    /\ UNCHANGED <<fence, worker, sig, pool, Daemon, held, sent, drain, journal>>

GracePasses ==
    /\ up /\ sent = "int" /\ sent' = "old"
    /\ UNCHANGED <<fence, worker, sig, pool, Daemon, held, since, drain, journal>>

Exec ==
    /\ worker = "forked" /\ worker' = "up"
    /\ UNCHANGED <<fence, sig, pool, Daemon, held, Tracking, journal>>

\* by itself, on a signal, or without its parent
WorkerExits ==
    /\ Alive /\ worker' = "dead"
    /\ UNCHANGED <<fence, sig, pool, Daemon, held, Tracking, journal>>

\* the drive throws; its promises go on without it
Abandon ==
    /\ Thread /\ held /\ held' = FALSE
    /\ UNCHANGED <<fence, worker, sig, pool, Daemon, Tracking, journal>>

Crash ==
    /\ up /\ up' = FALSE
    /\ gen < MaxGen
    /\ pool' = IF pool = "idle" THEN "idle" ELSE "gone"
    /\ held' = FALSE
    /\ since' = "no" /\ sent' = "none" /\ drain' = "idle"
    /\ UNCHANGED <<fence, worker, sig, gen, journal, blind>>

Restart ==
    /\ ~up
    /\ up' = TRUE /\ gen' = gen + 1
    /\ UNCHANGED <<fence, worker, sig, pool, held, Tracking, journal, blind>>

Pool == \/ Arm \/ ArmFails \/ RunEnded \/ SetupEnds \/ Fork \/ Bind \/ BindFails
        \/ Finish \/ Closed \/ ClosedUnbound \/ Settle \/ Cleanup
Drain == DrainSignal \/ DrainDiscovers \/ DrainNone \/ DrainStable \/ DrainDead \/ DrainProof \/ DrainFinalize
Next == Claim \/ Pool \/ KillTimer \/ Drain \/ DrainUnknown \/ ScanInterval \/ GracePasses
        \/ Exec \/ WorkerExits \/ Abandon \/ Crash \/ Restart

\* A daemon's thread goes on, timers fire, a killed worker dies and a daemon
\* that died is started again.
Fairness ==
    /\ WF_vars(Pool) /\ WF_vars(KillTimer) /\ WF_vars(Drain) /\ WF_vars(ScanInterval)
    /\ WF_vars(GracePasses) /\ WF_vars(Exec) /\ WF_vars(Restart)
    /\ WF_vars(sig = "kill" /\ WorkerExits)

---------------------------------------------------------------------------
\* Types of the fence, the processes and the daemon's memory.
TypeOK ==
    /\ fence \in [phase : {"none", "armed", "active", "closed", "closed_no_spawn"}, owner : 0..MaxGen]
    /\ worker \in {"none", "forked", "up", "dead"} /\ sig \in {"none", "int", "kill"}
    /\ pool \in {"idle", "claimed", "setup", "spawned", "running", "closing", "killing", "result",
                 "cleanup", "gone"}
    /\ gen \in 1..MaxGen /\ blind \in 0..MaxBlind /\ up \in BOOLEAN /\ held \in BOOLEAN
    /\ since \in {"no", "fresh", "old"} /\ sent \in {"none", "int", "old", "kill"}
    /\ drain \in {"idle", "closed", "proved"} /\ journal \in {"none", "open", "proved"}

\* The close proof of an attempt is never journalled while a worker of it
\* lives, and none is forked for it afterwards.
ProofMeansGone == journal = "proved" => ~Alive

\* A tombstone tells the truth: under one that says closed the worker has run
\* and is dead; under one that says the path before the fork has ended, no
\* worker is running and none will be forked.
TombstoneTrue ==
    /\ fence.phase = "closed" => worker = "dead"
    /\ fence.phase = "closed_no_spawn" => ~Alive

\* A worker that lives has a fence by which a later daemon finds it.
NoUnfencedWorker == Alive => fence.phase \in {"armed", "active"}

\* Every dispatched attempt is closed in the end: by its pool, or by the drain
\* of a later daemon, whatever the worker does with SIGINT.
AttemptSettles == journal = "open" ~> journal = "proved"
=============================================================================
