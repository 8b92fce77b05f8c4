------------------------------ MODULE FileLock ------------------------------
(***************************************************************************)
(* withFileLock / withFileLockSync: the advisory lock that serialises      *)
(* read-modify-write of BotMux's shared JSON files between daemon          *)
(* processes. One path, any number of processes; every action is one       *)
(* system call (or a run of calls that no other process can tell apart     *)
(* from one), because processes interleave there.                          *)
(*                                                                         *)
(* A process that dies in the section leaves its lock file behind. Another *)
(* one breaks it: it hard-links the lock to a claim named after the inode  *)
(* it has observed, elects itself by publishing an owner file of the next  *)
(* epoch, checks the lock once more and unlinks it.                        *)
(*                                                                         *)
(* Time: the ages the code compares only delay a break, so "old enough" is *)
(* a free choice, with one exception. A lock whose holder is not written   *)
(* yet is taken for abandoned after a second; the code writes the holder   *)
(* right after the open, and the model takes it that a live writer does    *)
(* not need a second for that: an empty lock is breakable only when its    *)
(* creator is dead.                                                        *)
(***************************************************************************)
EXTENDS Naturals, FiniteSets

CONSTANTS
    Proc,       \* processes; a restarted process is another one (procStart)
    None,       \* no process
    MaxInode,   \* bound: lock files ever created
    MaxEpoch,   \* bound: owner epochs of one claim
    MaxCrash    \* bound: processes that die

\* What the constants have to be; MCFileLock assumes it.
FileLockAssumption ==
    MaxInode \in Nat /\ MaxEpoch \in Nat /\ MaxCrash \in Nat /\ None \notin Proc

VARIABLES
    public,     \* inode at <target>.lock, 0 when there is none
    holder,     \* per inode: the process written in it, None when empty
    maker,      \* per inode: the process that created it
    files,      \* inodes created so far
    claim,      \* per generation: inode at its stale-claim path, or 0
    owner,      \* per generation and epoch: process in the owner file, or None
    cand,       \* processes whose owner candidate file exists
    l,          \* locals of each process
    orphaned,   \* history: breakers whose owner file another process deleted
    crashes     \* history: processes that died

vars == <<public, holder, maker, files, claim, owner, cand, l, orphaned, crashes>>
disk == <<public, holder, maker, files, claim, owner, cand>>

Inodes == 1..MaxInode
Epochs == 0..MaxEpoch

PCs == {"idle", "try", "opened", "cs", "unlinkOwn", "read", "link", "lstatClaim", "readdir",
        "recheck", "publish", "published", "claimed", "pin", "pinned", "verify", "unlink",
        "dropClaim", "withdraw", "clean", "sweep", "wait", "dead"}

Idle == [pc |-> "idle", own |-> 0, obs |-> 0, made |-> FALSE, claim |-> 0, epoch |-> 0,
         pin |-> 0, nlink |-> 0, touched |-> FALSE, won |-> FALSE]

TypeOK ==
    /\ public \in 0..MaxInode /\ files \in 0..MaxInode
    /\ holder \in [Inodes -> Proc \cup {None}]
    /\ maker \in [Inodes -> Proc \cup {None}]
    /\ claim \in [Inodes -> 0..MaxInode]
    /\ owner \in [Inodes -> [Epochs -> Proc \cup {None}]]
    /\ cand \subseteq Proc /\ orphaned \subseteq Proc
    /\ crashes \in 0..MaxCrash
    /\ l \in [Proc -> [pc : PCs, own : 0..MaxInode, obs : 0..MaxInode, made : BOOLEAN,
                       claim : 0..MaxInode, epoch : Epochs, pin : 0..MaxInode,
                       nlink : 0..(MaxInode + 1), touched : BOOLEAN, won : BOOLEAN]]

Init ==
    /\ public = 0 /\ files = 0
    /\ holder = [i \in Inodes |-> None]
    /\ maker = [i \in Inodes |-> None]
    /\ claim = [i \in Inodes |-> 0]
    /\ owner = [i \in Inodes |-> [e \in Epochs |-> None]]
    /\ cand = {} /\ orphaned = {} /\ crashes = 0
    /\ l = [p \in Proc |-> Idle]

-----------------------------------------------------------------------------

At(p, pc) == l[p].pc = pc
Alive(p) == l[p].pc # "dead"

(* Links of an inode: the public path and the claims. *)
Nlink(i) == (IF public = i THEN 1 ELSE 0) + Cardinality({g \in Inodes : claim[g] = i})

(* The identity in the file is of a process that is gone, or there is none *)
(* and the second of grace is over.                                        *)
Breakable(i) == IF holder[i] = None THEN ~Alive(maker[i]) ELSE ~Alive(holder[i])

Step(p, r) == l' = [l EXCEPT ![p] = r]
Goto(p, pc) == Step(p, [l[p] EXCEPT !.pc = pc])

(* A link of inode i comes or goes: its ctime changes under whoever has it *)
(* open.                                                                   *)
StepTouching(p, r, i) ==
    l' = [q \in Proc |-> IF q = p THEN r
                         ELSE IF i # 0 /\ l[q].pin = i THEN [l[q] EXCEPT !.touched = TRUE]
                         ELSE l[q]]

Retry == [Idle EXCEPT !.pc = "try"]
Wait == [Idle EXCEPT !.pc = "wait"]

Call(p) ==
    /\ At(p, "idle") /\ files < MaxInode
    /\ Step(p, Retry)
    /\ UNCHANGED <<disk, orphaned, crashes>>

(* open(lockPath, 'wx') *)
OpenNew(p) ==
    /\ At(p, "try") /\ public = 0 /\ files < MaxInode
    /\ files' = files + 1
    /\ public' = files'
    /\ maker' = [maker EXCEPT ![files'] = p]
    /\ Step(p, [Idle EXCEPT !.pc = "opened", !.own = files'])
    /\ UNCHANGED <<holder, claim, owner, cand, orphaned, crashes>>

OpenExists(p) ==
    /\ At(p, "try") /\ public # 0
    /\ Goto(p, "read")
    /\ UNCHANGED <<disk, orphaned, crashes>>

(* writeFileSync(fh.fd, holderPayload), then the section *)
WriteHolder(p) ==
    /\ At(p, "opened")
    /\ holder' = [holder EXCEPT ![l[p].own] = p]
    /\ Goto(p, "cs")
    /\ UNCHANGED <<public, maker, files, claim, owner, cand, orphaned, crashes>>

(* releaseOwnedLock(lockPath, owned): lstat, then unlink of the same inode *)
ReleaseLstat(p) ==
    /\ At(p, "cs")
    /\ IF public = l[p].own THEN Goto(p, "unlinkOwn") ELSE Step(p, Idle)
    /\ UNCHANGED <<disk, orphaned, crashes>>

ReleaseUnlink(p) ==
    /\ At(p, "unlinkOwn")
    /\ public' = 0
    /\ StepTouching(p, Idle, public)
    /\ UNCHANGED <<holder, maker, files, claim, owner, cand, orphaned, crashes>>

-----------------------------------------------------------------------------
(* Somebody has the lock: read the holder and decide.                      *)

ReadGone(p) ==
    /\ At(p, "read") /\ public = 0
    /\ Step(p, Retry)
    /\ UNCHANGED <<disk, orphaned, crashes>>

ReadBreakable(p) ==
    /\ At(p, "read") /\ public # 0 /\ Breakable(public)
    /\ Step(p, [Idle EXCEPT !.pc = "link", !.obs = public])
    /\ UNCHANGED <<disk, orphaned, crashes>>

(* Held by a live process, too young, or changed while it was read. *)
ReadBusy(p) ==
    /\ At(p, "read") /\ public # 0
    /\ Step(p, Wait)
    /\ UNCHANGED <<disk, orphaned, crashes>>

(* maxWaitMs: the sleep of 25 to 50 ms, or FileLockTimeoutError *)
Sleep(p) ==
    /\ At(p, "wait")
    /\ Step(p, Retry)
    /\ UNCHANGED <<disk, orphaned, crashes>>

Timeout(p) ==
    /\ At(p, "wait")
    /\ Step(p, Idle)
    /\ UNCHANGED <<disk, orphaned, crashes>>

(* link(lockPath, stalePath): whatever inode is public now is pinned under *)
(* the generation that was observed.                                       *)
LinkGone(p) ==
    /\ At(p, "link") /\ public = 0
    /\ Step(p, Retry)
    /\ UNCHANGED <<disk, orphaned, crashes>>

LinkClaim(p) ==
    /\ At(p, "link") /\ public # 0 /\ claim[l[p].obs] = 0
    /\ claim' = [claim EXCEPT ![l[p].obs] = public]
    /\ StepTouching(p, [l[p] EXCEPT !.pc = "lstatClaim", !.made = TRUE], public)
    /\ UNCHANGED <<public, holder, maker, files, owner, cand, orphaned, crashes>>

LinkExists(p) ==
    /\ At(p, "link") /\ public # 0 /\ claim[l[p].obs] # 0
    /\ Goto(p, "lstatClaim")
    /\ UNCHANGED <<disk, orphaned, crashes>>

-----------------------------------------------------------------------------
(* tryAcquireStaleClaimOwnership                                           *)

LstatClaim(p) ==
    /\ At(p, "lstatClaim")
    /\ LET c == claim[l[p].obs] IN
       IF c = 0 THEN Step(p, Wait) ELSE Step(p, [l[p] EXCEPT !.pc = "readdir", !.claim = c])
    /\ UNCHANGED <<disk, orphaned, crashes>>

Published(g) == {e \in Epochs : owner[g][e] # None}
Latest(g) == CHOOSE e \in Published(g) : \A f \in Published(g) : f <= e

(* Mutant: the next epoch without asking whether the owner is alive. *)
ReaddirSteals(p) ==
    /\ At(p, "readdir")
    /\ LET g == l[p].obs IN
       \E e \in Epochs :
          /\ e = IF Published(g) = {} THEN 0 ELSE Latest(g) + 1
          /\ Step(p, [l[p] EXCEPT !.pc = "recheck", !.epoch = e])
    /\ cand' = cand \cup {p}
    /\ UNCHANGED <<public, holder, maker, files, claim, owner, orphaned, crashes>>

(* Nobody owns the claim: its creator goes on, another process once the    *)
(* claim is a second old. A dead owner is followed by the next epoch. The  *)
(* candidate file is written.                                              *)
Readdir(p) ==
    /\ At(p, "readdir")
    /\ LET g == l[p].obs IN
       \E e \in Epochs :
          /\ IF Published(g) = {} THEN e = 0
             ELSE ~Alive(owner[g][Latest(g)]) /\ e = Latest(g) + 1
          /\ Step(p, [l[p] EXCEPT !.pc = "recheck", !.epoch = e])
    /\ cand' = cand \cup {p}
    /\ UNCHANGED <<public, holder, maker, files, claim, owner, orphaned, crashes>>

(* A live owner, an owner that changed while it was read, or too early. *)
ReaddirBusy(p) ==
    /\ At(p, "readdir")
    /\ Published(l[p].obs) # {} \/ ~l[p].made
    /\ Step(p, Wait)
    /\ UNCHANGED <<disk, orphaned, crashes>>

(* The claim is still the one it has seen. *)
Recheck(p) ==
    /\ At(p, "recheck")
    /\ IF claim[l[p].obs] = l[p].claim
       THEN Goto(p, "publish") /\ cand' = cand
       ELSE Step(p, Wait) /\ cand' = cand \ {p}
    /\ UNCHANGED <<public, holder, maker, files, claim, owner, orphaned, crashes>>

(* link(candidatePath, ownerPath) does not overwrite; the candidate may    *)
(* have been swept by a cleaner.                                           *)
Publish(p) ==
    /\ At(p, "publish")
    /\ LET g == l[p].obs  e == l[p].epoch IN
       IF p \in cand /\ owner[g][e] = None
       THEN /\ owner' = [owner EXCEPT ![g][e] = p]
            /\ Goto(p, "published")
            /\ cand' = cand
       ELSE /\ Step(p, Wait)
            /\ cand' = cand \ {p}
            /\ owner' = owner
    /\ UNCHANGED <<public, holder, maker, files, claim, orphaned, crashes>>

(* releaseOwnedLock on the owner file and on the candidate. *)
Disown(p) ==
    /\ cand' = cand \ {p}
    /\ owner' = [owner EXCEPT ![l[p].obs][l[p].epoch] = IF @ = p THEN None ELSE @]

Elected(p) ==
    /\ At(p, "published")
    /\ owner[l[p].obs][l[p].epoch] = p /\ claim[l[p].obs] = l[p].claim
    /\ Goto(p, "claimed")
    /\ UNCHANGED <<disk, orphaned, crashes>>

AbandonCandidate(p) ==
    /\ At(p, "published")
    /\ ~(owner[l[p].obs][l[p].epoch] = p /\ claim[l[p].obs] = l[p].claim)
    /\ Disown(p)
    /\ Step(p, Wait)
    /\ UNCHANGED <<public, holder, maker, files, claim, orphaned, crashes>>

-----------------------------------------------------------------------------
(* resumeStaleBreak                                                        *)

(* An error leaves the claim and withdraws the epoch: the caller sees the  *)
(* exception.                                                              *)
Throw(p) ==
    /\ Disown(p)
    /\ Step(p, Idle)
    /\ UNCHANGED <<public, holder, maker, files, claim, orphaned, crashes>>

(* The claim must pin the inode that was observed. *)
CheckClaim(p) ==
    /\ At(p, "claimed") /\ claim[l[p].obs] # 0
    /\ Step(p, [l[p] EXCEPT !.pc = IF claim[l[p].obs] = l[p].obs THEN "pin" ELSE "withdraw",
                            !.claim = claim[l[p].obs]])
    /\ UNCHANGED <<disk, orphaned, crashes>>

ClaimGone(p) ==
    /\ At(p, "claimed") /\ claim[l[p].obs] = 0
    /\ Throw(p)

(* readPinnedHolder(lockPath): the first stat ... *)
Pin(p) ==
    /\ At(p, "pin")
    /\ IF public = 0
       THEN Goto(p, "dropClaim")
       ELSE Step(p, [l[p] EXCEPT !.pc = "pinned", !.pin = public, !.nlink = Nlink(public),
                                 !.touched = FALSE])
    /\ UNCHANGED <<disk, orphaned, crashes>>

Stable(p) == public = l[p].pin /\ Nlink(l[p].pin) = l[p].nlink

(* ... and the last: the same file, with the same links, and still dead. *)
PinStale(p) ==
    /\ At(p, "pinned") /\ Stable(p)
    /\ l[p].pin = l[p].obs /\ Breakable(l[p].pin)
    /\ Goto(p, "verify")
    /\ UNCHANGED <<disk, orphaned, crashes>>

PinNewer(p) ==
    /\ At(p, "pinned") /\ Stable(p) /\ l[p].pin # l[p].obs
    /\ Goto(p, "dropClaim")
    /\ UNCHANGED <<disk, orphaned, crashes>>

PinTransient(p) ==
    /\ At(p, "pinned")
    /\ ~Stable(p) \/ (l[p].pin = l[p].obs /\ ~Breakable(l[p].pin))
    /\ Goto(p, "withdraw")
    /\ UNCHANGED <<disk, orphaned, crashes>>

(* Same number of links but another ctime, if the clock shows it: integrity error *)
PinUntrusted(p) ==
    /\ At(p, "pinned") /\ Stable(p) /\ l[p].touched
    /\ Throw(p)

(* unlinkUnchangedPinnedPath: lstat ... *)
Verify(p) ==
    /\ At(p, "verify")
    /\ \/ Stable(p) /\ Goto(p, "unlink")
       \/ (~Stable(p) \/ l[p].touched) /\ Goto(p, "withdraw")
    /\ UNCHANGED <<disk, orphaned, crashes>>

(* ... and unlink, of whatever has the public name by now. *)
UnlinkStale(p) ==
    /\ At(p, "unlink") /\ public # 0
    /\ public' = 0
    /\ StepTouching(p, [l[p] EXCEPT !.pc = "dropClaim", !.pin = 0], public)
    /\ UNCHANGED <<holder, maker, files, claim, owner, cand, orphaned, crashes>>

UnlinkGone(p) ==
    /\ At(p, "unlink") /\ public = 0
    /\ Throw(p)

(* releaseOwnedLock(claimPath, claim) *)
DropClaim(p) ==
    /\ l[p].pc \in {"dropClaim", "withdraw"}
    /\ LET g == l[p].obs
           mine == claim[g] = l[p].claim
       IN /\ claim' = IF mine THEN [claim EXCEPT ![g] = 0] ELSE claim
          /\ StepTouching(p, [l[p] EXCEPT !.pc = "clean", !.pin = 0, !.nlink = 0, !.touched = FALSE,
                                          !.won = At(p, "dropClaim")],
                          IF mine THEN claim[g] ELSE 0)
    /\ UNCHANGED <<public, holder, maker, files, owner, cand, orphaned, crashes>>

(* cleanStaleClaimOwnership: its own epoch first ... *)
Clean(p) ==
    /\ At(p, "clean")
    /\ Disown(p)
    /\ Goto(p, "sweep")
    /\ UNCHANGED <<public, holder, maker, files, claim, orphaned, crashes>>

Acting == {"claimed", "pin", "pinned", "verify", "unlink", "dropClaim", "withdraw"}

(* ... then every owner and candidate file of the generation, by name. *)
Sweep(p) ==
    /\ At(p, "sweep")
    /\ LET g == l[p].obs
           gone == {q \in Proc : \E e \in Epochs : owner[g][e] = q}
       IN /\ owner' = [owner EXCEPT ![g] = [e \in Epochs |-> None]]
          /\ cand' = cand \ {q \in Proc : l[q].obs = g}
          /\ orphaned' = orphaned \cup {q \in gone : l[q].pc \in Acting}
    /\ Step(p, IF l[p].won THEN Retry ELSE Wait)
    /\ UNCHANGED <<public, holder, maker, files, claim, crashes>>

-----------------------------------------------------------------------------

Crash(p) ==
    /\ l[p].pc \notin {"idle", "dead"} /\ crashes < MaxCrash
    /\ crashes' = crashes + 1
    /\ Step(p, [Idle EXCEPT !.pc = "dead", !.obs = l[p].obs])
    /\ UNCHANGED <<disk, orphaned>>

Work(p) ==
    \/ OpenNew(p) \/ OpenExists(p) \/ WriteHolder(p) \/ ReleaseLstat(p) \/ ReleaseUnlink(p)
    \/ ReadGone(p) \/ ReadBreakable(p) \/ ReadBusy(p) \/ Sleep(p)
    \/ LinkGone(p) \/ LinkClaim(p) \/ LinkExists(p)
    \/ LstatClaim(p) \/ Readdir(p) \/ ReaddirBusy(p) \/ Recheck(p) \/ Publish(p)
    \/ Elected(p) \/ AbandonCandidate(p)
    \/ CheckClaim(p) \/ ClaimGone(p) \/ Pin(p) \/ PinStale(p) \/ PinNewer(p)
    \/ PinTransient(p) \/ PinUntrusted(p) \/ Verify(p) \/ UnlinkStale(p) \/ UnlinkGone(p)
    \/ DropClaim(p) \/ Clean(p) \/ Sweep(p)

Next == \E p \in Proc : Call(p) \/ Work(p) \/ Timeout(p) \/ Crash(p)

Spec == Init /\ [][Next]_vars

-----------------------------------------------------------------------------

InSection == {"opened", "cs", "unlinkOwn"}

(* Mutual exclusion: at most one live process is between its O_EXCL open   *)
(* and its unlink, whoever dies where. Two deaths and a breaker delayed    *)
(* for more than a second defeat it.                                       *)
MutualExclusion ==
    \A p, q \in Proc : l[p].pc \in InSection /\ l[q].pc \in InSection => p = q

(* "without reusing or deleting an active owner's pathname": nobody        *)
(* deletes the owner file of a breaker that still acts on it. Sweep does.  *)
OwnerKept == orphaned = {}

(* Only a deleted owner file costs the exclusion: while every acting       *)
(* breaker still has its file, there is one process in the section, and    *)
(* what it is about to unlink is its own lock.                             *)
ExclusionWhileOwnersKept ==
    orphaned = {} =>
       /\ MutualExclusion
       /\ \A p \in Proc : l[p].pc \in InSection => public = l[p].own

(* One breaker per generation: as long as no owner file was deleted, the   *)
(* process that is about to unlink the public lock is the highest epoch of *)
(* its claim, and no other process is that far with the same claim.        *)
OneBreaker ==
    orphaned = {} =>
       \A p \in Proc : At(p, "unlink") =>
          /\ owner[l[p].obs][l[p].epoch] = p
          /\ \A q \in Proc \ {p} : At(q, "unlink") => l[q].obs # l[p].obs

(* A single death is always survived: the lock of the dead holder is       *)
(* broken without ever letting two processes in.                           *)
OneDeathSurvived == crashes <= 1 => MutualExclusion

Waiting == {"try", "read", "wait"}

(* Every process runs on; time passes, so that an age that delays a break  *)
(* is enough in the end.                                                   *)
FairSpec ==
    /\ Spec
    /\ \A p \in Proc : /\ WF_vars(Work(p))
                        /\ SF_vars(ReadBreakable(p))
                        /\ SF_vars(Readdir(p))

(* No wedge: when a process waits for the lock of a dead one, the lock is  *)
(* broken, or the process gives up with an error.                          *)
StaleLockGoes ==
    \A p \in Proc : \A i \in Inodes :
       (l[p].pc \in Waiting /\ public = i /\ Breakable(i)) ~>
          (public # i \/ l[p].pc \in {"idle", "dead"})
=============================================================================
