---------------------------- MODULE StoresProofs ----------------------------
(***************************************************************************)
(* The backend's stores keep their promises for every number of clients,   *)
(* plans, days, documents, packages and requests: the learning plans       *)
(* (MarksKept), the directory of a skill (SkillsWhole, RejectionHarmless)  *)
(* and the knowledge store (StoresInStep, RankedWell).                     *)
(*                                                                         *)
(* The plans: PlansInv adds what a mark that is under way knows. The       *)
(* skills: SkillInv says of the installed directory that it is whole or    *)
(* that one of those who remove it has exactly what is left on its list;   *)
(* as both go through a listing in the same order, that one cannot fail.   *)
(* The documents: KnowInv says what an upload and a search that are under  *)
(* way may rely on. Its lemmas show of the operators of the search, for    *)
(* every two rankings, that the fused one is ordered by score and that the *)
(* limit leaves each document its share; they count places, since what the *)
(* provers lack is induction.                                              *)
(***************************************************************************)
EXTENDS MCStores, Integers, Sequences, FiniteSets, FiniteSetTheorems, WellFoundedInduction,
        TLAPS

-----------------------------------------------------------------------------
(* The record of a mark.                                                    *)
MarkRec == [pc : {"idle", "write"}, plan : 0..MaxPlans, read : SUBSET Days,
            day : Days \cup {0}, done : BOOLEAN]

(* A mark that is under way was read from a plan that exists, and all it    *)
(* read has been marked.                                                    *)
MarkSound(k, sv, ev) ==
    k.pc = "write" => k.plan \in 1..sv /\ k.day \in Days /\ k.read \subseteq ev[k.plan]

(* The inductive invariant of the plans. While no two marks overlap, one at *)
(* most is under way and it holds what its plan holds.                      *)
PlansInv ==
    /\ items \in [P!PlanIds -> SUBSET Days] /\ saved \in 0..MaxPlans
    /\ client \in [Clients -> MarkRec] /\ \A c \in Clients : client[c].plan <= saved
    /\ asked \in [P!PlanIds -> [Days -> BOOLEAN]] /\ ever \in [P!PlanIds -> SUBSET Days]
    /\ overlap \in BOOLEAN /\ marks \in 0..MaxMarks
    /\ active = {} \/ (\E p \in 1..saved : active = {p})
    /\ \A c \in Clients : MarkSound(client[c], saved, ever)
    /\ P!OnlyMarked /\ P!MarkHoldsAlone
    /\ ~overlap => \A c \in Clients : client[c].pc = "write" =>
                      /\ client[c].read = items[client[c].plan]
                      /\ \A b \in Clients : client[b].pc = "write" => b = c

(* A client at rest.                                                        *)
LEMMA IdleMark ==
    ASSUME P!PlansAssumption
    PROVE  P!Idle \in MarkRec /\ P!Idle.pc = "idle" /\ P!Idle.plan = 0
  BY DEF P!PlansAssumption, P!Idle, MarkRec

(* No plan, no mark.                                                        *)
LEMMA PlansInit ==
    ASSUME P!PlansAssumption, P!Init
    PROVE  PlansInv
<1>1. /\ items = [p \in P!PlanIds |-> {}] /\ active = {} /\ saved = 0
      /\ client = [c \in Clients |-> P!Idle]
      /\ asked = [p \in P!PlanIds |-> [d \in Days |-> FALSE]]
      /\ ever = [p \in P!PlanIds |-> {}] /\ overlap = FALSE /\ marks = 0
  BY DEF P!Init
<1>2. client \in [Clients -> MarkRec] /\ \A c \in Clients : client[c].pc = "idle" /\ client[c].plan = 0
  BY <1>1, IdleMark
<1>3. \A p \in P!PlanIds : items[p] = {} /\ ever[p] = {} /\ \A d \in Days : ~asked[p][d]
  BY <1>1
<1>4. P!OnlyMarked /\ P!MarkHoldsAlone
  BY <1>3 DEF P!OnlyMarked, P!MarkHoldsAlone, P!MarkHolds
<1>5. \A c \in Clients : MarkSound(client[c], saved, ever)
  BY <1>2 DEF MarkSound
<1>6. /\ items \in [P!PlanIds -> SUBSET Days] /\ ever \in [P!PlanIds -> SUBSET Days]
      /\ asked \in [P!PlanIds -> [Days -> BOOLEAN]]
  BY <1>1
<1>7. saved = 0 /\ marks = 0 /\ active = {}
  BY <1>1
<1>8. saved \in 0..MaxPlans /\ marks \in 0..MaxMarks
  BY <1>7 DEF P!PlansAssumption
<1>9. overlap \in BOOLEAN
  BY <1>1, Zenon
<1>10. ASSUME NEW c \in Clients PROVE client[c].plan <= saved /\ client[c].pc # "write"
  <2>1. client[c].plan = 0 /\ client[c].pc = "idle"
    BY <1>2
  <2>2. 0 <= 0
    OBVIOUS
  <2> QED BY <1>7, <2>1, <2>2
<1> QED BY <1>2, <1>4, <1>5, <1>6, <1>7, <1>8, <1>9, <1>10 DEF PlansInv

(* A new plan takes over; no mark changes its plan.                         *)
LEMMA SavePlanStep ==
    ASSUME P!PlansAssumption, PlansInv, P!SavePlan
    PROVE  PlansInv'
<1>1. /\ saved < MaxPlans /\ saved' = saved + 1 /\ active' = {saved + 1}
      /\ items' = items /\ client' = client /\ asked' = asked /\ ever' = ever
      /\ overlap' = overlap /\ marks' = marks
  BY DEF P!SavePlan
<1>2. saved' \in 0..MaxPlans /\ saved + 1 \in 1..saved' /\ \A c \in Clients : client'[c].plan <= saved'
  <2>1. \A c \in Clients : client[c].plan \in 0..MaxPlans
    BY DEF PlansInv, MarkRec
  <2> QED BY <1>1, <2>1 DEF PlansInv, P!PlansAssumption
<1>3. \A c \in Clients : MarkSound(client'[c], saved', ever')
  BY <1>1 DEF PlansInv, MarkSound
<1>4. P!OnlyMarked' /\ P!MarkHoldsAlone'
  BY <1>1 DEF PlansInv, P!OnlyMarked, P!MarkHoldsAlone, P!MarkHolds
<1> QED BY <1>1, <1>2, <1>3, <1>4 DEF PlansInv

(* A mark reads the active plan. It is alone, or an overlap is noted.       *)
LEMMA ReadPlanStep ==
    ASSUME P!PlansAssumption, PlansInv, NEW c \in Clients, NEW d \in Days, NEW done \in BOOLEAN,
           P!ReadPlan(c, d, done)
    PROVE  PlansInv'
<1>1. PICK p \in active : client' = [client EXCEPT ![c] =
             [pc |-> "write", plan |-> p, read |-> items[p], day |-> d, done |-> done]]
  BY Zenon DEF P!ReadPlan
<1> DEFINE k == [pc |-> "write", plan |-> p, read |-> items[p], day |-> d, done |-> done]
<1>2. /\ client[c].pc = "idle" /\ marks < MaxMarks /\ marks' = marks + 1
      /\ overlap' = (overlap \/ \E b \in Clients : client[b].pc = "write")
      /\ items' = items /\ active' = active /\ saved' = saved /\ asked' = asked /\ ever' = ever
  BY DEF P!ReadPlan
<1>3. p \in 1..saved /\ p \in P!PlanIds /\ p \in 0..MaxPlans /\ p <= saved
  BY DEF PlansInv, P!PlanIds, P!PlansAssumption
<1>4. items[p] \subseteq ever[p] /\ items[p] \subseteq Days
  BY <1>3 DEF PlansInv, P!OnlyMarked
<1>5. k \in MarkRec /\ k.pc = "write" /\ k.plan = p /\ k.read = items[p] /\ k.day = d
  BY <1>3, <1>4 DEF MarkRec
<1>6. client' = [client EXCEPT ![c] = k]
  BY <1>1
<1> HIDE DEF k
<1>7. client' \in [Clients -> MarkRec] /\ client'[c] = k /\ \A b \in Clients : b # c => client'[b] = client[b]
  BY <1>5, <1>6 DEF PlansInv
<1>8. \A b \in Clients : client'[b].plan <= saved'
  BY <1>2, <1>3, <1>5, <1>7 DEF PlansInv
<1>9. \A b \in Clients : MarkSound(client'[b], saved', ever')
  BY <1>2, <1>3, <1>4, <1>5, <1>7 DEF PlansInv, MarkSound
<1>10. overlap' \in BOOLEAN /\ marks' \in 0..MaxMarks
  BY <1>2 DEF PlansInv, P!PlansAssumption
<1>11. overlap => overlap'
  BY <1>2
<1>12. P!OnlyMarked' /\ P!MarkHoldsAlone'
  BY <1>2, <1>11 DEF PlansInv, P!OnlyMarked, P!MarkHoldsAlone, P!MarkHolds
<1>13. ~overlap' => \A b \in Clients : client'[b].pc = "write" =>
                      /\ client'[b].read = items'[client'[b].plan]
                      /\ \A a \in Clients : client'[a].pc = "write" => a = b
  <2>1. ~overlap' => ~overlap /\ \A b \in Clients : client[b].pc # "write"
    BY <1>2
  <2> QED BY <1>2, <1>5, <1>7, <2>1
<1> QED BY <1>2, <1>7, <1>8, <1>9, <1>10, <1>12, <1>13 DEF PlansInv

(* A mark writes the plan it read, whatever has become active since.        *)
LEMMA WritePlanStep ==
    ASSUME P!PlansAssumption, PlansInv, NEW c \in Clients, P!WritePlan(c)
    PROVE  PlansInv'
<1> DEFINE k == client[c]
           p == client[c].plan
           day == client[c].day
           new == P!Changed(c)
           e == IF k.done THEN ever[p] \cup {day} ELSE ever[p]
           q == [asked[p] EXCEPT ![day] = k.done]
<1>1. /\ k.pc = "write" /\ active' = active /\ saved' = saved /\ overlap' = overlap /\ marks' = marks
      /\ items' = [items EXCEPT ![p] = new]
      /\ asked' = [asked EXCEPT ![p] = q]
      /\ ever' = [ever EXCEPT ![p] = e]
      /\ client' = [client EXCEPT ![c] = P!Idle]
  BY DEF P!WritePlan
<1>2. k \in MarkRec /\ p \in 1..saved /\ p \in P!PlanIds /\ day \in Days /\ k.read \subseteq ever[p]
  BY <1>1 DEF PlansInv, MarkSound, P!PlanIds, P!PlansAssumption
<1>3. /\ new = (IF k.done THEN k.read \cup {day} ELSE k.read \ {day})
      /\ k.done \in BOOLEAN /\ k.read \subseteq Days /\ ever[p] \subseteq Days
      /\ asked[p] \in [Days -> BOOLEAN]
  BY <1>2 DEF P!Changed, PlansInv, MarkRec
<1>4. new \subseteq e /\ e \subseteq Days /\ ever[p] \subseteq e /\ q \in [Days -> BOOLEAN]
  BY <1>2, <1>3
<1>5. \A d \in Days : q[d] = IF d = day THEN k.done ELSE asked[p][d]
  BY <1>2, <1>3
<1>6. new \in SUBSET Days
  BY <1>4
<1> HIDE DEF new, e, q
<1>7. /\ items' \in [P!PlanIds -> SUBSET Days] /\ ever' \in [P!PlanIds -> SUBSET Days]
      /\ asked' \in [P!PlanIds -> [Days -> BOOLEAN]]
      /\ items'[p] = new /\ ever'[p] = e /\ asked'[p] = q
      /\ \A r \in P!PlanIds : r # p => items'[r] = items[r] /\ ever'[r] = ever[r] /\ asked'[r] = asked[r]
  BY <1>1, <1>2, <1>4, <1>6 DEF PlansInv
<1>8. /\ client' \in [Clients -> MarkRec] /\ client'[c].pc = "idle" /\ client'[c].plan = 0
      /\ \A b \in Clients : b # c => client'[b] = client[b]
  BY <1>1, IdleMark DEF PlansInv
<1>9. P!OnlyMarked'
  BY <1>4, <1>7 DEF PlansInv, P!OnlyMarked, P!PlanIds
<1>10. ASSUME ~overlap PROVE P!MarkHolds'
  <2>1. \A r \in P!PlanIds : items[r] = {d \in Days : asked[r][d]}
    BY <1>10 DEF PlansInv, P!MarkHoldsAlone, P!MarkHolds
  <2>2. k.read = items[p]
    BY <1>1, <1>10 DEF PlansInv
  <2>3. new = {d \in Days : q[d]}
    BY <1>2, <1>3, <1>5, <2>1, <2>2
  <2> QED BY <1>7, <2>1, <2>3 DEF P!MarkHolds, P!PlanIds
<1>11. \A b \in Clients : client'[b].plan <= saved'
  BY <1>1, <1>8 DEF PlansInv
<1>12. \A b \in Clients : MarkSound(client'[b], saved', ever')
  <2> SUFFICES ASSUME NEW b \in Clients, client'[b].pc = "write"
               PROVE  /\ client'[b].plan \in 1..saved' /\ client'[b].day \in Days
                      /\ client'[b].read \subseteq ever'[client'[b].plan]
    BY DEF MarkSound
  <2>1. client'[b] = client[b]
    BY <1>8
  <2>2. client[b].plan \in 1..saved /\ client[b].day \in Days /\ client[b].read \subseteq ever[client[b].plan]
    BY <2>1 DEF PlansInv, MarkSound
  <2>3. client[b].plan \in P!PlanIds
    BY <2>2 DEF PlansInv, P!PlanIds, P!PlansAssumption
  <2> QED BY <1>1, <1>4, <1>7, <2>1, <2>2, <2>3
<1>13. ~overlap' => \A b \in Clients : client'[b].pc # "write"
  <2>1. ~overlap => \A b \in Clients : client[b].pc = "write" => b = c
    BY <1>1 DEF PlansInv
  <2> QED BY <1>1, <1>8, <2>1
<1> QED BY <1>1, <1>7, <1>8, <1>9, <1>10, <1>11, <1>12, <1>13 DEF PlansInv, P!MarkHoldsAlone

(* A process ends between its read and its write.                           *)
LEMMA DieStep ==
    ASSUME P!PlansAssumption, PlansInv, NEW c \in Clients, P!Die(c)
    PROVE  PlansInv'
<1>1. /\ client' = [client EXCEPT ![c] = P!Idle]
      /\ items' = items /\ active' = active /\ saved' = saved /\ asked' = asked /\ ever' = ever
      /\ overlap' = overlap /\ marks' = marks
  BY DEF P!Die
<1>2. /\ client' \in [Clients -> MarkRec] /\ client'[c].pc = "idle" /\ client'[c].plan = 0
      /\ \A b \in Clients : b # c => client'[b] = client[b]
  BY <1>1, IdleMark DEF PlansInv
<1>3. P!OnlyMarked' /\ P!MarkHoldsAlone'
  BY <1>1 DEF PlansInv, P!OnlyMarked, P!MarkHoldsAlone, P!MarkHolds
<1>4. \A b \in Clients : MarkSound(client'[b], saved', ever') /\ client'[b].plan <= saved'
  BY <1>1, <1>2 DEF PlansInv, MarkSound
<1>5. ~overlap' => \A b \in Clients : client'[b].pc = "write" =>
                      /\ client'[b].read = items'[client'[b].plan]
                      /\ \A a \in Clients : client'[a].pc = "write" => a = b
  BY <1>1, <1>2 DEF PlansInv
<1> QED BY <1>1, <1>2, <1>3, <1>4, <1>5 DEF PlansInv

(* The plans' invariant is inductive.                                       *)
LEMMA PlansStep ==
    ASSUME P!PlansAssumption, PlansInv, P!Next
    PROVE  PlansInv'
  BY SavePlanStep, ReadPlanStep, WritePlanStep, DieStep, Zenon DEF P!Next

(* The plans at rest.                                                       *)
LEMMA PlansStutter ==
    ASSUME PlansInv, UNCHANGED plans
    PROVE  PlansInv'
<1>1. /\ items' = items /\ active' = active /\ saved' = saved /\ client' = client /\ asked' = asked
      /\ ever' = ever /\ overlap' = overlap /\ marks' = marks
  BY DEF plans
<1>2. P!OnlyMarked' /\ P!MarkHoldsAlone'
  BY <1>1 DEF PlansInv, P!OnlyMarked, P!MarkHoldsAlone, P!MarkHolds
<1> QED BY <1>1, <1>2, Zenon DEF PlansInv, MarkSound

(* It gives what is checked of the plans.                                   *)
LEMMA PlansInvMarks ==
    ASSUME P!PlansAssumption, PlansInv
    PROVE  PlanMarks
<1>1. P!Cardinality(active) <= 1
  <2>1. P!Cardinality(active) = Cardinality(active)
    BY DEF P!Cardinality, Cardinality
  <2>2. Cardinality(active) = 0 \/ Cardinality(active) = 1
    BY FS_EmptySet, FS_Singleton DEF PlansInv
  <2> QED BY <2>1, <2>2
<1>2. active \subseteq 1..saved
  BY DEF PlansInv
<1>3. ASSUME NEW c \in Clients PROVE client[c].plan \in 0..saved /\ client[c].read \subseteq Days
  <2>1. client[c] \in MarkRec /\ client[c].plan <= saved /\ saved \in 0..MaxPlans
    BY DEF PlansInv
  <2>2. client[c].plan \in 0..MaxPlans /\ client[c].read \subseteq Days
    BY <2>1 DEF MarkRec
  <2> QED BY <2>1, <2>2 DEF P!PlansAssumption
<1> QED BY <1>1, <1>2, <1>3 DEF PlansInv, PlanMarks, P!TypeOK

(* A day is done only if that day of that plan was marked, whatever plans   *)
(* are saved, clients die and marks interleave, and an answered mark holds  *)
(* while marks do not overlap; for every number of clients, plans and days. *)
THEOREM MarksKept == Spec => []PlanMarks
<1> USE StoresAssumption
<1>1. Init => PlansInv
  BY PlansInit DEF Init
<1>2. PlansInv /\ [Next]_vars => PlansInv'
  BY PlansStep, PlansStutter DEF Next, vars
<1>3. PlansInv => PlanMarks
  BY PlansInvMarks
<1> QED BY <1>1, <1>2, <1>3, PTL DEF Spec

-----------------------------------------------------------------------------
(* Files that can be in a directory: none of a refused suffix.              *)
Stored == S!Names \ {"odd"}

(* The records of manifests, uploads and removals, toggles, and counts.     *)
ManRec == [of : Packages \cup {NoPackage}, on : BOOLEAN]
WorkRec == [pc : {"idle", "copy", "write", "written", "replace", "rmtree", "rename", "cleanup"},
            dir : 0..MaxInstalls, old : 0..MaxInstalls, todo : SUBSET S!Names]
ToggleRec == [pc : {"idle", "read", "open"}, held : Packages \cup {NoPackage}, on : BOOLEAN]
CountRec == [installs : 0..MaxInstalls, toggles : Nat, deletes : Nat]

(* Types, with the shapes of the records.                                   *)
SkillTypes ==
    /\ pkg \in [S!Dirs -> Packages \cup {NoPackage}]
    /\ place \in [S!Dirs -> {"none", "temp", "dest"}]
    /\ files \in [S!Dirs -> SUBSET Stored]
    /\ man \in [S!Dirs -> ManRec]
    /\ loop \in WorkRec /\ delete \in WorkRec /\ delete.pc \in {"idle", "rmtree"}
    /\ toggle \in ToggleRec /\ run.pc \in {"idle", "matched"}
    /\ count \in CountRec /\ crashes \in Nat /\ mixed \in BOOLEAN

(* Directories are numbered as uploads make them.                           *)
Fresh == \A d \in S!Dirs : d > count.installs => place[d] = "none" /\ files[d] = {}

(* The stages of an upload that has passed its checks.                      *)
Passed == {"write", "written", "replace", "rmtree", "rename"}

(* Where an upload is, with the package, files and manifest of its          *)
(* directory: it is whole before anything installed is touched.             *)
Stage(w, p, F, m) ==
    /\ p \in Packages
    /\ w.pc = "copy" => /\ w.todo \subseteq Ships[p] /\ F = Ships[p] \ w.todo
                        /\ "manifest" \in F => m.of = p
    /\ w.pc \in Passed => F = Ships[p] /\ {"SKILL"} \cup Refs[p] \subseteq F
    /\ w.pc \in {"replace", "rmtree", "rename"} => m.of = p

(* The directory of an upload is its own, and not yet installed.            *)
Uploading ==
    loop.pc # "idle" =>
        /\ loop.dir \in 1..count.installs /\ place[loop.dir] = "temp"
        /\ Stage(loop, pkg[loop.dir], files[loop.dir], man[loop.dir])
        /\ loop.pc = "rename" => S!Dest = {}

(* What is being removed was installed.                                     *)
Removing(w) ==
    w.pc = "rmtree" => w.old \in 1..count.installs /\ place[w.old] # "temp" /\ w.todo \subseteq Stored

(* The rest T of a listing and the files F that are left: what is gone      *)
(* comes before what is left.                                               *)
Follows(T, F) ==
    F \subseteq T /\ \A f \in F : \A g \in T \ F : ListOrder[g] < ListOrder[f]

(* w removes directory d.                                                   *)
Removes(w, d) == w.pc = "rmtree" /\ w.old = d

(* A whole directory, but for a toggle that writes its manifest.            *)
Sound(p, F, m, t) ==
    /\ {"manifest", "SKILL"} \cup Refs[p] \subseteq F
    /\ t.pc # "open" => m.of = p
    /\ t.pc # "idle" => t.held = p

(* The installed directory d: it is whole, or one of those who remove it    *)
(* has all that is left of it still to remove, and so will not fail.        *)
Standing(d, p, F, m, t, w, x) ==
    /\ p \in Packages
    /\ Removes(w, d) => Follows(w.todo, F)
    /\ Removes(x, d) => Follows(x.todo, F)
    /\ \/ Sound(p, F, m, t)
       \/ Removes(w, d) /\ w.todo = F
       \/ Removes(x, d) /\ x.todo = F

(* As long as the process lives and no toggle overlaps another request.     *)
Installed ==
    crashes = 0 /\ ~mixed =>
        \A d \in S!Dest : Standing(d, pkg[d], files[d], man[d], toggle, loop, delete)

(* One directory has the skill's name.                                      *)
OneDest == \A d, e \in S!Dest : d = e

(* What `mixed` records.                                                    *)
Apart == ~mixed /\ toggle.pc # "idle" => loop.pc = "idle" /\ delete.pc = "idle"

(* The inductive invariant of the skills directory.                         *)
SkillInv ==
    /\ SkillTypes /\ Fresh /\ Uploading /\ Removing(loop) /\ Removing(delete)
    /\ Installed /\ OneDest /\ Apart /\ S!NoLeftovers

-----------------------------------------------------------------------------
(* The constant records have their types.                                   *)
LEMMA SkillConstants ==
    ASSUME S!SkillAssumption
    PROVE  /\ S!Resting \in WorkRec /\ S!Resting.pc = "idle"
           /\ S!NoToggle \in ToggleRec /\ S!NoToggle.pc = "idle"
           /\ S!NoMan \in ManRec /\ S!NoRun.pc = "idle"
           /\ 0 \in 0..MaxInstalls
<1>1. 0 \in 0..MaxInstalls
  BY DEF S!SkillAssumption
<1>2. S!Resting \in WorkRec /\ S!Resting.pc = "idle"
  BY <1>1 DEF S!Resting, WorkRec
<1>3. S!NoToggle \in ToggleRec /\ S!NoToggle.pc = "idle"
  BY DEF S!NoToggle, ToggleRec
<1>4. S!NoMan \in ManRec /\ S!NoRun.pc = "idle"
  BY DEF S!NoMan, ManRec, S!NoRun
<1> QED BY <1>1, <1>2, <1>3, <1>4

(* An entry of an upload or a removal with another stage.                   *)
LEMMA WithStage ==
    ASSUME NEW w \in WorkRec, NEW pc \in {"write", "written", "replace", "rename", "cleanup"}
    PROVE  LET x == [w EXCEPT !.pc = pc]
           IN  x \in WorkRec /\ x.pc = pc /\ x.dir = w.dir /\ x.old = w.old /\ x.todo = w.todo
  BY DEF WorkRec

(* An entry of an upload or a removal with one file fewer to do.            *)
LEMMA WithoutFile ==
    ASSUME NEW w \in WorkRec, NEW f
    PROVE  LET x == [w EXCEPT !.todo = w.todo \ {f}]
           IN  x \in WorkRec /\ x.pc = w.pc /\ x.dir = w.dir /\ x.old = w.old /\ x.todo = w.todo \ {f}
<1>1. w.todo \ {f} \in SUBSET S!Names
  BY DEF WorkRec
<1> QED BY <1>1 DEF WorkRec

(* A step that leaves what is installed as it was, and neither begins, nor  *)
(* goes on with, nor ends a removal of it.                                  *)
LEMMA InstalledFrame ==
    ASSUME SkillInv,
           crashes' = 0 /\ ~mixed' => crashes = 0 /\ ~mixed,
           S!Dest' \subseteq S!Dest,
           \A d \in S!Dest : pkg'[d] = pkg[d] /\ files'[d] = files[d] /\ man'[d] = man[d],
           toggle' = toggle,
           loop' = loop \/ (loop.pc # "rmtree" /\ loop'.pc # "rmtree"),
           delete' = delete \/ (delete.pc # "rmtree" /\ delete'.pc # "rmtree")
    PROVE  Installed'
<1> SUFFICES ASSUME crashes' = 0, ~mixed', NEW d \in S!Dest'
             PROVE  Standing(d, pkg'[d], files'[d], man'[d], toggle', loop', delete')
  BY DEF Installed
<1>1. Standing(d, pkg[d], files[d], man[d], toggle, loop, delete)
  BY DEF SkillInv, Installed
<1>2. pkg'[d] = pkg[d] /\ files'[d] = files[d] /\ man'[d] = man[d]
  OBVIOUS
<1> QED BY <1>1, <1>2 DEF Standing, Removes

(* A step that leaves the upload, and its directory, as they were.          *)
LEMMA UploadingFrame ==
    ASSUME SkillInv, loop' = loop, count'.installs = count.installs,
           loop.pc # "idle" => /\ place'[loop.dir] = place[loop.dir] /\ pkg'[loop.dir] = pkg[loop.dir]
                               /\ files'[loop.dir] = files[loop.dir] /\ man'[loop.dir] = man[loop.dir],
           S!Dest' \subseteq S!Dest
    PROVE  Uploading'
  BY DEF SkillInv, Uploading

(* Nobody removes the directory of the upload.                              *)
LEMMA UploadApart ==
    ASSUME SkillInv, S!SkillAssumption, loop.pc # "idle"
    PROVE  /\ loop.dir \in S!Dirs /\ loop.dir \notin S!Dest
           /\ Removes(delete, loop.dir) => FALSE
           /\ Removes(loop, loop.dir) => FALSE
<1>1. count.installs \in 0..MaxInstalls
  BY DEF SkillInv, SkillTypes, CountRec
<1>2. loop.dir \in 1..count.installs /\ place[loop.dir] = "temp"
  BY DEF SkillInv, Uploading
<1>3. loop.dir \in S!Dirs
  BY <1>1, <1>2 DEF S!Dirs, S!SkillAssumption
<1> QED BY <1>2, <1>3 DEF S!Dest, SkillInv, Removing, Removes

(* One file goes: what was listed behind it is left.                        *)
LEMMA FollowsOn ==
    ASSUME S!SkillAssumption, NEW F \in SUBSET Stored, NEW T \in SUBSET Stored, Follows(T, F),
           NEW f \in Stored, S!First(T, f)
    PROVE  /\ Follows(T \ {f}, F \ {f})
           /\ f \in F => T = F
           /\ \A U \in SUBSET Stored : Follows(U, F) => Follows(U, F \ {f})
<1>1. \A g \in Stored : ListOrder[g] \in Nat
  BY DEF S!SkillAssumption, Stored
<1>2. \A g, h \in Stored : ListOrder[g] = ListOrder[h] => g = h
  BY DEF S!SkillAssumption, Stored
<1>3. f \in T /\ \A g \in T : ListOrder[f] <= ListOrder[g]
  BY DEF S!First
<1>4. f \in F => T = F
  <2> SUFFICES ASSUME f \in F, NEW g \in T, g \notin F PROVE FALSE
    BY DEF Follows
  <2>1. ListOrder[g] < ListOrder[f] /\ ListOrder[f] <= ListOrder[g]
    BY <1>3 DEF Follows
  <2>2. ListOrder[f] \in Nat /\ ListOrder[g] \in Nat
    BY <1>1
  <2> QED BY <2>1, <2>2
<1>5. Follows(T \ {f}, F \ {f})
  BY DEF Follows
<1>6. ASSUME NEW U \in SUBSET Stored, Follows(U, F) PROVE Follows(U, F \ {f})
  <2> SUFFICES ASSUME NEW h \in F, h # f, NEW g \in U, g \notin F \/ g = f
               PROVE  ListOrder[g] < ListOrder[h]
    BY <1>6 DEF Follows
  <2>1. CASE g \notin F
    BY <1>6, <2>1 DEF Follows
  <2>2. CASE g = f /\ f \in F
    <3>1. h \in T /\ ListOrder[f] <= ListOrder[h]
      BY <1>3, <1>4, <2>2
    <3>2. ListOrder[f] # ListOrder[h]
      BY <1>2
    <3>3. ListOrder[f] \in Nat /\ ListOrder[h] \in Nat
      BY <1>1
    <3> QED BY <2>2, <3>1, <3>2, <3>3
  <2> QED BY <2>1, <2>2
<1> QED BY <1>4, <1>5, <1>6

-----------------------------------------------------------------------------
(* The types, one variable at a time.                                       *)
LEMMA SkillVars ==
    ASSUME SkillInv
    PROVE  /\ pkg \in [S!Dirs -> Packages \cup {NoPackage}]
           /\ place \in [S!Dirs -> {"none", "temp", "dest"}]
           /\ files \in [S!Dirs -> SUBSET Stored]
           /\ man \in [S!Dirs -> ManRec]
           /\ loop \in WorkRec /\ delete \in WorkRec /\ delete.pc \in {"idle", "rmtree"}
           /\ toggle \in ToggleRec /\ run.pc \in {"idle", "matched"}
           /\ count \in CountRec /\ crashes \in Nat /\ mixed \in BOOLEAN
           /\ count.installs \in 0..MaxInstalls
  BY DEF SkillInv, SkillTypes, CountRec

(* An upload begins in a directory of its own.                              *)
LEMMA InstallStartStep ==
    ASSUME S!SkillAssumption, SkillInv, NEW p \in Packages, S!InstallStart(p)
    PROVE  SkillInv'
<1> DEFINE d == count.installs + 1
           w == [S!Resting EXCEPT !.pc = "copy", !.dir = d, !.todo = Ships[p]]
           n == [count EXCEPT !.installs = @ + 1]
<1>1. /\ loop.pc = "idle" /\ count.installs < MaxInstalls
      /\ pkg' = [pkg EXCEPT ![d] = p] /\ place' = [place EXCEPT ![d] = "temp"]
      /\ loop' = w /\ count' = n
      /\ files' = files /\ man' = man /\ toggle' = toggle /\ delete' = delete /\ run' = run
      /\ crashes' = crashes
  BY Zenon DEF S!InstallStart
<1>2. mixed' = (mixed \/ toggle.pc # "idle")
  BY DEF S!InstallStart
<1>3. count.installs \in 0..MaxInstalls /\ MaxInstalls \in Nat /\ Ships[p] \in SUBSET S!Names
  BY SkillVars DEF S!SkillAssumption
<1>4. d \in S!Dirs /\ d \in 0..MaxInstalls /\ d \in 1..d
  BY <1>1, <1>3 DEF S!Dirs
<1>5. w \in WorkRec /\ w.pc = "copy" /\ w.dir = d /\ w.todo = Ships[p]
  BY <1>3, <1>4, SkillConstants DEF WorkRec
<1>6. n \in CountRec /\ n.installs = d
  BY <1>4, SkillVars DEF CountRec
<1>7. count.installs < d
  BY <1>3
<1> HIDE DEF w, n, d
<1>8. mixed' \in BOOLEAN /\ (~mixed' => ~mixed /\ toggle.pc = "idle")
  BY <1>2
<1>9. pkg' \in [S!Dirs -> Packages \cup {NoPackage}] /\ place' \in [S!Dirs -> {"none", "temp", "dest"}]
  BY <1>1, <1>4, SkillVars
<1>10. SkillTypes'
  BY <1>1, <1>5, <1>6, <1>8, <1>9, SkillVars DEF SkillTypes
<1>11. place[d] = "none" /\ files[d] = {}
  BY <1>4, <1>7, <1>3 DEF SkillInv, Fresh, d
<1>12. /\ pkg'[d] = p /\ place'[d] = "temp"
       /\ \A e \in S!Dirs : e # d => pkg'[e] = pkg[e] /\ place'[e] = place[e]
  BY <1>1, <1>4, SkillVars
<1>13. S!Dest' = S!Dest /\ d \notin S!Dest
  BY <1>4, <1>11, <1>12 DEF S!Dest
<1>14. Fresh'
  <2>1. ASSUME NEW e \in S!Dirs, e > d PROVE e > count.installs /\ e # d
    BY <2>1, <1>3 DEF S!Dirs, d
  <2> QED BY <1>1, <1>6, <1>12, <2>1 DEF SkillInv, Fresh
<1>15. Uploading'
  <2>1. Stage(w, p, {}, man[d])
    BY <1>5 DEF Stage, Passed
  <2> QED BY <1>1, <1>4, <1>5, <1>6, <1>11, <1>12, <2>1 DEF Uploading
<1>16. Removing(loop)' /\ Removing(delete)'
  <2>1. Removing(loop)'
    BY <1>1, <1>5 DEF Removing
  <2>2. ASSUME delete.pc = "rmtree"
        PROVE  delete.old \in 1..d /\ place'[delete.old] # "temp" /\ delete.todo \subseteq Stored
    <3>1. delete.old \in 1..count.installs /\ place[delete.old] # "temp" /\ delete.todo \subseteq Stored
      BY <2>2 DEF SkillInv, Removing
    <3>2. delete.old \in 1..d /\ delete.old # d /\ delete.old \in S!Dirs
      BY <1>3, <3>1 DEF S!Dirs, d
    <3> QED BY <1>12, <3>1, <3>2
  <2> QED BY <1>1, <1>6, <2>1, <2>2 DEF Removing
<1>17. Installed'
  <2>1. \A e \in S!Dest : pkg'[e] = pkg[e]
    BY <1>12, <1>13 DEF S!Dest
  <2> QED BY <1>1, <1>5, <1>8, <1>13, <2>1, InstalledFrame
<1>18. OneDest'
  BY <1>13 DEF SkillInv, OneDest
<1>19. Apart'
  BY <1>1, <1>8 DEF Apart
<1>20. S!NoLeftovers'
  <2>1. \A e \in S!Dirs : e # d /\ place[e] = "temp" => crashes # 0
    BY <1>1 DEF SkillInv, S!NoLeftovers
  <2> QED BY <1>1, <1>5, <1>12, <2>1 DEF S!NoLeftovers
<1> QED BY <1>10, <1>14, <1>15, <1>16, <1>17, <1>18, <1>19, <1>20 DEF SkillInv

(* A step of the upload that moves on without touching a place, a count or  *)
(* another request, and changes files and manifest at most in its own       *)
(* directory.                                                               *)
LEMMA UploadStep ==
    ASSUME S!SkillAssumption, SkillInv, loop.pc # "idle", loop.pc # "rmtree",
           NEW w \in WorkRec, loop' = w, w.pc \notin {"idle", "rmtree"}, w.dir = loop.dir,
           NEW F \in SUBSET Stored, NEW m \in ManRec,
           files' = [files EXCEPT ![loop.dir] = F], man' = [man EXCEPT ![loop.dir] = m],
           Stage(w, pkg[loop.dir], F, m), w.pc = "rename" => S!Dest = {},
           pkg' = pkg, place' = place, toggle' = toggle, delete' = delete, run' = run,
           count' = count, crashes' = crashes, mixed' = mixed
    PROVE  SkillInv'
<1>1. loop.dir \in S!Dirs /\ loop.dir \notin S!Dest
  BY UploadApart
<1>2. /\ files' \in [S!Dirs -> SUBSET Stored] /\ man' \in [S!Dirs -> ManRec]
      /\ files'[loop.dir] = F /\ man'[loop.dir] = m
      /\ \A e \in S!Dirs : e # loop.dir => files'[e] = files[e] /\ man'[e] = man[e]
  BY <1>1, SkillVars
<1>3. SkillTypes'
  BY <1>2, SkillVars DEF SkillTypes
<1>4. S!Dest' = S!Dest /\ \A e \in S!Dest : e \in S!Dirs /\ e # loop.dir
  BY <1>1 DEF S!Dest
<1>5. loop.dir \in 1..count.installs /\ place[loop.dir] = "temp"
  BY DEF SkillInv, Uploading
<1>6. Fresh'
  <2>1. ASSUME NEW e \in S!Dirs, e > count.installs PROVE e # loop.dir
    BY <1>5, <2>1, SkillVars DEF S!Dirs, S!SkillAssumption
  <2> QED BY <1>2, <2>1 DEF SkillInv, Fresh
<1>7. Uploading'
  BY <1>2, <1>4, <1>5 DEF Uploading
<1>8. Removing(loop)' /\ Removing(delete)'
  BY DEF SkillInv, Removing
<1>9. Installed'
  BY <1>2, <1>4, InstalledFrame
<1>10. OneDest' /\ Apart'
  BY <1>4 DEF SkillInv, OneDest, Apart
<1>11. S!NoLeftovers'
  BY DEF SkillInv, S!NoLeftovers
<1> QED BY <1>3, <1>6, <1>7, <1>8, <1>9, <1>10, <1>11 DEF SkillInv

(* A file is unpacked, the package is checked, its manifest written.        *)
LEMMA UploadSteps ==
    ASSUME S!SkillAssumption, SkillInv,
           (\E f \in S!Names : S!Copy(f)) \/ S!Validate \/ S!Truncate \/ S!WriteManifest
    PROVE  SkillInv'
<1> DEFINE d == loop.dir
<1>1. loop.pc # "idle" /\ loop.pc # "rmtree"
  BY DEF S!Copy, S!Validate, S!Truncate, S!WriteManifest
<1>2. d \in S!Dirs /\ Stage(loop, pkg[d], files[d], man[d]) /\ pkg[d] \in Packages
  BY <1>1, UploadApart DEF SkillInv, Uploading, Stage
<1>3. /\ files \in [S!Dirs -> SUBSET Stored] /\ man \in [S!Dirs -> ManRec] /\ loop \in WorkRec
      /\ files[d] \in SUBSET Stored /\ man[d] \in ManRec
      /\ files = [files EXCEPT ![d] = files[d]] /\ man = [man EXCEPT ![d] = man[d]]
  BY <1>2, SkillVars
<1> DEFINE own == [of |-> pkg[d], on |-> TRUE]
<1>4. own \in ManRec /\ own.of = pkg[d] /\ S!NoMan \in ManRec
  BY <1>2, SkillConstants DEF ManRec
<1> HIDE DEF own
<1>5. ASSUME NEW f \in S!Names, S!Copy(f) PROVE SkillInv'
  <2>1. /\ loop.pc = "copy" /\ f \in loop.todo
        /\ pkg' = pkg /\ place' = place /\ toggle' = toggle /\ delete' = delete /\ run' = run
        /\ count' = count /\ crashes' = crashes /\ mixed' = mixed
    BY <1>5 DEF S!Copy
  <2>2. CASE f = "odd"
    <3> DEFINE w == [loop EXCEPT !.pc = "cleanup"]
    <3>1. loop' = w /\ files' = files /\ man' = man
      BY <1>5, <2>2 DEF S!Copy
    <3>2. w \in WorkRec /\ w.pc = "cleanup" /\ w.dir = d
      BY <1>3 DEF WorkRec
    <3> HIDE DEF w
    <3>3. Stage(w, pkg[d], files[d], man[d])
      BY <1>2, <3>2 DEF Stage, Passed
    <3> QED BY <1>1, <1>3, <2>1, <3>1, <3>2, <3>3, UploadStep
  <2>3. CASE f # "odd"
    <3> DEFINE w == [loop EXCEPT !.todo = @ \ {f}]
               F == files[d] \cup {f}
               m == IF f = "manifest" THEN own ELSE man[d]
    <3>1. loop' = w /\ files' = [files EXCEPT ![d] = F]
      BY <1>5, <2>3 DEF S!Copy
    <3>2. man' = IF f = "manifest" THEN [man EXCEPT ![d] = own] ELSE man
      BY <1>5, <2>3 DEF S!Copy, own
    <3>3. man' = [man EXCEPT ![d] = m]
      BY <1>3, <3>2
    <3>4. w \in WorkRec /\ w.pc = "copy" /\ w.dir = d /\ w.todo = loop.todo \ {f}
      <4>1. loop.todo \ {f} \in SUBSET S!Names
        BY <1>3 DEF WorkRec
      <4> QED BY <1>3, <2>1, <4>1 DEF WorkRec
    <3>5. F \in SUBSET Stored /\ m \in ManRec
      BY <1>3, <1>4, <2>3 DEF Stored
    <3>6. loop.todo \subseteq Ships[pkg[d]] /\ files[d] = Ships[pkg[d]] \ loop.todo
          /\ ("manifest" \in files[d] => man[d].of = pkg[d])
      BY <1>2, <2>1 DEF Stage
    <3>7. F = Ships[pkg[d]] \ w.todo /\ ("manifest" \in F => m.of = pkg[d])
      BY <1>4, <2>1, <3>4, <3>6
    <3>8. w.todo \subseteq Ships[pkg[d]]
      BY <3>4, <3>6
    <3> HIDE DEF w, F, m
    <3>9. Stage(w, pkg[d], F, m)
      BY <1>2, <3>4, <3>7, <3>8 DEF Stage, Passed
    <3> QED BY <1>1, <2>1, <3>1, <3>3, <3>4, <3>5, <3>9, UploadStep
  <2> QED BY <2>2, <2>3
<1>6. CASE S!Validate
  <2> DEFINE pc == IF S!Complete(d) THEN "write" ELSE "cleanup"
             w == [loop EXCEPT !.pc = pc]
  <2>1. /\ loop.pc = "copy" /\ loop.todo = {} /\ loop' = w
        /\ pkg' = pkg /\ place' = place /\ files' = files /\ man' = man
        /\ toggle' = toggle /\ delete' = delete /\ run' = run
        /\ count' = count /\ crashes' = crashes /\ mixed' = mixed
    BY <1>6 DEF S!Validate, S!disk
  <2>2. w \in WorkRec /\ w.pc = pc /\ w.dir = d
    BY <1>3 DEF WorkRec
  <2>3. files[d] = Ships[pkg[d]] /\ man[d].of = pkg[d]
    BY <1>2, <2>1 DEF Stage, S!SkillAssumption
  <2>4. pc = "write" => {"SKILL"} \cup Refs[pkg[d]] \subseteq files[d]
    BY <2>3 DEF S!Complete
  <2>5. pc \in {"write", "cleanup"}
    OBVIOUS
  <2> HIDE DEF w, pc
  <2>6. Stage(w, pkg[d], files[d], man[d])
    BY <1>2, <2>2, <2>3, <2>4, <2>5 DEF Stage, Passed
  <2> QED BY <1>1, <1>3, <2>1, <2>2, <2>5, <2>6, UploadStep
<1>7. CASE S!Truncate
  <2> DEFINE w == [loop EXCEPT !.pc = "written"]
  <2>1. /\ loop.pc = "write" /\ loop' = w /\ man' = [man EXCEPT ![d] = S!NoMan]
        /\ pkg' = pkg /\ place' = place /\ files' = files
        /\ toggle' = toggle /\ delete' = delete /\ run' = run
        /\ count' = count /\ crashes' = crashes /\ mixed' = mixed
    BY <1>7 DEF S!Truncate
  <2>2. w \in WorkRec /\ w.pc = "written" /\ w.dir = d
    BY <1>3 DEF WorkRec
  <2> HIDE DEF w
  <2>3. Stage(w, pkg[d], files[d], S!NoMan)
    BY <1>2, <2>1, <2>2 DEF Stage, Passed
  <2> QED BY <1>1, <1>3, <1>4, <2>1, <2>2, <2>3, UploadStep
<1>8. CASE S!WriteManifest
  <2> DEFINE w == [loop EXCEPT !.pc = "replace"]
  <2>1. /\ loop.pc = "written" /\ loop' = w /\ man' = [man EXCEPT ![d] = own]
        /\ pkg' = pkg /\ place' = place /\ files' = files
        /\ toggle' = toggle /\ delete' = delete /\ run' = run
        /\ count' = count /\ crashes' = crashes /\ mixed' = mixed
    BY <1>8 DEF S!WriteManifest, own
  <2>2. w \in WorkRec /\ w.pc = "replace" /\ w.dir = d
    BY <1>3 DEF WorkRec
  <2> HIDE DEF w
  <2>3. Stage(w, pkg[d], files[d], own)
    BY <1>2, <1>4, <2>1, <2>2 DEF Stage, Passed
  <2> QED BY <1>1, <1>3, <1>4, <2>1, <2>2, <2>3, UploadStep
<1> QED BY <1>5, <1>6, <1>7, <1>8

-----------------------------------------------------------------------------
(* Installed directories are directories that were made.                    *)
LEMMA DestMade ==
    ASSUME S!SkillAssumption, SkillInv, NEW d \in S!Dest
    PROVE  /\ d \in S!Dirs /\ d \in 1..count.installs /\ d \in 0..MaxInstalls
           /\ place[d] = "dest" /\ files[d] \in SUBSET Stored /\ files[d] \in SUBSET S!Names
<1>1. d \in S!Dirs /\ place[d] = "dest"
  BY DEF S!Dest
<1>2. ~(d > count.installs)
  BY <1>1 DEF SkillInv, Fresh
<1>3. d \in 1..count.installs /\ d \in 0..MaxInstalls
  BY <1>1, <1>2, SkillVars DEF S!Dirs, S!SkillAssumption
<1> QED BY <1>1, <1>3, SkillVars DEF Stored

(* An upload begins to remove the installed directory: all of it is listed. *)
LEMMA RemoveOldStep ==
    ASSUME S!SkillAssumption, SkillInv, NEW d \in S!Dirs, S!RemoveOld(d)
    PROVE  SkillInv'
<1> DEFINE w == [loop EXCEPT !.pc = "rmtree", !.old = d, !.todo = files[d]]
<1>1. /\ loop.pc = "replace" /\ d \in S!Dest /\ loop' = w
      /\ pkg' = pkg /\ place' = place /\ files' = files /\ man' = man
      /\ toggle' = toggle /\ delete' = delete /\ run' = run
      /\ count' = count /\ crashes' = crashes /\ mixed' = mixed
  BY DEF S!RemoveOld, S!disk
<1>2. /\ d \in 1..count.installs /\ d \in 0..MaxInstalls
      /\ place[d] = "dest" /\ files[d] \in SUBSET Stored /\ files[d] \in SUBSET S!Names
  BY <1>1, DestMade
<1>3. w \in WorkRec /\ w.pc = "rmtree" /\ w.dir = loop.dir /\ w.old = d /\ w.todo = files[d]
  BY <1>2, SkillVars DEF WorkRec
<1> HIDE DEF w
<1>4. SkillTypes'
  BY <1>1, <1>3, SkillVars DEF SkillTypes
<1>5. S!Dest' = S!Dest
  BY <1>1 DEF S!Dest
<1>6. Uploading'
  <2>1. /\ loop.dir \in 1..count.installs /\ place[loop.dir] = "temp"
        /\ Stage(loop, pkg[loop.dir], files[loop.dir], man[loop.dir])
    BY <1>1 DEF SkillInv, Uploading
  <2>2. Stage(w, pkg[loop.dir], files[loop.dir], man[loop.dir])
    BY <1>1, <1>3, <2>1 DEF Stage, Passed
  <2> QED BY <1>1, <1>3, <2>1, <2>2 DEF Uploading
<1>7. Removing(loop)' /\ Removing(delete)'
  BY <1>1, <1>2, <1>3 DEF SkillInv, Removing
<1>8. Installed'
  <2> SUFFICES ASSUME crashes = 0, ~mixed, NEW e \in S!Dest
               PROVE  Standing(e, pkg[e], files[e], man[e], toggle, w, delete)
    BY <1>1, <1>5 DEF Installed
  <2>1. Standing(e, pkg[e], files[e], man[e], toggle, loop, delete) /\ e = d
    BY <1>1 DEF SkillInv, Installed, OneDest
  <2> QED BY <1>1, <1>3, <2>1 DEF Standing, Removes, Follows
<1>9. OneDest' /\ Fresh'
  BY <1>1, <1>5 DEF SkillInv, OneDest, Fresh
<1>10. Apart' /\ S!NoLeftovers'
  BY <1>1, <1>3 DEF SkillInv, Apart, S!NoLeftovers
<1> QED BY <1>4, <1>6, <1>7, <1>8, <1>9, <1>10 DEF SkillInv

(* A deletion does the same.                                                *)
LEMMA DeleteStartStep ==
    ASSUME S!SkillAssumption, SkillInv, NEW d \in S!Dirs, S!DeleteStart(d)
    PROVE  SkillInv'
<1> DEFINE w == [S!Resting EXCEPT !.pc = "rmtree", !.old = d, !.todo = files[d]]
           n == [count EXCEPT !.deletes = @ + 1]
<1>1. /\ delete.pc = "idle" /\ d \in S!Dest /\ delete' = w /\ count' = n
      /\ pkg' = pkg /\ place' = place /\ files' = files /\ man' = man
      /\ toggle' = toggle /\ loop' = loop /\ run' = run /\ crashes' = crashes
  BY DEF S!DeleteStart, S!disk
<1>2. mixed' = (mixed \/ toggle.pc # "idle")
  BY DEF S!DeleteStart
<1>3. /\ d \in 1..count.installs /\ d \in 0..MaxInstalls
      /\ place[d] = "dest" /\ files[d] \in SUBSET Stored /\ files[d] \in SUBSET S!Names
  BY <1>1, DestMade
<1>4. w \in WorkRec /\ w.pc = "rmtree" /\ w.old = d /\ w.todo = files[d]
  BY <1>3, SkillConstants DEF WorkRec
<1>5. n \in CountRec /\ n.installs = count.installs
  BY SkillVars DEF CountRec
<1>6. mixed' \in BOOLEAN /\ (~mixed' => ~mixed /\ toggle.pc = "idle")
  BY <1>2
<1> HIDE DEF w, n
<1>7. SkillTypes'
  BY <1>1, <1>4, <1>5, <1>6, SkillVars DEF SkillTypes
<1>8. S!Dest' = S!Dest
  BY <1>1 DEF S!Dest
<1>9. Uploading'
  BY <1>1, <1>5, <1>8, UploadingFrame
<1>10. Removing(loop)' /\ Removing(delete)'
  BY <1>1, <1>3, <1>4, <1>5 DEF SkillInv, Removing
<1>11. Installed'
  <2> SUFFICES ASSUME crashes = 0, ~mixed', NEW e \in S!Dest
               PROVE  Standing(e, pkg[e], files[e], man[e], toggle, loop, w)
    BY <1>1, <1>8 DEF Installed
  <2>1. Standing(e, pkg[e], files[e], man[e], toggle, loop, delete) /\ e = d
    BY <1>1, <1>6 DEF SkillInv, Installed, OneDest
  <2> QED BY <1>1, <1>4, <2>1 DEF Standing, Removes, Follows
<1>12. OneDest' /\ Fresh'
  BY <1>1, <1>5, <1>8 DEF SkillInv, OneDest, Fresh
<1>13. Apart' /\ S!NoLeftovers'
  BY <1>1, <1>6 DEF SkillInv, Apart, S!NoLeftovers
<1> QED BY <1>7, <1>9, <1>10, <1>11, <1>12, <1>13 DEF SkillInv

(* The new directory takes the name.                                        *)
LEMMA RenameStep ==
    ASSUME S!SkillAssumption, SkillInv, S!Rename
    PROVE  SkillInv'
<1> DEFINE d == loop.dir
<1>1. /\ loop.pc \in {"replace", "rename"} /\ (loop.pc = "replace" => S!Dest = {})
      /\ place' = [e \in S!Dirs |-> IF e = d THEN "dest"
                                    ELSE IF e \in S!Dest THEN "none" ELSE place[e]]
      /\ loop' = S!Resting
      /\ pkg' = pkg /\ files' = files /\ man' = man
      /\ toggle' = toggle /\ delete' = delete /\ run' = run
      /\ count' = count /\ crashes' = crashes /\ mixed' = mixed
  BY DEF S!Rename
<1>2. /\ d \in S!Dirs /\ d \in 1..count.installs /\ place[d] = "temp" /\ d \notin S!Dest
      /\ Stage(loop, pkg[d], files[d], man[d]) /\ S!Dest = {}
  BY <1>1, UploadApart DEF SkillInv, Uploading
<1>3. \A e \in S!Dirs : place'[e] = IF e = d THEN "dest" ELSE place[e]
  BY <1>1, <1>2
<1>4. place' \in [S!Dirs -> {"none", "temp", "dest"}]
  <2>1. \A e \in S!Dirs : place[e] \in {"none", "temp", "dest"}
    BY SkillVars
  <2> QED BY <1>1, <2>1
<1>5. SkillTypes'
  BY <1>1, <1>4, SkillVars, SkillConstants DEF SkillTypes
<1>6. S!Dest' = {d}
  BY <1>2, <1>3 DEF S!Dest
<1>7. Fresh'
  <2>1. ASSUME NEW e \in S!Dirs, e > count.installs PROVE e # d
    BY <1>2, <2>1, SkillVars DEF S!Dirs, S!SkillAssumption
  <2> QED BY <1>1, <1>3, <2>1 DEF SkillInv, Fresh
<1>8. Uploading' /\ Removing(loop)'
  BY <1>1, SkillConstants DEF Uploading, Removing
<1>9. Removing(delete)' /\ ~Removes(delete, d)
  <2> SUFFICES ASSUME delete.pc = "rmtree"
               PROVE  /\ delete.old \in 1..count.installs /\ place'[delete.old] # "temp"
                      /\ delete.todo \subseteq Stored /\ delete.old # d
    BY <1>1 DEF Removing, Removes
  <2>1. delete.old \in 1..count.installs /\ place[delete.old] # "temp" /\ delete.todo \subseteq Stored
    BY DEF SkillInv, Removing
  <2>2. delete.old \in S!Dirs
    BY <2>1, SkillVars DEF S!Dirs, S!SkillAssumption
  <2> QED BY <1>2, <1>3, <2>1, <2>2
<1>10. Installed'
  <2> SUFFICES ASSUME crashes = 0, ~mixed
               PROVE  Standing(d, pkg[d], files[d], man[d], toggle, S!Resting, delete)
    BY <1>1, <1>6 DEF Installed
  <2>1. toggle.pc = "idle"
    BY <1>1 DEF SkillInv, Apart
  <2>2. /\ pkg[d] \in Packages /\ files[d] = Ships[pkg[d]] /\ man[d].of = pkg[d]
        /\ {"SKILL"} \cup Refs[pkg[d]] \subseteq files[d]
    BY <1>1, <1>2 DEF Stage, Passed
  <2>3. "manifest" \in files[d]
    BY <2>2 DEF S!SkillAssumption
  <2>4. Sound(pkg[d], files[d], man[d], toggle)
    BY <2>1, <2>2, <2>3 DEF Sound
  <2> QED BY <1>9, <2>2, <2>4, SkillConstants DEF Standing, Removes
<1>11. OneDest' /\ Apart'
  BY <1>1, <1>6, SkillConstants DEF SkillInv, OneDest, Apart
<1>12. S!NoLeftovers'
  BY <1>1, <1>2, <1>3 DEF SkillInv, S!NoLeftovers
<1> QED BY <1>5, <1>7, <1>8, <1>9, <1>10, <1>11, <1>12 DEF SkillInv

(* A failed upload removes its own directory.                               *)
LEMMA CleanupStep ==
    ASSUME S!SkillAssumption, SkillInv, S!Cleanup
    PROVE  SkillInv'
<1> DEFINE d == loop.dir
<1>1. /\ loop.pc = "cleanup" /\ loop' = S!Resting
      /\ files' = [files EXCEPT ![d] = {}] /\ man' = [man EXCEPT ![d] = S!NoMan]
      /\ place' = [place EXCEPT ![d] = "none"] /\ pkg' = pkg
      /\ toggle' = toggle /\ delete' = delete /\ run' = run
      /\ count' = count /\ crashes' = crashes /\ mixed' = mixed
  BY DEF S!Cleanup
<1>2. /\ d \in S!Dirs /\ d \in 1..count.installs /\ place[d] = "temp" /\ d \notin S!Dest
  BY <1>1, UploadApart DEF SkillInv, Uploading
<1>3. /\ files' \in [S!Dirs -> SUBSET Stored] /\ man' \in [S!Dirs -> ManRec]
      /\ place' \in [S!Dirs -> {"none", "temp", "dest"}]
      /\ place'[d] = "none" /\ files'[d] = {}
      /\ \A e \in S!Dirs : e # d => place'[e] = place[e] /\ files'[e] = files[e] /\ man'[e] = man[e]
  BY <1>1, <1>2, SkillVars, SkillConstants
<1>4. SkillTypes'
  BY <1>1, <1>3, SkillVars, SkillConstants DEF SkillTypes
<1>5. S!Dest' = S!Dest /\ \A e \in S!Dest : e \in S!Dirs /\ e # d
  BY <1>2, <1>3 DEF S!Dest
<1>6. Fresh'
  BY <1>1, <1>3 DEF SkillInv, Fresh
<1>7. Uploading' /\ Removing(loop)'
  BY <1>1, SkillConstants DEF Uploading, Removing
<1>8. Removing(delete)'
  <2> SUFFICES ASSUME delete.pc = "rmtree"
               PROVE  /\ delete.old \in 1..count.installs /\ place'[delete.old] # "temp"
                      /\ delete.todo \subseteq Stored
    BY <1>1 DEF Removing
  <2>1. delete.old \in 1..count.installs /\ place[delete.old] # "temp" /\ delete.todo \subseteq Stored
    BY DEF SkillInv, Removing
  <2>2. delete.old \in S!Dirs
    BY <2>1, SkillVars DEF S!Dirs, S!SkillAssumption
  <2> QED BY <1>3, <2>1, <2>2
<1>9. Installed'
  BY <1>1, <1>3, <1>5, InstalledFrame, SkillConstants
<1>10. OneDest' /\ Apart'
  BY <1>1, <1>5, SkillConstants DEF SkillInv, OneDest, Apart
<1>11. S!NoLeftovers'
  BY <1>1, <1>2, <1>3 DEF SkillInv, S!NoLeftovers
<1> QED BY <1>4, <1>6, <1>7, <1>8, <1>9, <1>10, <1>11 DEF SkillInv

-----------------------------------------------------------------------------
(* Which of the two removers comes first does not matter.                   *)
LEMMA StandingSwap ==
    ASSUME NEW d, NEW p, NEW F, NEW m, NEW t, NEW w, NEW x, Standing(d, p, F, m, t, w, x)
    PROVE  Standing(d, p, F, m, t, x, w)
  BY DEF Standing

(* A remover takes the next file of its listing: if the file is still       *)
(* there, the remover has all that is left to do, and then still has.       *)
LEMMA UnlinkStanding ==
    ASSUME S!SkillAssumption, NEW d, NEW p, NEW F \in SUBSET Stored, NEW m, NEW n, NEW t, NEW w, NEW x,
           NEW v, Standing(d, p, F, m, t, w, x), Removes(w, d), w.todo \in SUBSET Stored,
           Removes(x, d) => x.todo \in SUBSET Stored,
           NEW f \in Stored, S!First(w.todo, f),
           v.pc = w.pc, v.old = w.old, v.todo = w.todo \ {f},
           n = m \/ f = "manifest"
    PROVE  Standing(d, p, F \ {f}, n, t, v, x)
<1>1. p \in Packages /\ Follows(w.todo, F) /\ (Removes(x, d) => Follows(x.todo, F))
  BY DEF Standing
<1>2. /\ Follows(w.todo \ {f}, F \ {f}) /\ (f \in F => w.todo = F)
      /\ (Removes(x, d) => Follows(x.todo, F \ {f}))
  BY <1>1, FollowsOn
<1>3. Removes(v, d) /\ Follows(v.todo, F \ {f})
  BY <1>2 DEF Removes
<1>4. CASE f \in F
  <2>1. v.todo = F \ {f}
    BY <1>2, <1>4
  <2> QED BY <1>1, <1>2, <1>3, <2>1 DEF Standing
<1>5. CASE f \notin F
  <2>1. F \ {f} = F /\ f \in w.todo
    BY <1>5 DEF S!First
  <2>2. Sound(p, F, m, t) => f # "manifest"
    BY <1>5 DEF Sound
  <2>3. Sound(p, F, n, t) \/ (Removes(x, d) /\ x.todo = F)
    BY <1>5, <2>1, <2>2 DEF Standing
  <2> QED BY <1>1, <1>2, <1>3, <2>1, <2>3 DEF Standing
<1> QED BY <1>4, <1>5

(* What a step of a removal by w does to files and manifests.               *)
LEMMA UnlinkFacts ==
    ASSUME S!SkillAssumption, SkillInv, NEW w \in WorkRec, w = loop \/ w = delete,
           NEW f \in S!Names, S!Unlinks(w, f)
    PROVE  /\ w.pc = "rmtree" /\ f \in w.todo /\ w.old \in S!Dirs /\ place[w.old] # "temp"
           /\ w.todo \in SUBSET Stored /\ f \in Stored /\ S!First(w.todo, f)
           /\ files' \in [S!Dirs -> SUBSET Stored] /\ man' \in [S!Dirs -> ManRec]
           /\ files'[w.old] = files[w.old] \ {f}
           /\ man'[w.old] = man[w.old] \/ f = "manifest"
           /\ \A e \in S!Dirs : e # w.old => files'[e] = files[e] /\ man'[e] = man[e]
<1>1. /\ w.pc = "rmtree" /\ S!First(w.todo, f)
      /\ files' = [files EXCEPT ![w.old] = @ \ {f}]
      /\ man' = IF f = "manifest" THEN [man EXCEPT ![w.old] = S!NoMan] ELSE man
  BY DEF S!Unlinks
<1>2. w.old \in 1..count.installs /\ place[w.old] # "temp" /\ w.todo \subseteq Stored
  BY <1>1 DEF SkillInv, Removing
<1>3. w.old \in S!Dirs
  BY <1>2, SkillVars DEF S!Dirs, S!SkillAssumption
<1>4. files[w.old] \ {f} \in SUBSET Stored
  BY <1>3, SkillVars
<1>5. f \in w.todo
  BY <1>1 DEF S!First
<1>6. /\ files' \in [S!Dirs -> SUBSET Stored] /\ files'[w.old] = files[w.old] \ {f}
      /\ \A e \in S!Dirs : e # w.old => files'[e] = files[e]
  BY <1>1, <1>3, <1>4, SkillVars
<1>7. /\ man' \in [S!Dirs -> ManRec] /\ (man'[w.old] = man[w.old] \/ f = "manifest")
      /\ \A e \in S!Dirs : e # w.old => man'[e] = man[e]
  BY <1>1, <1>3, SkillVars, SkillConstants
<1> QED BY <1>1, <1>2, <1>3, <1>5, <1>6, <1>7

(* The upload removes a file of the old directory.                          *)
LEMMA InstallUnlinkStep ==
    ASSUME S!SkillAssumption, SkillInv, NEW f \in S!Names, S!InstallUnlink(f)
    PROVE  SkillInv'
<1> DEFINE v == [loop EXCEPT !.todo = @ \ {f}]
<1>1. /\ S!Unlinks(loop, f) /\ loop' = v /\ pkg' = pkg /\ place' = place
      /\ toggle' = toggle /\ delete' = delete /\ run' = run
      /\ count' = count /\ crashes' = crashes /\ mixed' = mixed
  BY DEF S!InstallUnlink
<1>2. /\ loop.pc = "rmtree" /\ f \in loop.todo /\ loop.old \in S!Dirs /\ place[loop.old] # "temp"
      /\ loop.todo \in SUBSET Stored /\ f \in Stored /\ S!First(loop.todo, f)
      /\ files' \in [S!Dirs -> SUBSET Stored] /\ man' \in [S!Dirs -> ManRec]
      /\ files'[loop.old] = files[loop.old] \ {f}
      /\ man'[loop.old] = man[loop.old] \/ f = "manifest"
      /\ \A e \in S!Dirs : e # loop.old => files'[e] = files[e] /\ man'[e] = man[e]
  BY <1>1, SkillVars, UnlinkFacts
<1>3. v \in WorkRec /\ v.pc = "rmtree" /\ v.dir = loop.dir /\ v.old = loop.old /\ v.todo = loop.todo \ {f}
  BY <1>2, SkillVars, WithoutFile
<1> HIDE DEF v
<1>4. SkillTypes'
  BY <1>1, <1>2, <1>3, SkillVars DEF SkillTypes
<1>5. S!Dest' = S!Dest
  BY <1>1 DEF S!Dest
<1>6. Fresh'
  BY <1>1, <1>2 DEF SkillInv, Fresh
<1>7. Uploading'
  <2>1. /\ loop.dir \in 1..count.installs /\ place[loop.dir] = "temp" /\ loop.dir \in S!Dirs
        /\ Stage(loop, pkg[loop.dir], files[loop.dir], man[loop.dir])
    BY <1>2, UploadApart DEF SkillInv, Uploading
  <2>2. files'[loop.dir] = files[loop.dir] /\ man'[loop.dir] = man[loop.dir]
    BY <1>2, <2>1
  <2>3. Stage(v, pkg[loop.dir], files[loop.dir], man[loop.dir])
    BY <1>2, <1>3, <2>1 DEF Stage, Passed
  <2> QED BY <1>1, <1>3, <2>1, <2>2, <2>3 DEF Uploading
<1>8. Removing(loop)' /\ Removing(delete)'
  BY <1>1, <1>2, <1>3 DEF SkillInv, Removing
<1>9. Installed'
  <2> SUFFICES ASSUME crashes = 0, ~mixed, NEW e \in S!Dest
               PROVE  Standing(e, pkg[e], files'[e], man'[e], toggle, v, delete)
    BY <1>1, <1>5 DEF Installed
  <2>1. Standing(e, pkg[e], files[e], man[e], toggle, loop, delete) /\ e \in S!Dirs
    BY DEF SkillInv, Installed, S!Dest
  <2>2. CASE e = loop.old
    <3>1. Removes(loop, e) /\ files[e] \in SUBSET Stored
      BY <1>2, <2>1, <2>2, SkillVars DEF Removes
    <3>2. Removes(delete, e) => delete.todo \in SUBSET Stored
      BY DEF SkillInv, Removing, Removes
    <3>3. Standing(e, pkg[e], files[e] \ {f}, man'[e], toggle, v, delete)
      BY <1>2, <1>3, <2>1, <2>2, <3>1, <3>2, UnlinkStanding
    <3> QED BY <1>2, <2>2, <3>3
  <2>3. CASE e # loop.old
    <3>1. ~Removes(loop, e) /\ ~Removes(v, e)
      BY <1>3, <2>3 DEF Removes
    <3> QED BY <1>2, <2>1, <2>3, <3>1 DEF Standing
  <2> QED BY <2>2, <2>3
<1>10. OneDest' /\ Apart' /\ S!NoLeftovers'
  BY <1>1, <1>2, <1>3, <1>5 DEF SkillInv, OneDest, Apart, S!NoLeftovers
<1> QED BY <1>4, <1>6, <1>7, <1>8, <1>9, <1>10 DEF SkillInv

(* A deletion removes a file.                                               *)
LEMMA DeleteUnlinkStep ==
    ASSUME S!SkillAssumption, SkillInv, NEW f \in S!Names, S!DeleteUnlink(f)
    PROVE  SkillInv'
<1> DEFINE v == [delete EXCEPT !.todo = @ \ {f}]
<1>1. /\ S!Unlinks(delete, f) /\ delete' = v /\ pkg' = pkg /\ place' = place
      /\ toggle' = toggle /\ loop' = loop /\ run' = run
      /\ count' = count /\ crashes' = crashes /\ mixed' = mixed
  BY DEF S!DeleteUnlink
<1>2. /\ delete.pc = "rmtree" /\ f \in delete.todo /\ delete.old \in S!Dirs /\ place[delete.old] # "temp"
      /\ delete.todo \in SUBSET Stored /\ f \in Stored /\ S!First(delete.todo, f)
      /\ files' \in [S!Dirs -> SUBSET Stored] /\ man' \in [S!Dirs -> ManRec]
      /\ files'[delete.old] = files[delete.old] \ {f}
      /\ man'[delete.old] = man[delete.old] \/ f = "manifest"
      /\ \A e \in S!Dirs : e # delete.old => files'[e] = files[e] /\ man'[e] = man[e]
  BY <1>1, SkillVars, UnlinkFacts
<1>3. v \in WorkRec /\ v.pc = "rmtree" /\ v.old = delete.old /\ v.todo = delete.todo \ {f}
  BY <1>2, SkillVars, WithoutFile
<1> HIDE DEF v
<1>4. SkillTypes'
  BY <1>1, <1>2, <1>3, SkillVars DEF SkillTypes
<1>5. S!Dest' = S!Dest
  BY <1>1 DEF S!Dest
<1>6. Fresh'
  BY <1>1, <1>2 DEF SkillInv, Fresh
<1>7. Uploading'
  <2>1. loop.pc # "idle" => files'[loop.dir] = files[loop.dir] /\ man'[loop.dir] = man[loop.dir]
    BY <1>2, UploadApart DEF Removes
  <2> QED BY <1>1, <1>5, <2>1, UploadingFrame
<1>8. Removing(loop)' /\ Removing(delete)'
  BY <1>1, <1>2, <1>3 DEF SkillInv, Removing
<1>9. Installed'
  <2> SUFFICES ASSUME crashes = 0, ~mixed, NEW e \in S!Dest
               PROVE  Standing(e, pkg[e], files'[e], man'[e], toggle, loop, v)
    BY <1>1, <1>5 DEF Installed
  <2>1. Standing(e, pkg[e], files[e], man[e], toggle, loop, delete) /\ e \in S!Dirs
    BY DEF SkillInv, Installed, S!Dest
  <2>2. CASE e = delete.old
    <3>1. Removes(delete, e) /\ files[e] \in SUBSET Stored
      BY <1>2, <2>1, <2>2, SkillVars DEF Removes
    <3>2. Removes(loop, e) => loop.todo \in SUBSET Stored
      BY DEF SkillInv, Removing, Removes
    <3>3. Standing(e, pkg[e], files[e], man[e], toggle, delete, loop)
      BY <2>1, StandingSwap
    <3>4. Standing(e, pkg[e], files[e] \ {f}, man'[e], toggle, v, loop)
      BY <1>2, <1>3, <2>2, <3>1, <3>2, <3>3, UnlinkStanding
    <3> QED BY <1>2, <2>2, <3>4, StandingSwap
  <2>3. CASE e # delete.old
    <3>1. ~Removes(delete, e) /\ ~Removes(v, e)
      BY <1>3, <2>3 DEF Removes
    <3> QED BY <1>2, <2>1, <2>3, <3>1 DEF Standing
  <2> QED BY <2>2, <2>3
<1>10. OneDest' /\ Apart' /\ S!NoLeftovers'
  BY <1>1, <1>2, <1>3, <1>5 DEF SkillInv, OneDest, Apart, S!NoLeftovers
<1> QED BY <1>4, <1>6, <1>7, <1>8, <1>9, <1>10 DEF SkillInv

(* The name goes, with the directory that has it.                           *)
LEMMA RmdirStep ==
    ASSUME S!SkillAssumption, SkillInv, S!InstallRmdir \/ S!DeleteRmdir
    PROVE  SkillInv'
<1>1. /\ place' = [e \in S!Dirs |-> IF e \in S!Dest THEN "none" ELSE place[e]]
      /\ pkg' = pkg /\ files' = files /\ man' = man /\ toggle' = toggle /\ run' = run
      /\ count' = count /\ crashes' = crashes /\ mixed' = mixed
  BY DEF S!InstallRmdir, S!DeleteRmdir, S!Rmdirs
<1>2. place' \in [S!Dirs -> {"none", "temp", "dest"}]
  <2>1. \A e \in S!Dirs : place[e] \in {"none", "temp", "dest"}
    BY SkillVars
  <2> QED BY <1>1, <2>1
<1>3. S!Dest' = {} /\ \A e \in S!Dirs : place'[e] = "temp" <=> place[e] = "temp"
  BY <1>1 DEF S!Dest
<1>4. Fresh' /\ Installed' /\ OneDest'
  <2>1. Fresh'
    BY <1>1 DEF SkillInv, Fresh
  <2> QED BY <1>3, <2>1 DEF Installed, OneDest
<1>5. ASSUME NEW w, w.pc = "rmtree" => w.old \in 1..count.installs /\ place[w.old] # "temp"
      PROVE  w.pc = "rmtree" => place'[w.old] # "temp"
  <2>1. w.pc = "rmtree" => w.old \in S!Dirs
    BY <1>5, SkillVars DEF S!Dirs, S!SkillAssumption
  <2> QED BY <1>3, <1>5, <2>1
<1>6. loop.pc # "idle" => /\ loop.dir \in S!Dirs /\ loop.dir \in 1..count.installs /\ place'[loop.dir] = "temp"
                          /\ Stage(loop, pkg[loop.dir], files[loop.dir], man[loop.dir])
  BY <1>3, UploadApart DEF SkillInv, Uploading
<1>7. CASE S!InstallRmdir
  <2> DEFINE v == [loop EXCEPT !.pc = "rename"]
  <2>1. loop.pc = "rmtree" /\ loop' = v /\ delete' = delete
    BY <1>7 DEF S!InstallRmdir, S!Rmdirs
  <2>2. v \in WorkRec /\ v.pc = "rename" /\ v.dir = loop.dir /\ v.todo = loop.todo
    BY SkillVars DEF WorkRec
  <2> HIDE DEF v
  <2>3. SkillTypes'
    BY <1>1, <1>2, <2>1, <2>2, SkillVars DEF SkillTypes
  <2>4. Stage(v, pkg[loop.dir], files[loop.dir], man[loop.dir])
    BY <1>6, <2>1, <2>2 DEF Stage, Passed
  <2>5. Uploading'
    BY <1>1, <1>3, <1>6, <2>1, <2>2, <2>4 DEF Uploading
  <2>6. Removing(loop)' /\ Removing(delete)'
    BY <1>1, <1>5, <2>1, <2>2 DEF SkillInv, Removing
  <2>7. Apart' /\ S!NoLeftovers'
    BY <1>1, <1>3, <2>1, <2>2 DEF SkillInv, Apart, S!NoLeftovers
  <2> QED BY <1>4, <2>3, <2>5, <2>6, <2>7 DEF SkillInv
<1>8. CASE S!DeleteRmdir
  <2>1. loop' = loop /\ delete' = S!Resting
    BY <1>8 DEF S!DeleteRmdir
  <2>2. SkillTypes'
    BY <1>1, <1>2, <2>1, SkillVars, SkillConstants DEF SkillTypes
  <2>3. Uploading'
    BY <1>1, <1>3, <1>6, <2>1 DEF Uploading
  <2>4. Removing(loop)' /\ Removing(delete)'
    BY <1>1, <1>5, <2>1, SkillConstants DEF SkillInv, Removing
  <2>5. Apart' /\ S!NoLeftovers'
    BY <1>1, <1>3, <2>1, SkillConstants DEF SkillInv, Apart, S!NoLeftovers
  <2> QED BY <1>4, <2>2, <2>3, <2>4, <2>5 DEF SkillInv
<1> QED BY <1>7, <1>8

(* A remover that fails was not the one with all that is left to do.        *)
LEMMA RaisesStanding ==
    ASSUME SkillInv, NEW d \in S!Dest, NEW w, NEW x, S!Raises(w), NEW m, NEW p, NEW t,
           Standing(d, p, files[d], m, t, w, x),
           NEW v, v.pc # "rmtree"
    PROVE  Standing(d, p, files[d], m, t, v, x)
<1>1. ~(Removes(w, d) /\ w.todo = files[d])
  <2> SUFFICES ASSUME w.old = d, w.todo = files[d] PROVE FALSE
    BY DEF Removes
  <2>1. \/ \E f \in w.todo : f \notin files[d]
        \/ w.todo = {} /\ (S!Dest = {} \/ \E e \in S!Dest : files[e] # {})
    BY DEF S!Raises
  <2>2. \A e \in S!Dest : e = d
    BY DEF SkillInv, OneDest
  <2> QED BY <2>1, <2>2
<1> QED BY <1>1 DEF Standing, Removes

(* Either remover fails, and leaves what is left to the other.              *)
LEMMA RaisesStep ==
    ASSUME S!SkillAssumption, SkillInv, S!InstallRaises \/ S!DeleteRaises
    PROVE  SkillInv'
<1>1. /\ pkg' = pkg /\ place' = place /\ files' = files /\ man' = man /\ toggle' = toggle /\ run' = run
      /\ count' = count /\ crashes' = crashes /\ mixed' = mixed
  BY DEF S!InstallRaises, S!DeleteRaises, S!disk
<1>2. S!Dest' = S!Dest
  BY <1>1 DEF S!Dest
<1>3. Fresh' /\ OneDest'
  BY <1>1, <1>2 DEF SkillInv, Fresh, OneDest
<1>4. CASE S!InstallRaises
  <2> DEFINE v == [loop EXCEPT !.pc = "cleanup"]
  <2>1. S!Raises(loop) /\ loop.pc = "rmtree" /\ loop' = v /\ delete' = delete
    BY <1>4 DEF S!InstallRaises, S!Raises
  <2>2. v \in WorkRec /\ v.pc = "cleanup" /\ v.dir = loop.dir
    BY SkillVars DEF WorkRec
  <2> HIDE DEF v
  <2>3. SkillTypes'
    BY <1>1, <2>1, <2>2, SkillVars DEF SkillTypes
  <2>4. Uploading'
    <3>1. /\ loop.dir \in 1..count.installs /\ place[loop.dir] = "temp"
          /\ Stage(loop, pkg[loop.dir], files[loop.dir], man[loop.dir])
      BY <2>1 DEF SkillInv, Uploading
    <3>2. Stage(v, pkg[loop.dir], files[loop.dir], man[loop.dir])
      BY <2>2, <3>1 DEF Stage, Passed
    <3> QED BY <1>1, <2>1, <2>2, <3>1, <3>2 DEF Uploading
  <2>5. Installed'
    <3> SUFFICES ASSUME crashes = 0, ~mixed, NEW e \in S!Dest
                 PROVE  Standing(e, pkg[e], files[e], man[e], toggle, v, delete)
      BY <1>1, <1>2, <2>1 DEF Installed
    <3>1. Standing(e, pkg[e], files[e], man[e], toggle, loop, delete)
      BY DEF SkillInv, Installed
    <3> QED BY <2>1, <2>2, <3>1, RaisesStanding
  <2>6. Removing(loop)' /\ Removing(delete)' /\ Apart' /\ S!NoLeftovers'
    BY <1>1, <2>1, <2>2 DEF SkillInv, Removing, Apart, S!NoLeftovers
  <2> QED BY <1>3, <2>3, <2>4, <2>5, <2>6 DEF SkillInv
<1>5. CASE S!DeleteRaises
  <2>1. S!Raises(delete) /\ delete' = S!Resting /\ loop' = loop
    BY <1>5 DEF S!DeleteRaises
  <2>2. SkillTypes'
    BY <1>1, <2>1, SkillVars, SkillConstants DEF SkillTypes
  <2>3. Uploading'
    BY <1>1, <1>2, <2>1, UploadingFrame
  <2>4. Installed'
    <3> SUFFICES ASSUME crashes = 0, ~mixed, NEW e \in S!Dest
                 PROVE  Standing(e, pkg[e], files[e], man[e], toggle, loop, S!Resting)
      BY <1>1, <1>2, <2>1 DEF Installed
    <3>1. Standing(e, pkg[e], files[e], man[e], toggle, delete, loop)
      BY StandingSwap DEF SkillInv, Installed
    <3>2. Standing(e, pkg[e], files[e], man[e], toggle, S!Resting, loop)
      BY <2>1, <3>1, RaisesStanding, SkillConstants
    <3> QED BY <3>2, StandingSwap
  <2>5. Removing(loop)' /\ Removing(delete)' /\ Apart' /\ S!NoLeftovers'
    BY <1>1, <2>1, SkillConstants DEF SkillInv, Removing, Apart, S!NoLeftovers
  <2> QED BY <1>3, <2>2, <2>3, <2>4, <2>5 DEF SkillInv
<1> QED BY <1>4, <1>5

-----------------------------------------------------------------------------
(* A step of a toggle: of the directory d it changes only the manifest.     *)
LEMMA ToggleStep ==
    ASSUME S!SkillAssumption, SkillInv,
           NEW t \in ToggleRec, toggle' = t, NEW F \in [S!Dirs -> SUBSET Stored], files' = F,
           NEW m \in [S!Dirs -> ManRec], man' = m, NEW n \in CountRec, count' = n,
           n.installs = count.installs, NEW b \in BOOLEAN, mixed' = b, ~b => ~mixed,
           \A e \in S!Dirs : e \notin S!Dest => F[e] = files[e] /\ m[e] = man[e],
           ~b /\ t.pc # "idle" => loop.pc = "idle" /\ delete.pc = "idle",
           crashes = 0 /\ ~b => \A e \in S!Dest : Standing(e, pkg[e], F[e], m[e], t, loop, delete),
           pkg' = pkg, place' = place, loop' = loop, delete' = delete, run' = run, crashes' = crashes
    PROVE  SkillInv'
<1>1. S!Dest' = S!Dest
  BY DEF S!Dest
<1>2. SkillTypes'
  BY SkillVars DEF SkillTypes
<1>3. Fresh'
  <2> SUFFICES ASSUME NEW e \in S!Dirs, e > count.installs PROVE place[e] = "none" /\ F[e] = {}
    BY DEF Fresh
  <2>1. place[e] = "none" /\ files[e] = {}
    BY DEF SkillInv, Fresh
  <2> QED BY <2>1 DEF S!Dest
<1>4. Uploading'
  <2>1. loop.pc # "idle" => loop.dir \in S!Dirs /\ loop.dir \notin S!Dest
    BY UploadApart
  <2> QED BY <1>1, <2>1, UploadingFrame
<1>5. Removing(loop)' /\ Removing(delete)' /\ OneDest' /\ Apart' /\ S!NoLeftovers'
  BY <1>1 DEF SkillInv, Removing, OneDest, Apart, S!NoLeftovers
<1>6. Installed'
  BY <1>1 DEF Installed
<1> QED BY <1>2, <1>3, <1>4, <1>5, <1>6 DEF SkillInv

(* While a toggle is alone, the installed directory is whole but for the    *)
(* manifest it writes.                                                      *)
LEMMA ToggledSound ==
    ASSUME SkillInv, crashes = 0, ~mixed, loop.pc = "idle", delete.pc = "idle", NEW d \in S!Dest
    PROVE  Sound(pkg[d], files[d], man[d], toggle) /\ pkg[d] \in Packages
<1>1. Standing(d, pkg[d], files[d], man[d], toggle, loop, delete)
  BY DEF SkillInv, Installed
<1> QED BY <1>1 DEF Standing, Removes

(* What is sound stands, when nobody removes anything.                      *)
LEMMA SoundStands ==
    ASSUME NEW d, NEW p \in Packages, NEW F, NEW m, NEW t, NEW w, NEW x,
           Sound(p, F, m, t), w.pc = "idle", x.pc = "idle"
    PROVE  Standing(d, p, F, m, t, w, x)
  BY DEF Standing, Removes

(* The steps of set_enabled.                                                *)
LEMMA ToggleSteps ==
    ASSUME S!SkillAssumption, SkillInv,
           \/ \E d \in S!Dirs, on \in BOOLEAN : S!ToggleRead(d, on)
           \/ \E d \in S!Dirs : S!ToggleTruncate(d) \/ S!ToggleWrite(d)
           \/ S!ToggleFails
    PROVE  SkillInv'
<1>1. /\ files \in [S!Dirs -> SUBSET Stored] /\ man \in [S!Dirs -> ManRec] /\ count \in CountRec
      /\ toggle \in ToggleRec /\ mixed \in BOOLEAN
  BY SkillVars
<1>2. ~mixed /\ toggle.pc # "idle" => loop.pc = "idle" /\ delete.pc = "idle"
  BY DEF SkillInv, Apart
<1>3. ASSUME NEW d \in S!Dirs, NEW on \in BOOLEAN, S!ToggleRead(d, on) PROVE SkillInv'
  <2> DEFINE t == [pc |-> "read", held |-> man[d].of, on |-> on]
             n == [count EXCEPT !.toggles = @ + 1]
             b == mixed \/ loop.pc # "idle" \/ delete.pc # "idle"
  <2>1. /\ toggle.pc = "idle" /\ d \in S!Dest /\ toggle' = t /\ count' = n
        /\ pkg' = pkg /\ place' = place /\ files' = files /\ man' = man
        /\ loop' = loop /\ delete' = delete /\ run' = run /\ crashes' = crashes
    BY <1>3 DEF S!ToggleRead, S!disk
  <2>2. mixed' = b
    BY <1>3 DEF S!ToggleRead
  <2>3. n \in CountRec /\ n.installs = count.installs
    BY <1>1 DEF CountRec
  <2>4. t \in ToggleRec /\ t.pc = "read" /\ t.held = man[d].of
    BY <1>1 DEF ToggleRec, ManRec
  <2>5. b \in BOOLEAN /\ (~b => ~mixed /\ loop.pc = "idle" /\ delete.pc = "idle")
    OBVIOUS
  <2> HIDE DEF t, n, b
  <2>6. ASSUME crashes = 0, ~b, NEW e \in S!Dest
        PROVE  Standing(e, pkg[e], files[e], man[e], t, loop, delete)
    <3>1. Sound(pkg[e], files[e], man[e], toggle) /\ pkg[e] \in Packages /\ e = d
      BY <2>1, <2>5, <2>6, ToggledSound DEF SkillInv, OneDest
    <3>2. Sound(pkg[e], files[e], man[e], t)
      BY <2>1, <2>4, <3>1 DEF Sound
    <3> QED BY <2>5, <2>6, <3>1, <3>2, SoundStands
  <2> QED BY <1>1, <2>1, <2>2, <2>3, <2>4, <2>5, <2>6, ToggleStep
<1>4. ASSUME NEW d \in S!Dirs, S!ToggleTruncate(d) PROVE SkillInv'
  <2> DEFINE t == [toggle EXCEPT !.pc = "open"]
             F == [files EXCEPT ![d] = @ \cup {"manifest"}]
             m == [man EXCEPT ![d] = S!NoMan]
  <2>1. /\ toggle.pc = "read" /\ d \in S!Dest /\ toggle' = t /\ files' = F /\ man' = m
        /\ pkg' = pkg /\ place' = place /\ count' = count
        /\ loop' = loop /\ delete' = delete /\ run' = run /\ crashes' = crashes /\ mixed' = mixed
    BY <1>4 DEF S!ToggleTruncate
  <2>2. t \in ToggleRec /\ t.pc = "open" /\ t.held = toggle.held
    BY <1>1 DEF ToggleRec
  <2>3. files[d] \cup {"manifest"} \in SUBSET Stored
    BY <1>1 DEF Stored, S!Names
  <2>4. /\ F \in [S!Dirs -> SUBSET Stored] /\ m \in [S!Dirs -> ManRec] /\ F[d] = files[d] \cup {"manifest"}
        /\ \A e \in S!Dirs : e # d => F[e] = files[e] /\ m[e] = man[e]
    BY <1>1, <2>3, SkillConstants
  <2> HIDE DEF t, F, m
  <2>5. ASSUME crashes = 0, ~mixed, NEW e \in S!Dest
        PROVE  Standing(e, pkg[e], F[e], m[e], t, loop, delete)
    <3>1. loop.pc = "idle" /\ delete.pc = "idle"
      BY <1>2, <2>1, <2>5
    <3>2. Sound(pkg[e], files[e], man[e], toggle) /\ pkg[e] \in Packages /\ e = d
      BY <2>1, <2>5, <3>1, ToggledSound DEF SkillInv, OneDest
    <3>3. Sound(pkg[e], F[e], m[e], t)
      BY <2>1, <2>2, <2>4, <3>2 DEF Sound
    <3> QED BY <3>1, <3>2, <3>3, SoundStands
  <2> QED BY <1>1, <1>2, <2>1, <2>2, <2>4, <2>5, ToggleStep
<1>5. ASSUME NEW d \in S!Dirs, S!ToggleWrite(d) PROVE SkillInv'
  <2> DEFINE k == [of |-> toggle.held, on |-> toggle.on]
             m == IF "manifest" \in files[d] THEN [man EXCEPT ![d] = k] ELSE man
  <2>1. /\ toggle.pc = "open" /\ d \in S!Dest /\ toggle' = S!NoToggle /\ files' = files /\ man' = m
        /\ pkg' = pkg /\ place' = place /\ count' = count
        /\ loop' = loop /\ delete' = delete /\ run' = run /\ crashes' = crashes /\ mixed' = mixed
    BY <1>5 DEF S!ToggleWrite
  <2>2. k \in ManRec /\ k.of = toggle.held
    BY <1>1 DEF ToggleRec, ManRec
  <2> HIDE DEF k
  <2>3. /\ m \in [S!Dirs -> ManRec] /\ ("manifest" \in files[d] => m[d] = k)
        /\ \A e \in S!Dirs : e # d => m[e] = man[e]
    BY <1>1, <2>2
  <2> HIDE DEF m
  <2>4. ASSUME crashes = 0, ~mixed, NEW e \in S!Dest
        PROVE  Standing(e, pkg[e], files[e], m[e], S!NoToggle, loop, delete)
    <3>1. loop.pc = "idle" /\ delete.pc = "idle"
      BY <1>2, <2>1, <2>4
    <3>2. Sound(pkg[e], files[e], man[e], toggle) /\ pkg[e] \in Packages /\ e = d
      BY <2>1, <2>4, <3>1, ToggledSound DEF SkillInv, OneDest
    <3>3. Sound(pkg[e], files[e], m[e], S!NoToggle)
      BY <2>1, <2>2, <2>3, <3>2, SkillConstants DEF Sound
    <3> QED BY <3>1, <3>2, <3>3, SoundStands
  <2> QED BY <1>1, <1>2, <2>1, <2>3, <2>4, SkillConstants, ToggleStep
<1>6. CASE S!ToggleFails
  <2>1. /\ S!Dest = {} /\ toggle' = S!NoToggle /\ files' = files /\ man' = man
        /\ pkg' = pkg /\ place' = place /\ count' = count
        /\ loop' = loop /\ delete' = delete /\ run' = run /\ crashes' = crashes /\ mixed' = mixed
    BY <1>6 DEF S!ToggleFails, S!disk
  <2> QED BY <1>1, <2>1, SkillConstants, ToggleStep
<1> QED BY <1>3, <1>4, <1>5, <1>6

(* Runs read, and change nothing.                                           *)
LEMMA RunStep ==
    ASSUME S!SkillAssumption, SkillInv, (\E d \in S!Dirs : S!Match(d)) \/ S!Render
    PROVE  SkillInv'
<1>1. /\ pkg' = pkg /\ place' = place /\ files' = files /\ man' = man /\ loop' = loop
      /\ toggle' = toggle /\ delete' = delete /\ count' = count /\ crashes' = crashes /\ mixed' = mixed
  BY DEF S!Match, S!Render, S!disk
<1>2. run'.pc \in {"idle", "matched"}
  BY SkillConstants DEF S!Match, S!Render
<1>3. S!Dest' = S!Dest
  BY <1>1 DEF S!Dest
<1>4. SkillTypes'
  BY <1>1, <1>2, SkillVars DEF SkillTypes
<1>5. Fresh' /\ Uploading' /\ Removing(loop)' /\ Removing(delete)' /\ Installed'
  BY <1>1, <1>3 DEF SkillInv, Fresh, Uploading, Removing, Installed
<1>6. OneDest' /\ Apart' /\ S!NoLeftovers'
  BY <1>1, <1>3 DEF SkillInv, OneDest, Apart, S!NoLeftovers
<1> QED BY <1>4, <1>5, <1>6 DEF SkillInv

(* The process dies: requests are gone, directories stay.                   *)
LEMMA SkillCrashStep ==
    ASSUME S!SkillAssumption, SkillInv, S!Crash
    PROVE  SkillInv'
<1>1. /\ crashes' = crashes + 1 /\ loop' = S!Resting /\ toggle' = S!NoToggle
      /\ delete' = S!Resting /\ run' = S!NoRun
      /\ pkg' = pkg /\ place' = place /\ files' = files /\ man' = man /\ count' = count /\ mixed' = mixed
  BY DEF S!Crash, S!disk
<1>2. crashes' \in Nat /\ crashes' # 0
  BY <1>1, SkillVars
<1>3. S!Dest' = S!Dest
  BY <1>1 DEF S!Dest
<1>4. SkillTypes'
  BY <1>1, <1>2, SkillVars, SkillConstants DEF SkillTypes
<1>5. Fresh' /\ Uploading' /\ Removing(loop)' /\ Removing(delete)' /\ Installed'
  BY <1>1, <1>2, SkillConstants DEF SkillInv, Fresh, Uploading, Removing, Installed
<1>6. OneDest' /\ Apart' /\ S!NoLeftovers'
  BY <1>1, <1>2, <1>3, SkillConstants DEF SkillInv, OneDest, Apart, S!NoLeftovers
<1> QED BY <1>4, <1>5, <1>6 DEF SkillInv

(* At first there is no directory.                                          *)
LEMMA SkillInit ==
    ASSUME S!SkillAssumption, S!Init
    PROVE  SkillInv
<1>1. /\ pkg = [d \in S!Dirs |-> NoPackage] /\ place = [d \in S!Dirs |-> "none"]
      /\ files = [d \in S!Dirs |-> {}] /\ man = [d \in S!Dirs |-> S!NoMan]
      /\ loop = S!Resting /\ toggle = S!NoToggle /\ delete = S!Resting /\ run = S!NoRun
      /\ count = [installs |-> 0, toggles |-> 0, deletes |-> 0] /\ crashes = 0
  BY DEF S!Init
<1>2. mixed \in BOOLEAN
  BY Zenon DEF S!Init
<1>3. count \in CountRec
  BY <1>1, SkillConstants DEF CountRec
<1>4. S!Dest = {} /\ \A d \in S!Dirs : place[d] = "none" /\ files[d] = {}
  BY <1>1 DEF S!Dest
<1>5. SkillTypes
  <2>1. /\ pkg \in [S!Dirs -> Packages \cup {NoPackage}] /\ place \in [S!Dirs -> {"none", "temp", "dest"}]
        /\ files \in [S!Dirs -> SUBSET Stored] /\ man \in [S!Dirs -> ManRec]
    BY <1>1, SkillConstants
  <2> QED BY <1>1, <1>2, <1>3, <2>1, SkillConstants DEF SkillTypes
<1>6. Fresh /\ Installed /\ OneDest /\ S!NoLeftovers
  BY <1>4 DEF Fresh, Installed, OneDest, S!NoLeftovers
<1>7. Uploading /\ Removing(loop) /\ Removing(delete) /\ Apart
  BY <1>1, SkillConstants DEF Uploading, Removing, Apart
<1> QED BY <1>5, <1>6, <1>7 DEF SkillInv

(* The invariant of the skills directory is inductive.                      *)
LEMMA SkillStep ==
    ASSUME S!SkillAssumption, SkillInv, S!Next
    PROVE  SkillInv'
<1>1. CASE S!Install
  BY <1>1, InstallStartStep, UploadSteps, InstallUnlinkStep, RenameStep, CleanupStep, RmdirStep,
     RaisesStep, RemoveOldStep DEF S!Install
<1>2. CASE S!Request
  BY <1>2, DeleteStartStep, RunStep, DeleteUnlinkStep, RmdirStep, RaisesStep, ToggleSteps
     DEF S!Request
<1> QED BY <1>1, <1>2, SkillCrashStep DEF S!Next

(* The skills directory at rest.                                            *)
LEMMA SkillStutter ==
    ASSUME SkillInv, UNCHANGED skills
    PROVE  SkillInv'
<1>1. /\ pkg' = pkg /\ place' = place /\ files' = files /\ man' = man /\ loop' = loop
      /\ toggle' = toggle /\ delete' = delete /\ run' = run
      /\ count' = count /\ crashes' = crashes /\ mixed' = mixed
  BY DEF skills
<1>2. S!Dest' = S!Dest
  BY <1>1 DEF S!Dest
<1>3. SkillTypes'
  BY <1>1, SkillVars DEF SkillTypes
<1>4. Fresh' /\ Uploading' /\ Removing(loop)' /\ Removing(delete)' /\ Installed'
  BY <1>1, <1>2 DEF SkillInv, Fresh, Uploading, Removing, Installed
<1>5. OneDest' /\ Apart' /\ S!NoLeftovers'
  BY <1>1, <1>2 DEF SkillInv, OneDest, Apart, S!NoLeftovers
<1> QED BY <1>3, <1>4, <1>5 DEF SkillInv

(* It gives what is checked of the directory.                               *)
LEMMA SkillInvWhole ==
    ASSUME S!SkillAssumption, SkillInv
    PROVE  SkillWhole
<1>1. S!DestLoadable
  <2> SUFFICES ASSUME ~S!Busy, crashes = 0, ~mixed, NEW d \in S!Dest
               PROVE  S!Loadable(d) /\ man[d].of = pkg[d]
    BY DEF S!DestLoadable
  <2>1. loop.pc = "idle" /\ delete.pc = "idle" /\ toggle.pc = "idle"
    BY DEF S!Busy
  <2>2. Sound(pkg[d], files[d], man[d], toggle) /\ pkg[d] \in Packages
    BY <2>1, ToggledSound
  <2> QED BY <2>1, <2>2 DEF Sound, S!Loadable, S!Complete, S!SkillAssumption
<1>2. S!Cardinality(S!Dest) <= 1
  <2>1. S!Cardinality(S!Dest) = Cardinality(S!Dest)
    BY DEF S!Cardinality, Cardinality
  <2>2. S!Dest = {} \/ \E d \in S!Dest : S!Dest = {d}
    BY DEF SkillInv, OneDest
  <2>3. Cardinality(S!Dest) = 0 \/ Cardinality(S!Dest) = 1
    BY <2>2, FS_EmptySet, FS_Singleton
  <2> QED BY <2>1, <2>3
<1>3. S!TypeOK
  <2>1. files \in [S!Dirs -> SUBSET S!Names]
    BY SkillVars DEF Stored
  <2>2. loop.pc \in {"idle", "copy", "write", "written", "replace", "rmtree", "rename", "cleanup"}
        /\ toggle.pc \in {"idle", "read", "open"}
    BY SkillVars DEF WorkRec, ToggleRec
  <2> QED BY <1>2, <2>1, <2>2, SkillVars DEF S!TypeOK, ManRec
<1> QED BY <1>1, <1>3 DEF SkillWhole, SkillInv

(* A file of the installed directory goes only to a deletion, or to an      *)
(* upload that has been checked.                                            *)
LEMMA RejectedKeepsStep ==
    ASSUME S!SkillAssumption, SkillInv, S!Next, NEW d \in S!Dest
    PROVE  \/ files[d] \subseteq files'[d]
           \/ delete.pc = "rmtree" /\ delete.old = d
           \/ /\ loop.pc = "rmtree" /\ loop.old = d
              /\ "odd" \notin Ships[pkg[loop.dir]]
              /\ Refs[pkg[loop.dir]] \subseteq Ships[pkg[loop.dir]]
<1>1. d \in S!Dirs /\ files \in [S!Dirs -> SUBSET Stored]
  BY SkillVars DEF S!Dest
<1>2. CASE S!Install
  <2>1. ASSUME NEW f \in S!Names, S!InstallUnlink(f), loop.old = d
        PROVE  /\ loop.pc = "rmtree" /\ loop.old = d
               /\ "odd" \notin Ships[pkg[loop.dir]]
               /\ Refs[pkg[loop.dir]] \subseteq Ships[pkg[loop.dir]]
    <3>1. loop.pc = "rmtree"
      BY <2>1 DEF S!InstallUnlink, S!Unlinks
    <3>2. loop.dir \in S!Dirs /\ Stage(loop, pkg[loop.dir], files[loop.dir], man[loop.dir])
      BY <3>1, UploadApart DEF SkillInv, Uploading
    <3>3. /\ files[loop.dir] = Ships[pkg[loop.dir]] /\ files[loop.dir] \subseteq Stored
          /\ Refs[pkg[loop.dir]] \subseteq files[loop.dir]
      BY <1>1, <3>1, <3>2 DEF Stage, Passed
    <3> QED BY <2>1, <3>1, <3>3 DEF Stored
  <2>2. ASSUME NEW f \in S!Names, S!InstallUnlink(f), loop.old # d PROVE files[d] \subseteq files'[d]
    BY <1>1, <2>2 DEF S!InstallUnlink, S!Unlinks
  <2>3. ASSUME NEW f \in S!Names, S!Copy(f) PROVE files[d] \subseteq files'[d]
    BY <1>1, <2>3 DEF S!Copy
  <2>4. CASE S!Cleanup
    <3>1. d # loop.dir
      BY <2>4, UploadApart DEF S!Cleanup
    <3> QED BY <1>1, <2>4, <3>1 DEF S!Cleanup
  <2>5. ASSUME NEW p \in Packages, S!InstallStart(p) PROVE files[d] \subseteq files'[d]
    BY <2>5 DEF S!InstallStart
  <2>6. CASE S!Validate \/ S!Truncate \/ S!WriteManifest \/ S!Rename \/ S!InstallRmdir \/ S!InstallRaises
             \/ \E e \in S!Dirs : S!RemoveOld(e)
    BY <2>6 DEF S!Validate, S!Truncate, S!WriteManifest, S!Rename, S!InstallRmdir, S!InstallRaises,
                S!RemoveOld, S!disk
  <2> QED BY <1>2, <2>1, <2>2, <2>3, <2>4, <2>5, <2>6 DEF S!Install
<1>3. CASE S!Request
  <2>1. ASSUME NEW f \in S!Names, S!DeleteUnlink(f)
        PROVE  files[d] \subseteq files'[d] \/ (delete.pc = "rmtree" /\ delete.old = d)
    BY <1>1, <2>1 DEF S!DeleteUnlink, S!Unlinks
  <2>2. ASSUME NEW e \in S!Dirs, S!ToggleTruncate(e) PROVE files[d] \subseteq files'[d]
    BY <1>1, <2>2 DEF S!ToggleTruncate
  <2>3. ASSUME NEW e \in S!Dirs, S!DeleteStart(e) \/ S!Match(e) \/ S!ToggleWrite(e)
        PROVE  files[d] \subseteq files'[d]
    BY <2>3 DEF S!DeleteStart, S!Match, S!ToggleWrite, S!disk
  <2>4. ASSUME NEW e \in S!Dirs, NEW on \in BOOLEAN, S!ToggleRead(e, on) PROVE files[d] \subseteq files'[d]
    BY <2>4 DEF S!ToggleRead, S!disk
  <2>5. CASE S!DeleteRmdir \/ S!DeleteRaises \/ S!Render \/ S!ToggleFails
    BY <2>5 DEF S!DeleteRmdir, S!DeleteRaises, S!Render, S!ToggleFails, S!disk
  <2> QED BY <1>3, <2>1, <2>2, <2>3, <2>4, <2>5 DEF S!Request
<1>4. CASE S!Crash
  BY <1>4 DEF S!Crash, S!disk
<1> QED BY <1>2, <1>3, <1>4 DEF S!Next

(* No upload, deletion or toggle leaves half a skill under the skill's      *)
(* name or a directory that list() would offer, for any packages, number of *)
(* uploads, deletions and toggles and order of files in a listing: as long  *)
(* as the process does not die and no toggle overlaps another request.      *)
THEOREM SkillsWhole == Spec => []SkillWhole
<1> USE StoresAssumption
<1>1. Init => SkillInv
  BY SkillInit DEF Init
<1>2. SkillInv /\ [Next]_vars => SkillInv'
  BY SkillStep, SkillStutter DEF Next, vars
<1>3. SkillInv => SkillWhole
  BY SkillInvWhole
<1> QED BY <1>1, <1>2, <1>3, PTL DEF Spec

(* A package that is refused never costs the installed one a file, even     *)
(* when the process dies.                                                   *)
THEOREM RejectionHarmless == Spec => RejectedKeepsOld
<1> USE StoresAssumption
<1>1. Init => SkillInv
  BY SkillInit DEF Init
<1>2. SkillInv /\ [Next]_vars => SkillInv'
  BY SkillStep, SkillStutter DEF Next, vars
<1>3. SkillInv /\ [Next]_vars =>
        [\A d \in S!Dest :
           \/ files[d] \subseteq files'[d]
           \/ delete.pc = "rmtree" /\ delete.old = d
           \/ /\ loop.pc = "rmtree" /\ loop.old = d
              /\ "odd" \notin Ships[pkg[loop.dir]]
              /\ Refs[pkg[loop.dir]] \subseteq Ships[pkg[loop.dir]]]_S!vars
  BY RejectedKeepsStep DEF Next, vars, skills, S!vars
<1> QED BY <1>1, <1>2, <1>3, PTL DEF Spec, RejectedKeepsOld, S!RejectedKeepsOld

-----------------------------------------------------------------------------
(* The knowledge store counts with the same Cardinality.                    *)
LEMMA SameCardinality ==
    \A A : D!Cardinality(A) = Cardinality(A) /\ (D!IsFiniteSet(A) <=> IsFiniteSet(A))
  BY DEF D!Cardinality, Cardinality, D!IsFiniteSet, IsFiniteSet

(* An injective function between finite sets of the same size reaches all.  *)
LEMMA InjectiveOnto ==
    ASSUME NEW A, NEW T, IsFiniteSet(A), IsFiniteSet(T), Cardinality(A) = Cardinality(T),
           NEW f \in [A -> T], \A x, y \in A : f[x] = f[y] => x = y
    PROVE  \A t \in T : \E x \in A : f[x] = t
<1> SUFFICES ASSUME NEW t \in T, \A x \in A : f[x] # t PROVE FALSE
  OBVIOUS
<1>1. f \in [A -> T \ {t}]
  OBVIOUS
<1>2. IsFiniteSet(T \ {t}) /\ Cardinality(T \ {t}) < Cardinality(A)
  <2>1. Cardinality(T) \in Nat
    BY FS_CardinalityType
  <2>2. IsFiniteSet(T \ {t}) /\ Cardinality(T \ {t}) = Cardinality(T) - 1
    BY FS_RemoveElement
  <2> QED BY <2>1, <2>2
<1> QED BY <1>1, <1>2, FS_PigeonHole

(* An injective function keeps the number of what it is applied to.         *)
LEMMA ImageCount ==
    ASSUME NEW A, IsFiniteSet(A), NEW f, A \subseteq DOMAIN f,
           \A x, y \in A : f[x] = f[y] => x = y
    PROVE  LET T == {f[x] : x \in A} IN IsFiniteSet(T) /\ Cardinality(T) = Cardinality(A)
<1> DEFINE T == {f[x] : x \in A}
           h == [x \in A |-> f[x]]
<1>1. h \in Surjection(A, T)
  BY DEF Surjection
<1>2. IsFiniteSet(T) /\ Cardinality(T) <= Cardinality(A)
  BY <1>1, FS_Surjection
<1>5. ~(Cardinality(T) < Cardinality(A))
  <2>1. h \in [A -> T] /\ \A x, y \in A : h[x] = h[y] => x = y
    OBVIOUS
  <2> HIDE DEF T, h
  <2> QED BY <1>2, <2>1, FS_PigeonHole
<1>6. Cardinality(T) \in Nat /\ Cardinality(A) \in Nat
  BY <1>2, FS_CardinalityType
<1>7. IsFiniteSet(T) /\ Cardinality(T) = Cardinality(A)
  <2> HIDE DEF T, h
  <2> QED BY <1>2, <1>5, <1>6
<1> QED BY <1>7

(* R orders A strictly and totally.                                         *)
Total(A, R) ==
    /\ \A x \in A : <<x, x>> \notin R
    /\ \A x, y, z \in A : <<x, y>> \in R /\ <<y, z>> \in R => <<x, z>> \in R
    /\ \A x, y \in A : x # y => <<x, y>> \in R \/ <<y, x>> \in R

(* Ordered lists a finite set, each member once, in its order.              *)
LEMMA OrderedIs ==
    ASSUME NEW A, IsFiniteSet(A), NEW R, Total(A, R)
    PROVE  LET o == D!Ordered(A, R) IN
           /\ o \in [1..Cardinality(A) -> A] /\ Cardinality(A) \in Nat
           /\ \A x \in A : \E n \in 1..Cardinality(A) : o[n] = x
           /\ \A m, n \in 1..Cardinality(A) : m < n <=> <<o[m], o[n]>> \in R
<1> DEFINE N == Cardinality(A)
           Below(x) == {y \in A : <<y, x>> \in R}
           f == [x \in A |-> Cardinality(Below(x))]
           o == D!Ordered(A, R)
<1>0. N \in Nat
  BY FS_CardinalityType
<1>1. ASSUME NEW x \in A
      PROVE  IsFiniteSet(Below(x)) /\ Cardinality(Below(x)) \in 0..(N - 1)
  <2>1. Below(x) \in SUBSET (A \ {x})
    BY DEF Total
  <2>2. IsFiniteSet(A \ {x}) /\ Cardinality(A \ {x}) = N - 1
    BY FS_RemoveElement
  <2>3. IsFiniteSet(Below(x)) /\ Cardinality(Below(x)) <= N - 1
    <3> HIDE DEF Below, N
    <3> QED BY <2>1, <2>2, FS_Subset
  <2>4. Cardinality(Below(x)) \in Nat
    BY <2>3, FS_CardinalityType
  <2> QED BY <1>0, <2>3, <2>4
<1>2. ASSUME NEW x \in A, NEW y \in A, <<y, x>> \in R
      PROVE  f[y] < f[x]
  <2>1. Below(y) \in SUBSET Below(x) /\ y \in Below(x) /\ y \notin Below(y)
    BY <1>2 DEF Total
  <2>2. Cardinality(Below(y)) <= Cardinality(Below(x)) /\ Cardinality(Below(y)) # Cardinality(Below(x))
    <3>1. Below(x) # Below(y)
      BY <2>1
    <3>2. IsFiniteSet(Below(x))
      BY <1>1
    <3> HIDE DEF Below
    <3> QED BY <2>1, <3>1, <3>2, FS_Subset
  <2>3. Cardinality(Below(y)) \in Nat /\ Cardinality(Below(x)) \in Nat
    <3> HIDE DEF Below
    <3> QED BY <1>0, <1>1
  <2>4. Cardinality(Below(y)) < Cardinality(Below(x))
    <3> HIDE DEF Below
    <3> QED BY <2>2, <2>3
  <2> QED BY <2>4
<1>3. f \in [A -> 0..(N - 1)]
  BY <1>1
<1>4. \A x, y \in A : f[x] = f[y] => x = y
  <2> SUFFICES ASSUME NEW x \in A, NEW y \in A, f[x] = f[y], x # y PROVE FALSE
    OBVIOUS
  <2>1. <<x, y>> \in R \/ <<y, x>> \in R
    BY DEF Total
  <2>2. f[x] \in Int /\ f[y] \in Int
    BY <1>0, <1>3
  <2>3. f[x] < f[y] \/ f[y] < f[x]
    BY <1>2, <2>1
  <2> HIDE DEF f
  <2> QED BY <2>2, <2>3
<1>5. IsFiniteSet(0..(N - 1)) /\ Cardinality(0..(N - 1)) = N
  BY <1>0, FS_Interval, SMTT(40)
<1>6. \A t \in 0..(N - 1) : \E x \in A : f[x] = t
  <2> DEFINE B == 0..(N - 1)
  <2>1. IsFiniteSet(B) /\ Cardinality(A) = Cardinality(B) /\ f \in [A -> B]
    BY <1>3, <1>5
  <2>2. \A t \in B : \E x \in A : f[x] = t
    <3> HIDE DEF f, B
    <3> QED BY <1>4, <2>1, InjectiveOnto
  <2> QED BY <2>2
<1>7. o = [n \in 1..N |-> CHOOSE x \in A : Cardinality(Below(x)) = n - 1]
  BY Zenon DEF D!Ordered, D!Cardinality, Cardinality
<1>8. ASSUME NEW n \in 1..N PROVE o[n] \in A /\ f[o[n]] = n - 1
  <2>1. \E x \in A : f[x] = n - 1
    <3> HIDE DEF f, N
    <3>1. n - 1 \in 0..(N - 1)
      BY <1>0
    <3> QED BY <1>6, <3>1
  <2>2. \E x \in A : Cardinality(Below(x)) = n - 1
    BY <2>1
  <2>3. o[n] = CHOOSE x \in A : Cardinality(Below(x)) = n - 1
    BY <1>7
  <2>4. o[n] \in A /\ Cardinality(Below(o[n])) = n - 1
    <3> HIDE DEF Below
    <3> QED BY <2>2, <2>3
  <2> QED BY <2>4
<1>9. o \in [1..N -> A]
  <2>1. o = [n \in 1..N |-> o[n]]
    BY <1>7
  <2> QED BY <1>8, <2>1
<1>10. ASSUME NEW x \in A PROVE \E n \in 1..N : o[n] = x
  <2>1. f[x] + 1 \in 1..N /\ f[x] \in Int
    BY <1>0, <1>3
  <2>2. o[f[x] + 1] \in A /\ f[o[f[x] + 1]] = f[x]
    BY <1>8, <2>1, SMTT(40)
  <2> QED BY <1>4, <2>1, <2>2
<1>11. ASSUME NEW m \in 1..N, NEW n \in 1..N PROVE m < n <=> <<o[m], o[n]>> \in R
  <2>1. o[m] \in A /\ o[n] \in A /\ f[o[m]] = m - 1 /\ f[o[n]] = n - 1
    BY <1>8
  <2>2. \A x, y \in A : <<x, y>> \in R => f[x] < f[y]
    BY <1>2, Zenon
  <2> HIDE DEF f, o, N
  <2>3. <<o[m], o[n]>> \in R => m < n
    BY <1>0, <2>1, <2>2
  <2>4. <<o[n], o[m]>> \in R => n < m
    BY <1>0, <2>1, <2>2
  <2>5. m < n => o[m] # o[n]
    BY <1>0, <2>1
  <2> QED BY <1>0, <2>1, <2>3, <2>4, <2>5 DEF Total
<1> QED BY <1>0, <1>9, <1>10, <1>11

(* g goes through the places I in their order, and p has what s has there.  *)
Walks(g, p, s, I) ==
    /\ p = [i \in 1..Cardinality(I) |-> s[g[i]]]
    /\ \A i \in I : \E m \in 1..Cardinality(I) : g[m] = i
    /\ \A k, m \in 1..Cardinality(I) : k < m <=> g[k] < g[m]

(* Picked takes the places in their order, each once.                       *)
LEMMA PickedIs ==
    ASSUME NEW s, NEW n \in Nat, NEW I \in SUBSET (1..n)
    PROVE  /\ IsFiniteSet(I) /\ Cardinality(I) \in Nat
           /\ \E g \in [1..Cardinality(I) -> I] : Walks(g, D!Picked(s, I), s, I)
<1> DEFINE R == {ij \in I \X I : ij[1] < ij[2]}
           g == D!Ordered(I, R)
<1>1. IsFiniteSet(I)
  <2>1. IsFiniteSet(1..n)
    BY FS_Interval
  <2> QED BY <2>1, FS_Subset
<1>2. \A i, k \in I : <<i, k>> \in R <=> i < k
  OBVIOUS
<1>3. Total(I, R)
  <2> HIDE DEF R
  <2> QED BY <1>2 DEF Total
<1>4. /\ g \in [1..Cardinality(I) -> I] /\ Cardinality(I) \in Nat
      /\ \A x \in I : \E m \in 1..Cardinality(I) : g[m] = x
      /\ \A k, m \in 1..Cardinality(I) : k < m <=> <<g[k], g[m]>> \in R
  <2> HIDE DEF R
  <2> QED BY <1>1, <1>3, OrderedIs
<1>5. D!Picked(s, I) = [i \in 1..Cardinality(I) |-> s[g[i]]]
  BY SameCardinality DEF D!Picked
<1>6. \A k, m \in 1..Cardinality(I) : k < m <=> g[k] < g[m]
  <2> HIDE DEF R, g
  <2> QED BY <1>2, <1>4
<1> HIDE DEF g
<1>7. Walks(g, D!Picked(s, I), s, I)
  BY <1>4, <1>5, <1>6 DEF Walks
<1> QED BY <1>1, <1>4, <1>7

-----------------------------------------------------------------------------
(* A ranking of members of a set: a sequence without repetitions.           *)
Ranking(s, C) ==
    \E n \in Nat : s \in [1..n -> C] /\ \A i, j \in 1..n : s[i] = s[j] => i = j

(* A ranking as a sequence, and its ranks.                                  *)
LEMMA RankingFacts ==
    ASSUME NEW s, NEW C, Ranking(s, C)
    PROVE  /\ s \in Seq(C) /\ Len(s) \in Nat /\ DOMAIN s = 1..Len(s) /\ s \in [1..Len(s) -> C]
           /\ \A i, j \in 1..Len(s) : s[i] = s[j] => i = j
           /\ D!Range(s) \subseteq C
           /\ \A i \in 1..Len(s) : s[i] \in D!Range(s) /\ D!Rank(s, s[i]) = i
           /\ \A c \in D!Range(s) : D!Rank(s, c) \in 1..Len(s) /\ s[D!Rank(s, c)] = c
<1>1. PICK n \in Nat : s \in [1..n -> C] /\ \A i, j \in 1..n : s[i] = s[j] => i = j
  BY DEF Ranking
<1>2. s \in Seq(C) /\ Len(s) = n /\ DOMAIN s = 1..n
  BY <1>1
<1>3. \A c : c \in D!Range(s) <=> \E i \in 1..n : s[i] = c
  BY <1>2 DEF D!Range
<1>4. ASSUME NEW c \in D!Range(s) PROVE D!Rank(s, c) \in 1..n /\ s[D!Rank(s, c)] = c
  BY <1>2, <1>3 DEF D!Rank
<1>5. ASSUME NEW i \in 1..n PROVE s[i] \in D!Range(s) /\ D!Rank(s, s[i]) = i
  BY <1>1, <1>3, <1>4
<1> QED BY <1>1, <1>2, <1>3, <1>4, <1>5

(* As many are ranked as the ranking is long.                               *)
LEMMA RankingCount ==
    ASSUME NEW s, NEW C, Ranking(s, C)
    PROVE  IsFiniteSet(D!Range(s)) /\ Cardinality(D!Range(s)) = Len(s)
<1>1. /\ Len(s) \in Nat /\ DOMAIN s = 1..Len(s)
      /\ \A i, j \in 1..Len(s) : s[i] = s[j] => i = j
  BY RankingFacts
<1>2. IsFiniteSet(1..Len(s)) /\ Cardinality(1..Len(s)) = Len(s)
  BY <1>1, FS_Interval, SMTT(40)
<1>3. IsFiniteSet({s[i] : i \in 1..Len(s)}) /\ Cardinality({s[i] : i \in 1..Len(s)}) = Cardinality(1..Len(s))
  BY <1>1, <1>2, ImageCount
<1>4. D!Range(s) = {s[i] : i \in 1..Len(s)}
  BY <1>1 DEF D!Range
<1> QED BY <1>2, <1>3, <1>4

(* What is picked from a ranking is one, of what is at the places.          *)
LEMMA PickedRanking ==
    ASSUME NEW s, NEW C, Ranking(s, C), NEW I \in SUBSET (1..Len(s))
    PROVE  /\ Ranking(D!Picked(s, I), C)
           /\ \A c : c \in D!Range(D!Picked(s, I)) <=> \E i \in I : s[i] = c
           /\ \A i, j \in 1..Len(D!Picked(s, I)) :
                 i < j <=> D!Rank(s, D!Picked(s, I)[i]) < D!Rank(s, D!Picked(s, I)[j])
           /\ Len(D!Picked(s, I)) = Cardinality(I)
<1> DEFINE p == D!Picked(s, I)
           N == Cardinality(I)
<1>1. /\ Len(s) \in Nat /\ s \in [1..Len(s) -> C]
      /\ \A i, j \in 1..Len(s) : s[i] = s[j] => i = j
      /\ \A i \in 1..Len(s) : D!Rank(s, s[i]) = i
  BY RankingFacts
<1>2. N \in Nat
  BY <1>1, PickedIs
<1>3. PICK g \in [1..N -> I] :
        /\ p = [i \in 1..N |-> s[g[i]]]
        /\ \A i \in I : \E m \in 1..N : g[m] = i
        /\ \A k, m \in 1..N : k < m <=> g[k] < g[m]
  <2>1. PICK g \in [1..N -> I] : Walks(g, p, s, I)
    BY <1>1, PickedIs
  <2> QED BY <2>1, Zenon DEF Walks
<1> HIDE DEF N, p
<1>4. p \in [1..N -> C] /\ \A m \in 1..N : p[m] = s[g[m]] /\ g[m] \in 1..Len(s)
  BY <1>1, <1>3
<1>5. \A k, m \in 1..N : p[k] = p[m] => k = m
  <2> SUFFICES ASSUME NEW k \in 1..N, NEW m \in 1..N, p[k] = p[m] PROVE k = m
    OBVIOUS
  <2>1. g[k] = g[m]
    BY <1>1, <1>4
  <2> QED BY <1>2, <1>3, <1>4, <2>1
<1>6. Ranking(p, C)
  BY <1>2, <1>4, <1>5 DEF Ranking
<1>7. Len(p) = N /\ DOMAIN p = 1..N
  BY <1>2, <1>4
<1>8. \A c : c \in D!Range(p) <=> \E i \in I : s[i] = c
  <2> SUFFICES ASSUME NEW c PROVE c \in D!Range(p) <=> \E i \in I : s[i] = c
    OBVIOUS
  <2>1. c \in D!Range(p) <=> \E m \in 1..N : p[m] = c
    BY <1>7 DEF D!Range
  <2> QED BY <1>3, <1>4, <2>1
<1>9. \A i, k \in 1..N : i < k <=> D!Rank(s, p[i]) < D!Rank(s, p[k])
  BY <1>1, <1>3, <1>4
<1> QED BY <1>6, <1>7, <1>8, <1>9 DEF p, N

(* A filter.                                                                *)
LEMMA WithinIs ==
    ASSUME NEW s, NEW C, Ranking(s, C), NEW T
    PROVE  /\ Ranking(D!Within(s, T), C)
           /\ D!Range(D!Within(s, T)) = D!Range(s) \cap T
<1> DEFINE I == {i \in DOMAIN s : s[i] \in T}
<1>1. Len(s) \in Nat /\ DOMAIN s = 1..Len(s)
  BY RankingFacts
<1>2. I \in SUBSET (1..Len(s))
  BY <1>1
<1>3. D!Within(s, T) = D!Picked(s, I)
  BY DEF D!Within
<1>4. \A c : c \in D!Range(s) /\ c \in T <=> \E i \in I : s[i] = c
  BY DEF D!Range
<1> HIDE DEF I
<1>5. Ranking(D!Picked(s, I), C) /\ \A c : c \in D!Range(D!Picked(s, I)) <=> \E i \in I : s[i] = c
  BY <1>2, PickedRanking
<1> QED BY <1>3, <1>4, <1>5

(* The rows of both rankings: those of the vector search first.             *)
LEMMA MergedIs ==
    ASSUME NEW v, NEW k, NEW C, Ranking(v, C), Ranking(k, C)
    PROVE  /\ Ranking(D!Merged(v, k), C)
           /\ D!Range(D!Merged(v, k)) = D!Range(v) \cup D!Range(k)
           /\ \A a \in D!Range(v) : D!Rank(D!Merged(v, k), a) = D!Rank(v, a)
           /\ \A a \in D!Range(v), b \in D!Range(k) \ D!Range(v) :
                 D!Rank(D!Merged(v, k), a) < D!Rank(D!Merged(v, k), b)
<1> DEFINE w == D!Within(k, D!Range(k) \ D!Range(v))
           m == D!Merged(v, k)
<1>1. Ranking(w, C) /\ D!Range(w) = D!Range(k) \ D!Range(v)
  BY WithinIs
<1>2. m = v \o w
  BY DEF D!Merged
<1>3. /\ v \in Seq(C) /\ Len(v) \in Nat /\ DOMAIN v = 1..Len(v) /\ v \in [1..Len(v) -> C]
      /\ \A i, j \in 1..Len(v) : v[i] = v[j] => i = j
      /\ \A i \in 1..Len(v) : v[i] \in D!Range(v) /\ D!Rank(v, v[i]) = i
      /\ \A c \in D!Range(v) : D!Rank(v, c) \in 1..Len(v) /\ v[D!Rank(v, c)] = c
  BY RankingFacts
<1> HIDE DEF w, m
<1>4. /\ w \in Seq(C) /\ Len(w) \in Nat /\ DOMAIN w = 1..Len(w) /\ w \in [1..Len(w) -> C]
      /\ \A i, j \in 1..Len(w) : w[i] = w[j] => i = j
      /\ \A i \in 1..Len(w) : w[i] \in D!Range(w)
      /\ \A c \in D!Range(w) : D!Rank(w, c) \in 1..Len(w) /\ w[D!Rank(w, c)] = c
  BY <1>1, RankingFacts
<1> DEFINE n == Len(v) + Len(w)
<1>5. /\ n \in Nat /\ m \in Seq(C) /\ Len(m) = n /\ m \in [1..n -> C]
      /\ \A i \in 1..Len(v) : m[i] = v[i] /\ i \in 1..n
      /\ \A i \in 1..n : i > Len(v) => i - Len(v) \in 1..Len(w) /\ m[i] = w[i - Len(v)]
      /\ \A i \in 1..Len(w) : Len(v) + i \in 1..n /\ m[Len(v) + i] = w[i]
  <2>1. m \in Seq(C) /\ Len(m) = n
    BY <1>2, <1>3, <1>4
  <2>2. m \in [1..n -> C]
    BY <2>1
  <2>3. \A i \in 1..n : m[i] = IF i <= Len(v) THEN v[i] ELSE w[i - Len(v)]
    BY <1>2, <1>3, <1>4
  <2>4. n \in Nat
    BY <1>3, <1>4
  <2>5. ASSUME NEW i \in 1..Len(v) PROVE m[i] = v[i] /\ i \in 1..n
    BY <1>3, <1>4, <2>3
  <2>6. ASSUME NEW i \in 1..n, i > Len(v) PROVE i - Len(v) \in 1..Len(w) /\ m[i] = w[i - Len(v)]
    BY <1>3, <1>4, <2>3, <2>6
  <2>7. ASSUME NEW i \in 1..Len(w) PROVE Len(v) + i \in 1..n /\ m[Len(v) + i] = w[i]
    <3>1. Len(v) + i \in 1..n /\ ~(Len(v) + i <= Len(v)) /\ (Len(v) + i) - Len(v) = i
      BY <1>3, <1>4
    <3> QED BY <2>3, <3>1
  <2> HIDE DEF n
  <2> QED BY <2>1, <2>2, <2>4, <2>5, <2>6, <2>7
<1> HIDE DEF n
<1>6. \A i, j \in 1..n : m[i] = m[j] => i = j
  <2> SUFFICES ASSUME NEW i \in 1..n, NEW j \in 1..n, m[i] = m[j] PROVE i = j
    OBVIOUS
  <2>1. CASE i <= Len(v) /\ j <= Len(v)
    BY <2>1, <1>3, <1>5
  <2>2. CASE i > Len(v) /\ j > Len(v)
    BY <2>2, <1>3, <1>4, <1>5
  <2>3. CASE i <= Len(v) /\ j > Len(v)
    <3>1. m[i] \in D!Range(v) /\ m[j] \in D!Range(w)
      BY <2>3, <1>3, <1>4, <1>5
    <3> QED BY <1>1, <3>1
  <2>4. CASE i > Len(v) /\ j <= Len(v)
    <3>1. m[j] \in D!Range(v) /\ m[i] \in D!Range(w)
      BY <2>4, <1>3, <1>4, <1>5
    <3> QED BY <1>1, <3>1
  <2> QED BY <1>3, <2>1, <2>2, <2>3, <2>4
<1>7. Ranking(m, C)
  BY <1>5, <1>6 DEF Ranking
<1>8. /\ \A i \in 1..n : m[i] \in D!Range(m) /\ D!Rank(m, m[i]) = i
      /\ \A c \in D!Range(m) : D!Rank(m, c) \in 1..n /\ m[D!Rank(m, c)] = c
  BY <1>5, <1>7, RankingFacts
<1>9. D!Range(m) = D!Range(v) \cup D!Range(k)
  <2>1. ASSUME NEW c \in D!Range(m) PROVE c \in D!Range(v) \cup D!Range(w)
    <3>1. PICK i \in 1..n : m[i] = c
      BY <1>8
    <3>2. CASE i <= Len(v)
      BY <3>1, <3>2, <1>3, <1>5
    <3>3. CASE i > Len(v)
      BY <3>1, <3>3, <1>4, <1>5
    <3> QED BY <1>3, <3>2, <3>3
  <2>2. ASSUME NEW c \in D!Range(v) PROVE c \in D!Range(m)
    BY <1>3, <1>5, <1>8
  <2>3. ASSUME NEW c \in D!Range(w) PROVE c \in D!Range(m)
    BY <1>4, <1>5, <1>8
  <2> QED BY <1>1, <2>1, <2>2, <2>3
<1>10. ASSUME NEW a \in D!Range(v) PROVE D!Rank(m, a) = D!Rank(v, a) /\ D!Rank(m, a) <= Len(v)
  <2>1. D!Rank(v, a) \in 1..Len(v) /\ m[D!Rank(v, a)] = a /\ D!Rank(v, a) \in 1..n
    BY <1>3, <1>5
  <2> QED BY <1>3, <1>8, <2>1
<1>11. ASSUME NEW b \in D!Range(k) \ D!Range(v) PROVE D!Rank(m, b) \in 1..n /\ D!Rank(m, b) > Len(v)
  <2>1. D!Rank(m, b) \in 1..n /\ m[D!Rank(m, b)] = b
    BY <1>8, <1>9
  <2>2. D!Rank(m, b) <= Len(v) => b \in D!Range(v)
    BY <1>3, <1>5, <2>1
  <2> QED BY <1>3, <1>5, <2>1, <2>2
<1>12. ASSUME NEW a \in D!Range(v), NEW b \in D!Range(k) \ D!Range(v) PROVE D!Rank(m, a) < D!Rank(m, b)
  <2>1. D!Rank(m, a) \in Nat
    BY <1>3, <1>10
  <2> QED BY <1>3, <1>5, <1>10, <1>11, <2>1
<1> QED BY <1>7, <1>9, <1>10, <1>12 DEF m

-----------------------------------------------------------------------------
(* A non-empty set of numbers has a least one.                              *)
LEMMA LeastOf ==
    ASSUME NEW A \in SUBSET Nat, A # {}
    PROVE  \E x \in A : \A y \in A : x <= y
<1> DEFINE R == OpToRel(<, Nat)
<1>1. IsWellFoundedOn(R, Nat)
  BY NatLessThanWellFounded, Zenon
<1>2. \A i, k \in Nat : i < k => <<i, k>> \in R
  BY DEF OpToRel
<1> HIDE DEF R
<1>3. PICK x \in A : \A y \in A : ~(<<y, x>> \in R)
  BY <1>1, WFMin
<1>4. ASSUME NEW y \in A PROVE x <= y
  <2>1. x \in Nat /\ y \in Nat
    OBVIOUS
  <2>2. ~(y < x)
    BY <1>2, <1>3, <2>1
  <2> QED BY <2>1, <2>2
<1> QED BY <1>4

(* The products that make the common denominator, up to n.                  *)
Products(F, n) == F = [i \in 0..n |-> IF i = 0 THEN 1 ELSE F[i - 1] * (K + i)]

(* They exist ...                                                           *)
LEMMA ProductsExist ==
    ASSUME K \in Nat
    PROVE  \A n \in Nat : \E F \in [0..n -> Nat] : Products(F, n)
<1> DEFINE B == {n \in Nat : ~ \E F \in [0..n -> Nat] : Products(F, n)}
<1> SUFFICES ASSUME B # {} PROVE FALSE
  OBVIOUS
<1>1. PICK n \in B : \A m \in B : n <= m
  BY LeastOf
<1>2. CASE n = 0
  <2> DEFINE G == [i \in 0..0 |-> 1]
  <2>1. G \in [0..0 -> Nat] /\ Products(G, 0)
    BY DEF Products
  <2> QED BY <1>2, <2>1
<1>3. CASE n # 0
  <2>1. n - 1 \in Nat /\ n \in Nat /\ n - 1 \notin B
    BY <1>1, <1>3, SMTT(40)
  <2>2. PICK F \in [0..(n - 1) -> Nat] : Products(F, n - 1)
    BY <2>1
  <2> DEFINE G == [i \in 0..n |-> IF i = n THEN F[n - 1] * (K + n) ELSE F[i]]
  <2>3. F[n - 1] * (K + n) \in Nat
    <3>1. F[n - 1] \in Nat /\ K + n \in Nat
      BY <2>1, <2>2
    <3> QED BY <3>1
  <2>4. ASSUME NEW i \in 0..n
        PROVE  G[i] \in Nat /\ G[i] = IF i = 0 THEN 1 ELSE G[i - 1] * (K + i)
    <3>1. CASE i = n
      <4>1. G[n] = F[n - 1] * (K + n) /\ G[n - 1] = F[n - 1]
        BY <2>1
      <4> QED BY <1>3, <2>3, <3>1, <4>1
    <3>2. CASE i # n
      <4>1. i \in 0..(n - 1) /\ G[i] = F[i] /\ F[i] \in Nat
        BY <2>1, <2>2, <3>2
      <4>2. F[i] = IF i = 0 THEN 1 ELSE F[i - 1] * (K + i)
        BY <2>2, <4>1 DEF Products
      <4>3. i # 0 => i - 1 \in 0..n /\ i - 1 # n
        BY <2>1, <4>1
      <4> QED BY <4>1, <4>2, <4>3
    <3> QED BY <3>1, <3>2
  <2>5. G \in [0..n -> Nat] /\ Products(G, n)
    <3>1. G = [i \in 0..n |-> G[i]]
      OBVIOUS
    <3> HIDE DEF G
    <3> QED BY <2>4, <3>1 DEF Products
  <2> HIDE DEF G
  <2> QED BY <2>1, <2>5, <1>1
<1> QED BY <1>2, <1>3

(* ... and the common denominator is a number.                              *)
LEMMA DenominatorNat ==
    ASSUME D!KnowledgeAssumption
    PROVE  D!Denominator \in Nat
<1> DEFINE F == CHOOSE G : Products(G, TopK)
<1>1. K \in Nat /\ TopK \in Nat
  BY DEF D!KnowledgeAssumption
<1>2. D!Denominator = F[TopK]
  BY Zenon DEF D!Denominator, Products
<1>3. Products(F, TopK)
  <2>1. \E G : Products(G, TopK)
    BY <1>1, ProductsExist
  <2> QED BY <2>1
<1> HIDE DEF F
<1> DEFINE B == {n \in 0..TopK : F[n] \notin Nat}
<1>4. ASSUME B # {} PROVE FALSE
  <2>1. PICK n \in B : \A m \in B : n <= m
    <3>1. B \in SUBSET Nat
      BY <1>1
    <3> HIDE DEF B
    <3> QED BY <1>4, <3>1, LeastOf
  <2>2. n \in 0..TopK /\ F[n] = IF n = 0 THEN 1 ELSE F[n - 1] * (K + n)
    BY <1>3, <2>1 DEF Products
  <2>3. n # 0 => n - 1 \in 0..TopK /\ F[n - 1] \in Nat
    BY <1>1, <2>1, <2>2
  <2>4. n # 0 => F[n - 1] * (K + n) \in Nat
    <3>1. K + n \in Nat
      BY <1>1, <2>2
    <3> QED BY <2>3, <3>1
  <2> QED BY <2>1, <2>2, <2>4
<1> QED BY <1>1, <1>2, <1>4

(* A larger divisor gives no larger quotient.                               *)
LEMMA QuotientFalls ==
    ASSUME NEW a \in Nat, NEW x \in Nat \ {0}, NEW y \in Nat \ {0}, x <= y
    PROVE  a \div x \in Nat /\ a \div y \in Nat /\ a \div y <= a \div x
<1> DEFINE q == a \div x
           r == a \div y
<1>1. q \in Nat /\ r \in Nat
  OBVIOUS
<1>2. a < x * (q + 1)
  <2>1. a = x * q + (a % x) /\ a % x < x /\ a % x \in Nat
    OBVIOUS
  <2>2. x * (q + 1) = x * q + x /\ x * q \in Nat
    BY <1>1
  <2> HIDE DEF q
  <2> QED BY <2>1, <2>2
<1>3. y * r <= a
  <2>1. a = y * r + (a % y) /\ a % y \in Nat
    OBVIOUS
  <2>2. y * r \in Nat
    BY <1>1
  <2> HIDE DEF r
  <2> QED BY <2>1, <2>2
<1> HIDE DEF q, r
<1>4. x * r <= y * r
  BY <1>1
<1>5. ~(q < r)
  <2> SUFFICES ASSUME q < r PROVE FALSE
    OBVIOUS
  <2>1. q + 1 <= r
    BY <1>1
  <2>2. x * (q + 1) <= x * r
    BY <1>1, <2>1
  <2>3. x * (q + 1) \in Nat /\ x * r \in Nat /\ y * r \in Nat
    BY <1>1
  <2> QED BY <1>2, <1>3, <1>4, <2>2, <2>3
<1> QED BY <1>1, <1>5 DEF q, r

(* What a ranking adds to a score: less the later the rank, and nothing if  *)
(* the chunk is not ranked.                                                 *)
LEMMA PartFalls ==
    ASSUME D!KnowledgeAssumption, NEW s, NEW C, Ranking(s, C)
    PROVE  /\ \A c : D!Part(s, c) \in Nat
           /\ \A a, b : a \in D!Range(s) /\ (b \in D!Range(s) => D!Rank(s, a) < D!Rank(s, b))
                           => D!Part(s, b) <= D!Part(s, a)
<1>1. K \in Nat
  BY DEF D!KnowledgeAssumption
<1>2. Len(s) \in Nat /\ \A c \in D!Range(s) : D!Rank(s, c) \in 1..Len(s)
  BY RankingFacts
<1>3. \A c \in D!Range(s) : K + D!Rank(s, c) \in Nat \ {0}
  BY <1>1, <1>2
<1>4. D!Denominator \in Nat
  BY DenominatorNat
<1>5. ASSUME NEW c PROVE D!Part(s, c) \in Nat
  <2>1. CASE c \in D!Range(s)
    <3>1. D!Part(s, c) = D!Denominator \div (K + D!Rank(s, c))
      BY <2>1 DEF D!Part
    <3> QED BY <1>3, <1>4, <2>1, <3>1, QuotientFalls
  <2>2. CASE c \notin D!Range(s)
    BY <2>2 DEF D!Part
  <2> QED BY <2>1, <2>2
<1>6. ASSUME NEW a, NEW b, a \in D!Range(s), b \in D!Range(s) => D!Rank(s, a) < D!Rank(s, b)
      PROVE  D!Part(s, b) <= D!Part(s, a)
  <2>1. CASE b \in D!Range(s)
    <3>1. /\ D!Part(s, b) = D!Denominator \div (K + D!Rank(s, b))
          /\ D!Part(s, a) = D!Denominator \div (K + D!Rank(s, a))
      BY <2>1, <1>6 DEF D!Part
    <3>2. K + D!Rank(s, a) <= K + D!Rank(s, b)
      BY <1>1, <1>2, <1>6, <2>1
    <3> QED BY <1>3, <1>4, <1>6, <2>1, <3>1, <3>2, QuotientFalls
  <2>2. CASE b \notin D!Range(s)
    <3>1. D!Part(s, b) = 0
      BY <2>2 DEF D!Part
    <3> QED BY <1>5, <3>1
  <2> QED BY <2>1, <2>2
<1> QED BY <1>5, <1>6

(* Scores are numbers, and agreement of the rankings shows in them.         *)
LEMMA ScoreFacts ==
    ASSUME D!KnowledgeAssumption, NEW v, NEW k, NEW C, Ranking(v, C), Ranking(k, C)
    PROVE  /\ \A c : D!Score(v, k, c) \in Nat
           /\ \A a, b : D!Part(v, b) <= D!Part(v, a) /\ D!Part(k, b) <= D!Part(k, a)
                           => D!Score(v, k, b) <= D!Score(v, k, a)
<1>1. WVector \in Nat /\ WKeyword \in Nat
  BY DEF D!KnowledgeAssumption
<1>2. \A c : D!Part(v, c) \in Nat /\ D!Part(k, c) \in Nat
  BY PartFalls
<1>3. \A w, x, y \in Nat : w * x \in Nat /\ (x <= y => w * x <= w * y)
  OBVIOUS
<1>4. \A c : D!Score(v, k, c) = WVector * D!Part(v, c) + WKeyword * D!Part(k, c)
  BY DEF D!Score
<1>5. \A c : WVector * D!Part(v, c) \in Nat /\ WKeyword * D!Part(k, c) \in Nat
  BY <1>1, <1>2, <1>3
<1>6. ASSUME NEW a, NEW b, D!Part(v, b) <= D!Part(v, a), D!Part(k, b) <= D!Part(k, a)
      PROVE  D!Score(v, k, b) <= D!Score(v, k, a)
  <2>1. WVector * D!Part(v, b) <= WVector * D!Part(v, a) /\ WKeyword * D!Part(k, b) <= WKeyword * D!Part(k, a)
    BY <1>1, <1>2, <1>3, <1>6
  <2> QED BY <1>4, <1>5, <2>1
<1> QED BY <1>4, <1>5, <1>6

-----------------------------------------------------------------------------
(* The order of the fused ranking: by score, and for equal scores as the    *)
(* rows were met.                                                           *)
Better(v, k, a, b) ==
    \/ D!Score(v, k, a) > D!Score(v, k, b)
    \/ /\ D!Score(v, k, a) = D!Score(v, k, b)
       /\ D!Rank(D!Merged(v, k), a) < D!Rank(D!Merged(v, k), b)

(* The fused ranking has every chunk that either ranking has, best first.   *)
LEMMA FusionIs ==
    ASSUME D!KnowledgeAssumption, NEW v, NEW k, NEW C, Ranking(v, C), Ranking(k, C)
    PROVE  /\ Ranking(D!Fusion(v, k), C)
           /\ D!Range(D!Fusion(v, k)) = D!Range(v) \cup D!Range(k)
           /\ \A i, j \in 1..Len(D!Fusion(v, k)) :
                 i < j <=> Better(v, k, D!Fusion(v, k)[i], D!Fusion(v, k)[j])
<1> DEFINE m == D!Merged(v, k)
           A == D!Range(m)
           B == {ab \in A \X A : \/ D!Score(v, k, ab[1]) > D!Score(v, k, ab[2])
                                 \/ D!Score(v, k, ab[1]) = D!Score(v, k, ab[2])
                                    /\ D!Rank(m, ab[1]) < D!Rank(m, ab[2])}
           f == D!Fusion(v, k)
           n == Cardinality(A)
<1>1. f = D!Ordered(A, B)
  BY Zenon DEF D!Fusion
<1>2. Ranking(m, C) /\ A = D!Range(v) \cup D!Range(k)
  BY MergedIs
<1>3. /\ A \subseteq C
      /\ \A c \in A : D!Rank(m, c) \in Int /\ m[D!Rank(m, c)] = c
  <2>1. /\ Len(m) \in Nat /\ A \subseteq C
        /\ \A c \in A : D!Rank(m, c) \in 1..Len(m) /\ m[D!Rank(m, c)] = c
    BY <1>2, RankingFacts
  <2> QED BY <2>1
<1>4. IsFiniteSet(A)
  BY <1>2, RankingCount
<1>5. \A c : D!Score(v, k, c) \in Nat
  BY ScoreFacts
<1>6. \A a, b \in A : <<a, b>> \in B <=> Better(v, k, a, b)
  BY DEF Better
<1> HIDE DEF A, B, f, m
<1>7. Total(A, B)
  <2>1. \A a, b \in A : Better(v, k, a, b) <=> \/ D!Score(v, k, a) > D!Score(v, k, b)
                                               \/ /\ D!Score(v, k, a) = D!Score(v, k, b)
                                                  /\ D!Rank(m, a) < D!Rank(m, b)
    BY DEF Better, m
  <2>2. ASSUME NEW x \in A PROVE <<x, x>> \notin B
    BY <1>3, <1>5, <1>6, <2>1
  <2>3. ASSUME NEW x \in A, NEW y \in A, NEW z \in A, <<x, y>> \in B, <<y, z>> \in B
        PROVE  <<x, z>> \in B
    BY <1>3, <1>5, <1>6, <2>1, <2>3
  <2>4. ASSUME NEW x \in A, NEW y \in A, x # y PROVE <<x, y>> \in B \/ <<y, x>> \in B
    <3>1. D!Rank(m, x) # D!Rank(m, y)
      BY <1>3, <2>4
    <3> QED BY <1>3, <1>5, <1>6, <2>1, <3>1
  <2> QED BY <2>2, <2>3, <2>4 DEF Total
<1>8. /\ f \in [1..n -> A] /\ n \in Nat
      /\ \A x \in A : \E i \in 1..n : f[i] = x
      /\ \A i, j \in 1..n : i < j <=> <<f[i], f[j]>> \in B
  BY <1>1, <1>4, <1>7, OrderedIs
<1> HIDE DEF n
<1>9. \A i, j \in 1..n : f[i] = f[j] => i = j
  <2> SUFFICES ASSUME NEW i \in 1..n, NEW j \in 1..n, f[i] = f[j] PROVE i = j
    OBVIOUS
  <2>1. ~(i < j) /\ ~(j < i)
    BY <1>7, <1>8 DEF Total
  <2> QED BY <1>8, <2>1
<1>10. Ranking(f, C)
  <2>1. f \in [1..n -> C]
    BY <1>3, <1>8
  <2> QED BY <1>8, <1>9, <2>1 DEF Ranking
<1>11. Len(f) = n /\ DOMAIN f = 1..n
  BY <1>8
<1>12. D!Range(f) = A
  BY <1>8, <1>11 DEF D!Range
<1>13. \A i, j \in 1..n : i < j <=> Better(v, k, f[i], f[j])
  BY <1>6, <1>8
<1> QED BY <1>2, <1>10, <1>11, <1>12, <1>13 DEF f

(* What both rankings put first is better.                                  *)
LEMMA AgreedIsBetter ==
    ASSUME D!KnowledgeAssumption, NEW v, NEW k, NEW C, Ranking(v, C), Ranking(k, C),
           NEW a, NEW b, b \in D!Range(v) \cup D!Range(k),
           a \in D!Range(v), b \in D!Range(v) => D!Rank(v, a) < D!Rank(v, b),
           a \in D!Range(k), b \in D!Range(k) => D!Rank(k, a) < D!Rank(k, b)
    PROVE  Better(v, k, a, b)
<1>1. D!Score(v, k, b) <= D!Score(v, k, a) /\ D!Score(v, k, b) \in Nat /\ D!Score(v, k, a) \in Nat
  <2>1. D!Part(v, b) <= D!Part(v, a) /\ D!Part(k, b) <= D!Part(k, a)
    BY PartFalls
  <2> QED BY <2>1, ScoreFacts
<1>2. D!Rank(D!Merged(v, k), a) < D!Rank(D!Merged(v, k), b)
  <2>1. CASE b \in D!Range(v)
    <3>1. D!Rank(D!Merged(v, k), a) = D!Rank(v, a) /\ D!Rank(D!Merged(v, k), b) = D!Rank(v, b)
      BY <2>1, MergedIs
    <3> QED BY <2>1, <3>1
  <2>2. CASE b \notin D!Range(v)
    BY <2>2, MergedIs
  <2> QED BY <2>1, <2>2
<1> QED BY <1>1, <1>2 DEF Better

(* Of a set of places, those up to which at most q lie are min(q, all).     *)
LEMMA FirstOf ==
    ASSUME NEW n \in Nat, NEW A \in SUBSET (1..n), NEW q \in Nat
    PROVE  /\ Cardinality(A) \in Nat
           /\ Cardinality({i \in A : Cardinality({j \in A : j <= i}) <= q})
                = IF q < Cardinality(A) THEN q ELSE Cardinality(A)
<1> DEFINE N == Cardinality(A)
           Upto(i) == {j \in A : j <= i}
           t == IF q < N THEN q ELSE N
<1>1. IsFiniteSet(A) /\ N \in Nat
  BY PickedIs
<1>2. PICK g \in [1..N -> A] : Walks(g, D!Picked(<<>>, A), <<>>, A)
  BY PickedIs
<1>3. /\ \A i \in A : \E m \in 1..N : g[m] = i
      /\ \A k, m \in 1..N : k < m <=> g[k] < g[m]
  BY <1>2, Zenon DEF Walks
<1>4. ASSUME NEW m \in 1..N PROVE g[m] \in Int
  <2>1. g[m] \in A
    BY <1>2
  <2>2. \A i \in A : i \in 1..n
    OBVIOUS
  <2>3. g[m] \in 1..n
    BY <2>1, <2>2, Zenon
  <2> QED BY <2>3
<1> HIDE DEF N
<1>5. \A k, m \in 1..N : g[k] = g[m] => k = m
  <2> SUFFICES ASSUME NEW k \in 1..N, NEW m \in 1..N, g[k] = g[m] PROVE k = m
    OBVIOUS
  <2>1. ~(k < m) /\ ~(m < k)
    BY <1>3, <1>4
  <2> QED BY <1>1, <2>1
<1>6. ASSUME NEW m \in 0..N PROVE Cardinality({g[k] : k \in 1..m}) = m
  <2>1. 1..m \subseteq DOMAIN g /\ \A x, y \in 1..m : g[x] = g[y] => x = y
    BY <1>1, <1>5
  <2>2. IsFiniteSet(1..m) /\ Cardinality(1..m) = m
    BY <1>1, FS_Interval
  <2> DEFINE I == 1..m
  <2>3. IsFiniteSet(I) /\ I \subseteq DOMAIN g /\ \A x, y \in I : g[x] = g[y] => x = y
    BY <2>1, <2>2
  <2>4. Cardinality({g[k] : k \in I}) = Cardinality(I)
    <3> HIDE DEF I
    <3> QED BY <2>3, ImageCount
  <2> QED BY <2>2, <2>4
<1>7. ASSUME NEW m \in 1..N PROVE Cardinality(Upto(g[m])) = m
  <2>1. \A k \in 1..N : k <= m <=> g[k] <= g[m]
    BY <1>1, <1>3, <1>4
  <2>2. Upto(g[m]) = {g[k] : k \in 1..m}
    <3>1. ASSUME NEW i \in Upto(g[m]) PROVE i \in {g[k] : k \in 1..m}
      <4>1. PICK k \in 1..N : g[k] = i
        BY <1>3
      <4>2. k \in 1..m
        BY <1>1, <2>1, <4>1
      <4> QED BY <4>1, <4>2
    <3>2. ASSUME NEW k \in 1..m PROVE g[k] \in Upto(g[m])
      <4>1. k \in 1..N /\ k <= m
        BY <1>1
      <4> QED BY <2>1, <4>1
    <3> HIDE DEF Upto
    <3> QED BY <3>1, <3>2
  <2>3. m \in 0..N
    BY <1>1
  <2> QED BY <1>6, <2>2, <2>3
<1>8. {i \in A : Cardinality(Upto(i)) <= q} = {g[k] : k \in 1..t}
  <2>1. t \in 0..N /\ \A k \in 1..N : k <= q <=> k \in 1..t
    BY <1>1
  <2>2. ASSUME NEW i \in A, Cardinality(Upto(i)) <= q PROVE i \in {g[k] : k \in 1..t}
    <3>1. PICK k \in 1..N : g[k] = i
      BY <1>3
    <3>2. Cardinality(Upto(i)) = k
      BY <1>7, <3>1
    <3> HIDE DEF t, Upto
    <3> QED BY <2>1, <2>2, <3>1, <3>2
  <2>3. ASSUME NEW k \in 1..t PROVE g[k] \in A /\ Cardinality(Upto(g[k])) <= q
    <3>1. k \in 1..N
      BY <1>1, <2>1
    <3>2. Cardinality(Upto(g[k])) = k
      BY <1>7, <3>1
    <3> HIDE DEF t, Upto
    <3> QED BY <2>1, <3>1, <3>2
  <2> HIDE DEF t, Upto
  <2> QED BY <2>2, <2>3
<1>9. t \in 0..N
  BY <1>1
<1>10. Cardinality({i \in A : Cardinality(Upto(i)) <= q}) = t
  BY <1>6, <1>8, <1>9
<1> QED BY <1>1, <1>10 DEF N

(* The chunks of a document among X, and its share of an answer.            *)
OfDoc(X, d) == {c \in X : c[1] = d}
ShareOf(X, d) ==
    LET n == Cardinality(OfDoc(X, d)) IN IF MaxPerDoc > 0 /\ MaxPerDoc < n THEN MaxPerDoc ELSE n

(* The limit keeps the order, and of every document its share.              *)
LEMMA LimitIs ==
    ASSUME D!KnowledgeAssumption, NEW f, NEW C, Ranking(f, C)
    PROVE  /\ Ranking(D!Limit(f), C)
           /\ D!Range(D!Limit(f)) \subseteq D!Range(f)
           /\ \A i, j \in 1..Len(D!Limit(f)) :
                 i < j <=> D!Rank(f, D!Limit(f)[i]) < D!Rank(f, D!Limit(f)[j])
           /\ \A d : Cardinality(OfDoc(D!Range(D!Limit(f)), d)) = ShareOf(D!Range(f), d)
<1>0. MaxPerDoc \in Nat
  BY DEF D!KnowledgeAssumption
<1>1. /\ Len(f) \in Nat /\ DOMAIN f = 1..Len(f) /\ f \in [1..Len(f) -> C]
      /\ \A i, j \in 1..Len(f) : f[i] = f[j] => i = j
      /\ \A i \in 1..Len(f) : f[i] \in D!Range(f) /\ D!Rank(f, f[i]) = i
      /\ \A c \in D!Range(f) : D!Rank(f, c) \in 1..Len(f) /\ f[D!Rank(f, c)] = c
  BY RankingFacts
<1>2. CASE MaxPerDoc = 0
  <2>1. D!Limit(f) = f
    BY <1>2 DEF D!Limit
  <2>2. \A i, j \in 1..Len(f) : i < j <=> D!Rank(f, f[i]) < D!Rank(f, f[j])
    BY <1>1
  <2>3. \A d : Cardinality(OfDoc(D!Range(f), d)) = ShareOf(D!Range(f), d)
    BY <1>2 DEF ShareOf
  <2> QED BY <2>1, <2>2, <2>3
<1>3. CASE MaxPerDoc # 0
  <2> DEFINE I == {i \in DOMAIN f : D!Cardinality({j \in 1..i : f[j][1] = f[i][1]}) <= MaxPerDoc}
             l == D!Picked(f, I)
  <2>1. D!Limit(f) = l
    BY <1>3, Zenon DEF D!Limit
  <2>2. I \in SUBSET (1..Len(f))
    BY <1>1
  <2>3. /\ Ranking(l, C)
        /\ \A c : c \in D!Range(l) <=> \E i \in I : f[i] = c
        /\ \A i, j \in 1..Len(l) : i < j <=> D!Rank(f, l[i]) < D!Rank(f, l[j])
    <3> HIDE DEF I
    <3> QED BY <2>2, PickedRanking
  <2>4. D!Range(l) \subseteq D!Range(f)
    <3> HIDE DEF l, I
    <3> QED BY <1>1, <2>2, <2>3
  <2>5. ASSUME NEW d PROVE Cardinality(OfDoc(D!Range(l), d)) = ShareOf(D!Range(f), d)
    <3> DEFINE A == {i \in 1..Len(f) : f[i][1] = d}
               B == {i \in A : Cardinality({j \in A : j <= i}) <= MaxPerDoc}
    <3>1. A \in SUBSET (1..Len(f)) /\ B \in SUBSET (1..Len(f))
      OBVIOUS
    <3>2. B = {i \in I : f[i][1] = d}
      <4>1. ASSUME NEW i \in A
            PROVE  D!Cardinality({j \in 1..i : f[j][1] = f[i][1]}) = Cardinality({j \in A : j <= i})
        <5>1. {j \in 1..i : f[j][1] = f[i][1]} = {j \in A : j <= i}
          BY <1>1
        <5> QED BY <5>1, SameCardinality
      <4>2. ASSUME NEW i \in 1..Len(f), f[i][1] = d PROVE i \in A
        BY <4>2
      <4>3. \A i \in A : i \in I <=> Cardinality({j \in A : j <= i}) <= MaxPerDoc
        BY <1>1, <4>1, Zenon
      <4>4. \A i : i \in {m \in I : f[m][1] = d} <=> i \in A /\ i \in I
        BY <1>1
      <4>5. \A i : i \in B <=> i \in A /\ Cardinality({j \in A : j <= i}) <= MaxPerDoc
        BY Zenon
      <4> HIDE DEF B, A, I
      <4> QED BY <4>3, <4>4, <4>5
    <3>3. Cardinality(B) = IF MaxPerDoc < Cardinality(A) THEN MaxPerDoc ELSE Cardinality(A)
      <4> HIDE DEF A
      <4> QED BY <1>0, <1>1, <3>1, FirstOf
    <3>4. ASSUME NEW X \in SUBSET (1..Len(f)) PROVE Cardinality({f[i] : i \in X}) = Cardinality(X)
      <4>1. IsFiniteSet(X)
        BY <1>1, PickedIs
      <4>2. X \subseteq DOMAIN f /\ \A x, y \in X : f[x] = f[y] => x = y
        BY <1>1
      <4> QED BY <4>1, <4>2, ImageCount
    <3>5. OfDoc(D!Range(f), d) = {f[i] : i \in A}
      BY <1>1 DEF OfDoc
    <3>6. OfDoc(D!Range(l), d) = {f[i] : i \in B}
      <4> HIDE DEF B, I, l
      <4> QED BY <2>3, <3>2 DEF OfDoc
    <3> HIDE DEF A, B, I, l
    <3>7. Cardinality(OfDoc(D!Range(f), d)) = Cardinality(A) /\ Cardinality(OfDoc(D!Range(l), d)) = Cardinality(B)
      BY <3>1, <3>4, <3>5, <3>6
    <3> QED BY <1>0, <1>3, <3>3, <3>7 DEF ShareOf
  <2> HIDE DEF l
  <2> QED BY <2>1, <2>3, <2>4, <2>5
<1> QED BY <1>2, <1>3

(* The best hits.                                                           *)
LEMMA BestIs ==
    ASSUME D!KnowledgeAssumption, NEW l, NEW C, Ranking(l, C)
    PROVE  /\ Ranking(D!Best(l), C) /\ D!Range(D!Best(l)) \subseteq D!Range(l)
           /\ Len(D!Best(l)) <= FinalK /\ Len(D!Best(l)) <= Len(l)
           /\ \A i \in 1..Len(D!Best(l)) : i \in 1..Len(l) /\ D!Best(l)[i] = l[i]
           /\ Len(D!Best(l)) < FinalK => D!Best(l) = l
<1> DEFINE n == IF Len(l) < FinalK THEN Len(l) ELSE FinalK
           b == D!Best(l)
<1>0. FinalK \in Nat
  BY DEF D!KnowledgeAssumption
<1>1. /\ l \in Seq(C) /\ Len(l) \in Nat /\ DOMAIN l = 1..Len(l) /\ l \in [1..Len(l) -> C]
      /\ \A i, j \in 1..Len(l) : l[i] = l[j] => i = j
  BY RankingFacts
<1>2. n \in Nat /\ n <= Len(l) /\ n <= FinalK /\ (n < FinalK => n = Len(l))
  <2>1. Len(l) \in Nat
    BY <1>1
  <2> QED BY <1>0, <2>1
<1>3. b = SubSeq(l, 1, n)
  BY DEF D!Best
<1> HIDE DEF n, b
<1>4. b \in Seq(C) /\ Len(b) = n /\ \A i \in 1..n : b[i] = l[i]
  <2>1. l \in Seq(C) /\ Len(l) \in Nat
    BY <1>1
  <2>2. \A i \in 1..n : i \in 1..Len(l)
    BY <1>2, <2>1
  <2>3. Len(b) = n /\ DOMAIN b = 1..n /\ \A i \in 1..n : b[i] = l[i]
    BY <1>2, <1>3, <2>1
  <2>4. b = [i \in 1..n |-> l[i]]
    BY <1>2, <1>3, <2>1
  <2>5. \A i \in 1..n : l[i] \in C
    BY <1>1, <2>2
  <2>6. b \in [1..n -> C]
    BY <2>4, <2>5
  <2> QED BY <1>2, <2>3, <2>6
<1>5. \A i \in 1..n : i \in 1..Len(l)
  <2>1. Len(l) \in Nat
    BY <1>1
  <2> QED BY <1>2, <2>1
<1>6. b \in [1..n -> C] /\ DOMAIN b = 1..n
  BY <1>4
<1>7. Ranking(b, C)
  <2>1. \A i, j \in 1..n : b[i] = b[j] => i = j
    BY <1>1, <1>4, <1>5
  <2> QED BY <1>1, <1>2, <1>6, <2>1 DEF Ranking
<1>8. D!Range(b) \subseteq D!Range(l)
  BY <1>1, <1>4, <1>5, <1>6 DEF D!Range
<1>9. n < FinalK => b = l
  <2> SUFFICES ASSUME n < FinalK PROVE b = l
    OBVIOUS
  <2>1. n = Len(l)
    BY <1>2
  <2>2. b \in [1..n -> C] /\ l \in [1..n -> C] /\ \A i \in 1..n : b[i] = l[i]
    BY <1>1, <1>4, <1>6, <2>1
  <2>3. b = [i \in 1..n |-> b[i]] /\ l = [i \in 1..n |-> l[i]]
    BY <2>2
  <2> QED BY <2>2, <2>3, Zenon
<1>10. Len(b) <= FinalK /\ Len(b) <= Len(l)
  BY <1>2, <1>4
<1>11. \A i \in 1..Len(b) : i \in 1..Len(l) /\ b[i] = l[i]
  BY <1>4, <1>5, Zenon
<1>12. Len(b) < FinalK => b = l
  BY <1>4, <1>9, Zenon
<1> QED BY <1>7, <1>8, <1>10, <1>11, <1>12 DEF b

-----------------------------------------------------------------------------
(* Chunks of documents that had not been deleted.                           *)
Live(gone) == {c \in Chunks : c[1] \notin gone}

UploadRec == [doc : Docs \cup {D!NoDoc}, pc : {"idle", "embed", "stored"}]
SearchRec == [pc : {"idle", "vector", "rows", "fuse", "answer"}, gone : SUBSET Docs,
              keyword : Seq(Chunks), vector : Seq(Chunks), hits : Seq(Chunks)]

(* The documents: nothing is left of the row of a deleted one, and an       *)
(* upload under way is of one that was not deleted. It has its vectors once *)
(* they are stored, as has every document called indexed.                   *)
DocsTrue(st, pa, po, de, up) ==
    /\ de \subseteq pa /\ \A d \in pa : st[d] = "none"
    /\ up.pc # "idle" => up.doc \in Docs /\ up.doc \notin pa
    /\ up.pc = "stored" => up.doc \in po
    /\ \A d \in Docs : st[d] = "indexed" => d \in po

(* A search: its rankings have no chunk of a document that was gone when it *)
(* began, the vector ranking since its rows were looked up.                 *)
SearchTrue(s, pa) ==
    /\ s \in SearchRec /\ s.gone \subseteq pa
    /\ Ranking(s.keyword, Live(s.gone)) /\ Ranking(s.vector, Chunks)
    /\ s.pc = "vector" => s.vector = <<>>
    /\ s.pc \in {"fuse", "answer"} => Ranking(s.vector, Live(s.gone))
    /\ s.hits = IF s.pc = "answer" THEN D!Best(D!Limit(D!Fusion(s.vector, s.keyword))) ELSE <<>>

(* The inductive invariant of the knowledge store.                          *)
KnowInv ==
    /\ status \in [Docs -> {"none", "pending", "indexed", "failed", "fallback"}]
    /\ semantic \in BOOLEAN /\ faults \in 0..MaxFaults
    /\ past \subseteq Docs /\ points \subseteq Docs /\ deleting \subseteq Docs
    /\ upload \in UploadRec
    /\ DocsTrue(status, past, points, deleting, upload)
    /\ SearchTrue(search, past)

(* The empty ranking, and a ranking of members of a larger set.             *)
LEMMA RankingMore ==
    /\ \A C : Ranking(<<>>, C)
    /\ \A s, C, E : Ranking(s, C) /\ C \subseteq E => Ranking(s, E)
    /\ \A s, C, E : Ranking(s, C) /\ D!Range(s) \subseteq E => Ranking(s, E)
<1>1. ASSUME NEW C PROVE Ranking(<<>>, C)
  <2>1. <<>> \in [1..0 -> C] /\ \A i, j \in 1..0 : <<>>[i] = <<>>[j] => i = j
    OBVIOUS
  <2> QED BY <2>1 DEF Ranking
<1>2. ASSUME NEW s, NEW C, NEW E, Ranking(s, C), D!Range(s) \subseteq E PROVE Ranking(s, E)
  <2>1. PICK n \in Nat : s \in [1..n -> C] /\ \A i, j \in 1..n : s[i] = s[j] => i = j
    BY <1>2 DEF Ranking
  <2>2. \A i \in 1..n : s[i] \in D!Range(s)
    BY <2>1 DEF D!Range
  <2>3. s \in [1..n -> E]
    BY <1>2, <2>1, <2>2
  <2> QED BY <2>1, <2>3 DEF Ranking
<1>3. ASSUME NEW s, NEW C, NEW E, Ranking(s, C), C \subseteq E PROVE Ranking(s, E)
  <2>1. D!Range(s) \subseteq C
    BY <1>3, RankingFacts
  <2> QED BY <1>2, <1>3, <2>1
<1> QED BY <1>1, <1>2, <1>3, Zenon

(* The answer of either search is a ranking.                                *)
LEMMA RankingsAre ==
    ASSUME D!KnowledgeAssumption, NEW A \in SUBSET Chunks, NEW s \in D!Rankings(A)
    PROVE  Ranking(s, A)
<1>1. IsFiniteSet(A)
  BY FS_Subset, SameCardinality DEF D!KnowledgeAssumption
<1>2. Cardinality(A) \in Nat /\ TopK \in Nat
  BY <1>1, FS_CardinalityType DEF D!KnowledgeAssumption
<1> DEFINE m == IF TopK < Cardinality(A) THEN TopK ELSE Cardinality(A)
<1>3. m \in Nat
  BY <1>2
<1>4. D!Rankings(A) = {t \in UNION {[1..n -> A] : n \in 0..m} : \A i, j \in DOMAIN t : t[i] = t[j] => i = j}
  BY SameCardinality DEF D!Rankings
<1> HIDE DEF m
<1>5. PICK n \in 0..m : s \in [1..n -> A]
  BY <1>4
<1>6. \A i, j \in 1..n : s[i] = s[j] => i = j
  BY <1>4, <1>5
<1>7. n \in Nat
  BY <1>3
<1> QED BY <1>5, <1>6, <1>7 DEF Ranking

(* What is answered, from rankings of chunks that are live.                 *)
LEMMA AnswerIs ==
    ASSUME D!KnowledgeAssumption, NEW v, NEW k, NEW C, Ranking(v, C), Ranking(k, C)
    PROVE  LET f == D!Fusion(v, k)
               h == D!Best(D!Limit(f)) IN
           /\ Ranking(f, C) /\ Ranking(D!Limit(f), C) /\ Ranking(h, C) /\ h \in Seq(C)
           /\ D!Range(h) \subseteq C
<1> DEFINE f == D!Fusion(v, k)
           h == D!Best(D!Limit(f))
<1>1. Ranking(f, C)
  BY FusionIs
<1>2. Ranking(D!Limit(f), C)
  <2> HIDE DEF f
  <2> QED BY <1>1, LimitIs
<1>3. Ranking(h, C)
  <2> HIDE DEF f
  <2> QED BY <1>2, BestIs
<1>4. h \in Seq(C) /\ D!Range(h) \subseteq C
  <2> HIDE DEF h
  <2> QED BY <1>3, RankingFacts
<1> QED BY <1>1, <1>2, <1>3, <1>4

(* No search.                                                               *)
LEMMA AtRest ==
    ASSUME NEW pa
    PROVE  /\ SearchTrue(D!NoSearch, pa) /\ D!NoSearch \in SearchRec
           /\ D!NoSearch.gone = {} /\ D!NoSearch.keyword = <<>>
           /\ D!NoSearch.vector = <<>> /\ D!NoSearch.hits = <<>>
<1>1. D!NoSearch \in SearchRec
  BY DEF D!NoSearch, SearchRec
<1>2. /\ D!NoSearch.pc = "idle" /\ D!NoSearch.gone = {} /\ D!NoSearch.keyword = <<>>
      /\ D!NoSearch.vector = <<>> /\ D!NoSearch.hits = <<>>
  BY DEF D!NoSearch
<1> QED BY <1>1, <1>2, RankingMore DEF SearchTrue

(* No document, no search.                                                  *)
LEMMA KnowInit ==
    ASSUME D!KnowledgeAssumption, D!Init
    PROVE  KnowInv
<1>1. /\ status = [d \in Docs |-> "none"] /\ past = {} /\ points = {} /\ deleting = {}
      /\ upload = D!NoUpload /\ search = D!NoSearch /\ semantic \in BOOLEAN /\ faults = 0
  BY DEF D!Init
<1>2. D!NoUpload \in UploadRec /\ D!NoUpload.pc = "idle"
  BY DEF D!NoUpload, UploadRec
<1>3. SearchTrue(D!NoSearch, past)
  BY AtRest
<1>4. DocsTrue(status, past, points, deleting, upload)
  BY <1>1, <1>2 DEF DocsTrue
<1>5. 0 \in 0..MaxFaults
  BY DEF D!KnowledgeAssumption
<1> QED BY <1>1, <1>2, <1>3, <1>4, <1>5 DEF KnowInv

(* A fault is counted.                                                      *)
LEMMA FaultCounts ==
    ASSUME D!KnowledgeAssumption, KnowInv, D!Fault
    PROVE  faults' \in 0..MaxFaults
  BY DEF D!KnowledgeAssumption, KnowInv, D!Fault

(* More documents may be deleted while a search goes on.                    *)
LEMMA SearchKept ==
    ASSUME NEW s, NEW pa, NEW pb, SearchTrue(s, pa), pa \subseteq pb
    PROVE  SearchTrue(s, pb)
  BY Zenon DEF SearchTrue

(* Uploads of documents.                                                    *)
LEMMA IndexStep ==
    ASSUME D!KnowledgeAssumption, KnowInv,
           \/ \E d \in Docs : D!AddDocument(d)
           \/ D!Upsert \/ D!Fallback \/ D!Indexed \/ D!IndexFails
    PROVE  KnowInv'
<1>1. /\ status \in [Docs -> {"none", "pending", "indexed", "failed", "fallback"}]
      /\ upload \in UploadRec /\ points \subseteq Docs /\ past \subseteq Docs
      /\ DocsTrue(status, past, points, deleting, upload)
  BY DEF KnowInv
<1>2. upload.pc \in {"idle", "embed", "stored"} /\ upload.doc \in Docs \cup {D!NoDoc}
  BY <1>1 DEF UploadRec
<1>3. /\ past' = past /\ deleting' = deleting /\ search' = search /\ semantic' = semantic
      /\ faults' \in 0..MaxFaults
  BY FaultCounts DEF D!AddDocument, D!Upsert, D!Fallback, D!Indexed, D!IndexFails, KnowInv
<1>4. D!NoUpload \in UploadRec /\ D!NoUpload.pc = "idle"
  BY DEF D!NoUpload, UploadRec
<1>5. /\ status' \in [Docs -> {"none", "pending", "indexed", "failed", "fallback"}]
      /\ points' \subseteq Docs /\ upload' \in UploadRec
      /\ DocsTrue(status', past, points', deleting, upload')
  <2>1. ASSUME NEW d \in Docs, D!AddDocument(d)
        PROVE  /\ status' \in [Docs -> {"none", "pending", "indexed", "failed", "fallback"}]
               /\ points' \subseteq Docs /\ upload' \in UploadRec
               /\ DocsTrue(status', past, points', deleting, upload')
    <3>1. /\ d \notin past /\ status' = [status EXCEPT ![d] = "pending"]
          /\ upload' = [doc |-> d, pc |-> "embed"] /\ points' = points
      BY <2>1 DEF D!AddDocument
    <3>2. upload' \in UploadRec /\ upload'.pc = "embed" /\ upload'.doc = d
      BY <3>1 DEF UploadRec
    <3>3. status' \in [Docs -> {"none", "pending", "indexed", "failed", "fallback"}]
      BY <1>1, <3>1
    <3>4. \A e \in Docs : status'[e] = IF e = d THEN "pending" ELSE status[e]
      BY <1>1, <3>1
    <3>5. DocsTrue(status', past, points', deleting, upload')
      BY <1>1, <3>1, <3>2, <3>4 DEF DocsTrue
    <3> QED BY <1>1, <3>1, <3>2, <3>3, <3>5
  <2>2. ASSUME D!Upsert
        PROVE  /\ status' \in [Docs -> {"none", "pending", "indexed", "failed", "fallback"}]
               /\ points' \subseteq Docs /\ upload' \in UploadRec
               /\ DocsTrue(status', past, points', deleting, upload')
    <3>1. /\ upload.pc = "embed" /\ points' = points \cup {upload.doc} /\ status' = status
          /\ upload' = [upload EXCEPT !.pc = "stored"]
      BY <2>2 DEF D!Upsert
    <3>2. upload' \in UploadRec /\ upload'.pc = "stored" /\ upload'.doc = upload.doc
      BY <1>1, <3>1 DEF UploadRec
    <3>3. upload.doc \in Docs /\ upload.doc \notin past
      BY <1>1, <3>1 DEF DocsTrue
    <3>4. DocsTrue(status', past, points', deleting, upload')
      BY <1>1, <3>1, <3>2, <3>3 DEF DocsTrue
    <3> QED BY <1>1, <3>1, <3>2, <3>3, <3>4
  <2>3. ASSUME NEW s \in {"indexed", "failed", "fallback"}, upload.pc # "idle",
               s = "indexed" => upload.doc \in points,
               D!SetStatus(s), upload' = D!NoUpload, points' = points
        PROVE  /\ status' \in [Docs -> {"none", "pending", "indexed", "failed", "fallback"}]
               /\ points' \subseteq Docs /\ upload' \in UploadRec
               /\ DocsTrue(status', past, points', deleting, upload')
    <3>1. upload.doc \in Docs
      BY <1>1, <2>3 DEF DocsTrue
    <3>2. status' = [status EXCEPT ![upload.doc] = IF status[upload.doc] = "none" THEN "none" ELSE s]
      BY <2>3 DEF D!SetStatus
    <3>3. status' \in [Docs -> {"none", "pending", "indexed", "failed", "fallback"}]
      BY <1>1, <3>1, <3>2
    <3>4. \A e \in Docs : status'[e] = status[e] \/ (e = upload.doc /\ status[e] # "none" /\ status'[e] = s)
      BY <1>1, <3>1, <3>2
    <3>5. DocsTrue(status', past, points', deleting, upload')
      BY <1>1, <1>4, <2>3, <3>4 DEF DocsTrue
    <3> QED BY <1>1, <1>4, <2>3, <3>3, <3>5
  <2>4. CASE D!Fallback
    <3>1. upload.pc # "idle" /\ D!SetStatus("fallback") /\ upload' = D!NoUpload /\ points' = points
      BY <2>4 DEF D!Fallback
    <3> QED BY <2>3, <3>1
  <2>5. CASE D!Indexed
    <3>1. upload.pc = "stored" /\ D!SetStatus("indexed") /\ upload' = D!NoUpload /\ points' = points
      BY <2>5 DEF D!Indexed
    <3>2. upload.doc \in points
      BY <1>1, <3>1 DEF DocsTrue
    <3> QED BY <2>3, <3>1, <3>2
  <2>6. CASE D!IndexFails
    <3>1. upload.pc # "idle" /\ D!SetStatus("failed") /\ upload' = D!NoUpload /\ points' = points
      BY <2>6 DEF D!IndexFails
    <3> QED BY <2>3, <3>1
  <2> QED BY <2>1, <2>2, <2>4, <2>5, <2>6
<1> QED BY <1>3, <1>5 DEF KnowInv

(* Deletions.                                                               *)
LEMMA RemoveStep ==
    ASSUME D!KnowledgeAssumption, KnowInv,
           \E d \in Docs : D!DeleteRow(d) \/ D!DeletePoints(d) \/ D!DeleteFails(d)
    PROVE  KnowInv'
<1>1. /\ status \in [Docs -> {"none", "pending", "indexed", "failed", "fallback"}]
      /\ upload \in UploadRec /\ points \subseteq Docs /\ past \subseteq Docs /\ deleting \subseteq Docs
      /\ DocsTrue(status, past, points, deleting, upload) /\ SearchTrue(search, past)
  BY DEF KnowInv
<1>2. PICK d \in Docs : D!DeleteRow(d) \/ D!DeletePoints(d) \/ D!DeleteFails(d)
  OBVIOUS
<1>3. upload' = upload /\ search' = search /\ semantic' = semantic /\ faults' \in 0..MaxFaults
  BY <1>2, FaultCounts DEF D!DeleteRow, D!DeletePoints, D!DeleteFails, KnowInv
<1>4. CASE D!DeleteRow(d)
  <2>1. /\ upload.doc # d /\ status' = [status EXCEPT ![d] = "none"] /\ past' = past \cup {d}
        /\ deleting' = deleting \cup {d} /\ points' = points
    BY <1>4 DEF D!DeleteRow
  <2>2. \A e \in Docs : status'[e] = IF e = d THEN "none" ELSE status[e]
    BY <1>1, <2>1
  <2>3. status' \in [Docs -> {"none", "pending", "indexed", "failed", "fallback"}]
    BY <1>1, <2>1
  <2>4. DocsTrue(status', past', points', deleting', upload')
    BY <1>1, <1>3, <2>1, <2>2 DEF DocsTrue
  <2>5. SearchTrue(search', past')
    BY <1>1, <1>3, <2>1, SearchKept
  <2> QED BY <1>1, <1>3, <2>1, <2>3, <2>4, <2>5 DEF KnowInv
<1>5. CASE D!DeletePoints(d) \/ D!DeleteFails(d)
  <2>1. /\ d \in deleting /\ status' = status /\ past' = past /\ deleting' = deleting \ {d}
        /\ points' \subseteq points /\ points \ {d} \subseteq points'
    BY <1>5 DEF D!DeletePoints, D!DeleteFails
  <2>2. DocsTrue(status', past', points', deleting', upload')
    BY <1>1, <1>3, <2>1 DEF DocsTrue
  <2> QED BY <1>1, <1>3, <2>1, <2>2 DEF KnowInv
<1> QED BY <1>2, <1>4, <1>5

(* The process ends.                                                        *)
LEMMA KnowDies ==
    ASSUME D!KnowledgeAssumption, KnowInv, D!Die
    PROVE  KnowInv'
<1>1. /\ upload' = D!NoUpload /\ deleting' = {} /\ search' = D!NoSearch /\ semantic' \in BOOLEAN
      /\ status' = status /\ past' = past /\ points' = points /\ faults' \in 0..MaxFaults
  BY FaultCounts DEF D!Die
<1>2. D!NoUpload \in UploadRec /\ D!NoUpload.pc = "idle"
  BY DEF D!NoUpload, UploadRec
<1>3. DocsTrue(status', past', points', deleting', upload')
  BY <1>1, <1>2 DEF DocsTrue, KnowInv
<1>4. SearchTrue(D!NoSearch, past)
  BY AtRest
<1> QED BY <1>1, <1>2, <1>3, <1>4 DEF KnowInv

(* Rows and points are chunks; rows are of documents that are not deleted.  *)
LEMMA RowsLive ==
    ASSUME D!KnowledgeAssumption, KnowInv
    PROVE  D!Rows \subseteq Chunks /\ D!Rows \subseteq Live(past)
  BY DEF D!Rows, Live, KnowInv, DocsTrue, D!KnowledgeAssumption

(* Searches.                                                                *)
LEMMA SearchStep ==
    ASSUME D!KnowledgeAssumption, KnowInv,
           \/ D!KeywordSearch \/ D!QueryPoints \/ D!QueryFails \/ D!GetChunks \/ D!Fuse \/ D!Answer
    PROVE  KnowInv'
<1>1. past \subseteq Docs /\ SearchTrue(search, past)
  BY DEF KnowInv
<1>2. /\ status' = status /\ past' = past /\ points' = points /\ upload' = upload
      /\ deleting' = deleting /\ semantic' = semantic /\ faults' \in 0..MaxFaults
  BY FaultCounts DEF D!KeywordSearch, D!QueryPoints, D!QueryFails, D!GetChunks, D!Fuse, D!Answer, KnowInv
<1>3. /\ search \in SearchRec /\ search.gone \subseteq past
      /\ Ranking(search.keyword, Live(search.gone)) /\ Ranking(search.vector, Chunks)
      /\ search.pc = "vector" => search.vector = <<>>
      /\ search.pc \in {"fuse", "answer"} => Ranking(search.vector, Live(search.gone))
      /\ search.hits = IF search.pc = "answer"
                       THEN D!Best(D!Limit(D!Fusion(search.vector, search.keyword))) ELSE <<>>
  BY <1>1, Zenon DEF SearchTrue
<1>4. \A g : Live(g) \subseteq Chunks
  BY DEF Live
<1>5. \A s, C : Ranking(s, C) => s \in Seq(C)
  BY RankingFacts
<1>6. SearchTrue(search', past)
  <2>1. CASE D!KeywordSearch
    <3>1. PICK k \in D!Rankings(D!Rows) :
             search' = [D!NoSearch EXCEPT !.pc = IF semantic THEN "vector" ELSE "fuse",
                                          !.gone = past, !.keyword = k]
      BY <2>1 DEF D!KeywordSearch
    <3>2. Ranking(k, Live(past)) /\ k \in Seq(Chunks)
      <4>1. D!Rows \in SUBSET Chunks
        BY RowsLive
      <4>2. Ranking(k, D!Rows)
        BY <3>1, <4>1, RankingsAre
      <4>3. Ranking(k, Live(past)) /\ Ranking(k, Chunks)
        BY <4>2, RowsLive, RankingMore, Zenon
      <4> QED BY <1>5, <4>3
    <3>3. /\ search'.pc = (IF semantic THEN "vector" ELSE "fuse") /\ search'.gone = past /\ search'.keyword = k
          /\ search'.vector = <<>> /\ search'.hits = <<>> /\ search' \in SearchRec
      <4>1. /\ D!NoSearch \in SearchRec /\ D!NoSearch.vector = <<>> /\ D!NoSearch.hits = <<>>
        BY AtRest
      <4> QED BY <1>1, <3>1, <3>2, <4>1 DEF SearchRec
    <3>4. search'.pc \in {"vector", "fuse"}
      BY <3>3
    <3> QED BY <3>2, <3>3, <3>4, RankingMore DEF SearchTrue
  <2>2. CASE D!QueryPoints
    <3> DEFINE A == {c \in Chunks : c[1] \in points}
    <3>1. PICK s \in D!Rankings(A) : search' = [search EXCEPT !.pc = "rows", !.vector = s]
      BY <2>2 DEF D!QueryPoints
    <3>2. search.pc = "vector"
      BY <2>2 DEF D!QueryPoints
    <3>3. Ranking(s, Chunks) /\ s \in Seq(Chunks)
      <4>1. A \in SUBSET Chunks
        OBVIOUS
      <4> HIDE DEF A
      <4>2. Ranking(s, A)
        BY <3>1, <4>1, RankingsAre
      <4>3. Ranking(s, Chunks)
        BY <4>1, <4>2, RankingMore
      <4> QED BY <1>5, <4>3
    <3>4. /\ search'.pc = "rows" /\ search'.gone = search.gone /\ search'.keyword = search.keyword
          /\ search'.vector = s /\ search'.hits = search.hits /\ search' \in SearchRec
      BY <1>3, <3>1, <3>3 DEF SearchRec
    <3> QED BY <1>3, <3>2, <3>3, <3>4 DEF SearchTrue
  <2>3. CASE D!QueryFails
    <3>1. search.pc = "vector" /\ search' = [search EXCEPT !.pc = "fuse"]
      BY <2>3 DEF D!QueryFails
    <3>2. /\ search'.pc = "fuse" /\ search'.gone = search.gone /\ search'.keyword = search.keyword
          /\ search'.vector = search.vector /\ search'.hits = search.hits /\ search' \in SearchRec
      BY <1>3, <3>1 DEF SearchRec
    <3> QED BY <1>3, <3>1, <3>2, RankingMore DEF SearchTrue
  <2>4. CASE D!GetChunks
    <3> DEFINE w == D!Within(search.vector, D!Rows)
    <3>1. search.pc = "rows" /\ search' = [search EXCEPT !.pc = "fuse", !.vector = w]
      BY <2>4 DEF D!GetChunks
    <3>2. Ranking(w, Chunks) /\ D!Range(w) \subseteq D!Rows
      BY <1>3, WithinIs
    <3> HIDE DEF w
    <3>3. Live(past) \subseteq Live(search.gone)
      BY <1>3 DEF Live
    <3>4. Ranking(w, Live(search.gone)) /\ w \in Seq(Chunks)
      <4>1. D!Range(w) \subseteq Live(search.gone)
        BY <3>2, <3>3, RowsLive
      <4>2. Ranking(w, Live(search.gone))
        BY <3>2, <4>1, RankingMore
      <4> QED BY <1>5, <3>2, <4>2
    <3>5. /\ search'.pc = "fuse" /\ search'.gone = search.gone /\ search'.keyword = search.keyword
          /\ search'.vector = w /\ search'.hits = search.hits /\ search' \in SearchRec
      BY <1>3, <3>1, <3>4 DEF SearchRec
    <3> QED BY <1>3, <3>1, <3>2, <3>4, <3>5 DEF SearchTrue
  <2>5. CASE D!Fuse
    <3> DEFINE h == D!Best(D!Limit(D!Fusion(search.vector, search.keyword)))
    <3>1. search.pc = "fuse" /\ search' = [search EXCEPT !.pc = "answer", !.hits = h]
      BY <2>5 DEF D!Fuse
    <3>2. h \in Seq(Chunks)
      <4>1. Ranking(search.keyword, Chunks)
        BY <1>3, <1>4, RankingMore
      <4> QED BY <1>3, <4>1, AnswerIs
    <3> HIDE DEF h
    <3>3. /\ search'.pc = "answer" /\ search'.gone = search.gone /\ search'.keyword = search.keyword
          /\ search'.vector = search.vector /\ search'.hits = h /\ search' \in SearchRec
      BY <1>3, <3>1, <3>2 DEF SearchRec
    <3> QED BY <1>3, <3>1, <3>3 DEF SearchTrue, h
  <2>6. CASE D!Answer
    BY <2>6, AtRest DEF D!Answer
  <2> QED BY <2>1, <2>2, <2>3, <2>4, <2>5, <2>6
<1> QED BY <1>2, <1>6 DEF KnowInv

(* The store's invariant is inductive.                                      *)
LEMMA KnowStep ==
    ASSUME D!KnowledgeAssumption, KnowInv, D!Next
    PROVE  KnowInv'
  BY IndexStep, RemoveStep, SearchStep, KnowDies, Zenon DEF D!Next

(* The knowledge store at rest.                                             *)
LEMMA KnowStutter ==
    ASSUME KnowInv, UNCHANGED documents
    PROVE  KnowInv'
<1>1. /\ status' = status /\ past' = past /\ points' = points /\ upload' = upload
      /\ deleting' = deleting /\ search' = search /\ semantic' = semantic /\ faults' = faults
  BY DEF documents
<1> QED BY <1>1, Zenon DEF KnowInv

(* The two stores agree.                                                    *)
LEMMA KnowAgrees ==
    ASSUME D!KnowledgeAssumption, KnowInv
    PROVE  StoresAgree
<1>1. SearchTrue(search, past) /\ upload \in UploadRec /\ DocsTrue(status, past, points, deleting, upload)
  BY DEF KnowInv
<1>2. /\ search.pc \in {"idle", "vector", "rows", "fuse", "answer"}
      /\ upload.pc \in {"idle", "embed", "stored"} /\ upload.doc \in Docs \cup {D!NoDoc}
  BY <1>1 DEF SearchTrue, SearchRec, UploadRec
<1>3. CASE search.pc = "answer"
  <2>1. D!Range(search.hits) \subseteq Live(search.gone)
    BY <1>1, <1>3, AnswerIs DEF SearchTrue
  <2>2. D!Range(search.hits) \subseteq Chunks /\ D!NoGhosts
    BY <2>1 DEF Live, D!NoGhosts
  <2> QED BY <1>1, <1>2, <2>2 DEF StoresAgree, D!TypeOK, D!IndexedMeansPoints, KnowInv, DocsTrue
<1>4. CASE search.pc # "answer"
  <2>1. search.hits = <<>>
    BY <1>1, <1>4 DEF SearchTrue
  <2>2. D!Range(search.hits) \subseteq Chunks
    BY <2>1 DEF D!Range
  <2>3. D!NoGhosts
    BY <1>4 DEF D!NoGhosts
  <2> QED BY <1>1, <1>2, <2>2, <2>3 DEF StoresAgree, D!TypeOK, D!IndexedMeansPoints, KnowInv, DocsTrue
<1> QED BY <1>3, <1>4

(* The answer is ranked as it should.                                       *)
LEMMA KnowRanks ==
    ASSUME D!KnowledgeAssumption, KnowInv, search.pc = "answer"
    PROVE  AnswersRanked
<1> DEFINE v == search.vector
           k == search.keyword
           f == D!Fusion(v, k)
           l == D!Limit(f)
           h == search.hits
           C == Live(search.gone)
<1>1. Ranking(v, C) /\ Ranking(k, C) /\ h = D!Best(l)
  BY DEF KnowInv, SearchTrue
<1>2. Ranking(f, C) /\ Ranking(l, C) /\ Ranking(h, C)
  BY <1>1, AnswerIs
<1> HIDE DEF v, k, h, C
<1>3. /\ D!Range(f) = D!Range(v) \cup D!Range(k)
      /\ \A i, j \in 1..Len(f) : i < j <=> Better(v, k, f[i], f[j])
  BY <1>1, FusionIs
<1> HIDE DEF f
<1>4. /\ D!Range(l) \subseteq D!Range(f)
      /\ \A i, j \in 1..Len(l) : i < j <=> D!Rank(f, l[i]) < D!Rank(f, l[j])
      /\ \A d : Cardinality(OfDoc(D!Range(l), d)) = ShareOf(D!Range(f), d)
  BY <1>2, LimitIs
<1> HIDE DEF l
<1>5. /\ D!Range(h) \subseteq D!Range(l)
      /\ Len(h) <= FinalK /\ \A i \in 1..Len(h) : i \in 1..Len(l) /\ h[i] = l[i]
      /\ Len(h) < FinalK => h = l
  BY <1>1, <1>2, BestIs
<1>6. /\ Len(h) \in Nat /\ DOMAIN h = 1..Len(h)
      /\ \A i \in 1..Len(h) : h[i] \in D!Range(h)
  BY <1>2, RankingFacts
<1>7. \A c \in D!Range(f) : D!Rank(f, c) \in 1..Len(f) /\ f[D!Rank(f, c)] = c
  BY <1>2, RankingFacts
<1>8. ASSUME NEW i \in DOMAIN h, NEW j \in DOMAIN h,
             h[i] \in D!Range(v), h[j] \in D!Range(v) => D!Rank(v, h[i]) < D!Rank(v, h[j]),
             h[i] \in D!Range(k), h[j] \in D!Range(k) => D!Rank(k, h[i]) < D!Rank(k, h[j])
      PROVE  i < j
  <2>1. i \in 1..Len(h) /\ j \in 1..Len(h) /\ h[i] \in D!Range(f) /\ h[j] \in D!Range(f)
    BY <1>4, <1>5, <1>6
  <2>2. Better(v, k, h[i], h[j])
    BY <1>1, <1>3, <1>8, <2>1, AgreedIsBetter
  <2>3. D!Rank(f, h[i]) < D!Rank(f, h[j])
    BY <1>3, <1>7, <2>1, <2>2
  <2> QED BY <1>4, <1>5, <2>1, <2>3
<1>9. D!AgreementKept
  <2>1. \A i, j \in DOMAIN h :
          (/\ h[i] \in D!Range(v) /\ (h[j] \in D!Range(v) => D!Rank(v, h[i]) < D!Rank(v, h[j]))
           /\ h[i] \in D!Range(k) /\ (h[j] \in D!Range(k) => D!Rank(k, h[i]) < D!Rank(k, h[j])))
          => i < j
    BY <1>8, Zenon
  <2> QED BY <2>1, Zenon DEF D!AgreementKept, h, v, k
<1>10. ASSUME NEW d PROVE
          /\ Cardinality(OfDoc(D!Range(h), d)) <= ShareOf(D!Range(f), d)
          /\ Len(h) < FinalK => Cardinality(OfDoc(D!Range(h), d)) = ShareOf(D!Range(f), d)
  <2>1. OfDoc(D!Range(h), d) \in SUBSET OfDoc(D!Range(l), d)
    BY <1>5 DEF OfDoc
  <2>2. IsFiniteSet(OfDoc(D!Range(l), d))
    <3>1. IsFiniteSet(D!Range(l)) /\ OfDoc(D!Range(l), d) \in SUBSET D!Range(l)
      BY <1>2, RankingCount DEF OfDoc
    <3> QED BY <3>1, FS_Subset
  <2>3. Cardinality(OfDoc(D!Range(h), d)) <= Cardinality(OfDoc(D!Range(l), d))
    BY <2>1, <2>2, FS_Subset
  <2>4. Len(h) < FinalK => OfDoc(D!Range(h), d) = OfDoc(D!Range(l), d)
    BY <1>5
  <2> QED BY <1>4, <2>3, <2>4
<1>11. Cardinality(D!Range(h)) = Len(h)
  BY <1>2, RankingCount
<1>12. D!DocumentShare
  <2>1. \A d : OfDoc(D!Range(h), d) = {c \in D!Range(h) : c[1] = d}
    BY DEF OfDoc
  <2>2. \A d : ShareOf(D!Range(f), d)
               = LET n == D!Cardinality({c \in D!Range(v) \cup D!Range(k) : c[1] = d})
                 IN IF MaxPerDoc > 0 /\ MaxPerDoc < n THEN MaxPerDoc ELSE n
    BY <1>3, SameCardinality DEF ShareOf, OfDoc
  <2> QED BY <1>5, <1>10, <1>11, <2>1, <2>2, SameCardinality, ZenonT(80) DEF D!DocumentShare, h, v, k
<1> QED BY <1>9, <1>12 DEF AnswersRanked

(* A document called indexed has its vectors, and no search answers from    *)
(* one that was deleted before it began, whichever of the two stores fails  *)
(* and wherever the process ends; for every number of documents, chunks and *)
(* failures.                                                                *)
THEOREM StoresInStep == Spec => []StoresAgree
<1> USE StoresAssumption
<1>1. Init => KnowInv
  BY KnowInit DEF Init
<1>2. KnowInv /\ [Next]_vars => KnowInv'
  BY KnowStep, KnowStutter DEF Next, vars
<1>3. KnowInv => StoresAgree
  BY KnowAgrees
<1> QED BY <1>1, <1>2, <1>3, PTL DEF Spec

(* reciprocal_rank_fusion and limit_chunks_per_document: in every answer a  *)
(* chunk that both rankings put first stays first, no chunk comes twice,    *)
(* and every document has exactly its share as far as there is room; for    *)
(* all rankings, weights, limits and numbers of chunks.                     *)
THEOREM RankedWell == Spec => []AnswersRanked
<1> USE StoresAssumption
<1>1. Init => KnowInv
  BY KnowInit DEF Init
<1>2. KnowInv /\ [Next]_vars => KnowInv'
  BY KnowStep, KnowStutter DEF Next, vars
<1>3. KnowInv => AnswersRanked
  <2>1. search.pc # "answer" => AnswersRanked
    BY DEF AnswersRanked, D!AgreementKept, D!DocumentShare
  <2> QED BY <2>1, KnowRanks
<1> QED BY <1>1, <1>2, <1>3, PTL DEF Spec
=============================================================================
