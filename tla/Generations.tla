----------------------------- MODULE Generations -----------------------------
(***************************************************************************)
(* Generations: allocation, publication, selection and garbage collection  *)
(* (gripsack-store generations/*.rs, gripsack-exec gc.rs), every command   *)
(* under the session lock, killed or losing power anywhere.                *)
(*                                                                         *)
(* As in Journal, a name is what the kernel shows and the set of things a  *)
(* power loss may leave there; the names of generations/ share a barrier,  *)
(* and so do the names of the home directory.  Destinations and journal    *)
(* appear only by the marker's contract: it is seen, or gone from view but *)
(* perhaps not from the disk, or gone.                                     *)
(***************************************************************************)
EXTENDS Naturals, FiniteSets

CONSTANTS
  MaxGen,      \* the last identity a generation can have (u64::MAX in the code)
  Keep         \* the keep_generations settings; MaxGen keeps them all

ASSUME MaxGenAssumption == MaxGen \in Nat /\ MaxGen > 0
ASSUME KeepAssumption == Keep \subseteq Nat

Gen   == 1..MaxGen
Id    == 0..MaxGen     \* 0: no current generation, no counter
Place == {"none", "live", "retiring", "retired"}

VARIABLES
  place, placeDisk,      \* generations/N, .retiring-N or .retired-N
  needs,                 \* the predecessors that a manifest's receipts name
  floor, floorDisk,      \* generations/high-water
  current, currentDisk,  \* the generation of the selection `current' names
  marker,                \* the journal's run marker: "open", "closing" or "none"
  payload,               \* generations whose store payload is still there
  staged,                \* generations whose directory staging is still there
  whole,                 \* generations whose manifest can still be read
  pc,                    \* where the process holding the session lock is
  target,                \* the generation a run builds or rolls back to
  doomed,                \* generations collection has still to move aside
  queue,                 \* retirements whose staging it has still to delete
  spent,                 \* retired manifests it has still to remove
  kept,                  \* generations whose payload it will not delete
  used                   \* history: identities ever visible as published

names   == <<place, placeDisk>>
counter == <<floor, floorDisk>>
pointer == <<current, currentDisk>>
objects == <<payload, staged, whole>>
plan    == <<doomed, queue, spent, kept>>
vars    == <<names, needs, counter, pointer, marker, objects, pc, target, plan, used>>

PC == {"idle", "unmarked", "ready", "run", "raising", "raised", "renamed", "published",
       "flipped", "commit", "gc", "counting", "prune", "retire",
       "unstaged", "retiring", "removing", "consumed", "removed",
       "sweep", "swept", "collect"}

TypeOK ==
  /\ place \in [Gen -> Place] /\ placeDisk \in [Gen -> SUBSET Place]
  /\ needs \in [Gen -> SUBSET Gen]
  /\ floor \in Id /\ floorDisk \in SUBSET Id
  /\ current \in Id /\ currentDisk \in SUBSET Id
  /\ marker \in {"open", "closing", "none"}
  /\ payload \in SUBSET Gen /\ staged \in SUBSET Gen /\ whole \in SUBSET Gen
  /\ pc \in PC /\ target \in Id
  /\ doomed \in SUBSET Gen /\ queue \in SUBSET Gen /\ spent \in SUBSET Gen
  /\ kept \in SUBSET Gen /\ used \in SUBSET Gen

-----------------------------------------------------------------------------
At(p) == {n \in Gen : place[n] = p}
IsLargest(n, S) == n \in S \cup {0} /\ \A m \in S : m <= n

\* plan_prune: the oldest in excess of what is kept, the current one excepted.
Excess(keep) ==
  {n \in At("live") \ {current} :
     Cardinality({m \in At("live") : m > n}) >= keep}

\* A generation that is kept keeps those its receipts name, and so on.
Closed(K) == \A n \in K : needs[n] \cap At("live") \subseteq K
Retained(keep) ==
  {n \in At("live") : \A K \in SUBSET At("live") :
     At("live") \ Excess(keep) \subseteq K /\ Closed(K) => n \in K}

\* admit_gc: no recovery is pending, and the current generation is there.
Admitted == marker # "open" /\ current \in {0} \cup At("live")

\* pending: earlier prunes that are not retired yet.
Tombstones == At("retiring")

\* plan_delete: what no retained manifest references.
Unreferenced == payload \ kept

SyncGenerations ==
  /\ placeDisk' = [n \in Gen |-> {place[n]}]
  /\ floorDisk' = {floor}
SyncHome == currentDisk' = {current}

Move(n, to) ==
  /\ place' = [place EXCEPT ![n] = to]
  /\ placeDisk' = [placeDisk EXCEPT ![n] = @ \cup {to}]

\* preserve_allocation_floor, as far as the write; the same barrier follows a
\* counter that already stands at the floor.
Raise(n) ==
  /\ floor' = IF n > floor THEN n ELSE floor
  /\ floorDisk' = floorDisk \cup {floor'}

Goto(from, to) == pc = from /\ pc' = to

\* A step that is only the barrier of generations/.
Barrier(from, to) ==
  /\ Goto(from, to)
  /\ SyncGenerations
  /\ UNCHANGED <<place, floor, needs, pointer, marker, objects, target, plan, used>>

-----------------------------------------------------------------------------
\* A history may predate the counter.
Init ==
  /\ \E past \in 0..(MaxGen - 1) :
       /\ place = [n \in Gen |-> IF n <= past THEN "live" ELSE "none"]
       /\ floor \in {0, past}
       /\ current \in (IF past = 0 THEN {0} ELSE 1..past)
  /\ placeDisk = [n \in Gen |-> {place[n]}]
  /\ needs \in [Gen -> SUBSET Gen]
  /\ \A n \in Gen : needs[n] \subseteq {n - 1} /\ (needs[n] # {} => place[n] = "live")
  /\ floorDisk = {floor} /\ currentDisk = {current}
  /\ marker = "none"
  /\ payload = At("live") /\ staged = At("live") /\ whole = At("live")
  /\ used = At("live")
  /\ pc = "idle" /\ target = 0
  /\ doomed = {} /\ queue = {} /\ spent = {} /\ kept = {}

-----------------------------------------------------------------------------
(* Runs.                                                                   *)

\* Reconciliation seals the pointer it saw and takes the marker away.
Reconcile ==
  /\ Goto("idle", "unmarked")
  /\ SyncHome
  /\ marker' = IF marker = "none" THEN "none" ELSE "closing"
  /\ UNCHANGED <<names, needs, counter, current, objects, target, plan, used>>

SyncMarker ==
  /\ Goto("unmarked", "ready")
  /\ marker' = "none"
  /\ UNCHANGED <<names, needs, counter, pointer, objects, target, plan, used>>

Quit ==
  /\ Goto("ready", "idle")
  /\ UNCHANGED <<names, needs, counter, pointer, marker, objects, target, plan, used>>

\* Mutant: an identity past the last one is no error.
AllocateUnchecked ==
  /\ Goto("ready", "run")
  /\ \E last \in Id : /\ IsLargest(last, {current, floor} \cup At("live"))
                      /\ target' = last + 1
  /\ marker' = "open"
  /\ UNCHANGED <<names, needs, counter, pointer, objects, plan, used>>

\* allocate, then begin_run: above the current generation, every generation in
\* the inventory and the counter.
Allocate ==
  /\ Goto("ready", "run")
  /\ \E last \in Id : /\ IsLargest(last, {current, floor} \cup At("live"))
                      /\ last < MaxGen /\ target' = last + 1
  /\ marker' = "open"
  /\ UNCHANGED <<names, needs, counter, pointer, objects, plan, used>>

\* A run that changed nothing.
EndRun ==
  /\ Goto("run", "idle")
  /\ marker' = "none"
  /\ UNCHANGED <<names, needs, counter, pointer, objects, target, plan, used>>

\* publish_generation: the counter, its barrier, the rename, its barrier.
RaiseFloor ==
  /\ Goto("run", "raising")
  /\ place[target] = "none"
  /\ Raise(target)
  /\ UNCHANGED <<names, needs, pointer, marker, objects, target, plan, used>>

SyncFloor == Barrier("raising", "raised")

\* Its receipts may name the generation it follows, and what that one names.
Publish(receipts) ==
  /\ Goto("raised", "renamed")
  /\ receipts \subseteq IF current = 0 THEN {} ELSE {current} \cup needs[current]
  /\ place[target] = "none"
  /\ Move(target, "live")
  /\ needs' = [needs EXCEPT ![target] = receipts]
  /\ payload' = payload \cup {target} /\ staged' = staged \cup {target}
  /\ whole' = whole \cup {target}
  /\ used' = used \cup {target}
  /\ UNCHANGED <<counter, pointer, marker, target, plan>>

SyncPublished == Barrier("renamed", "published")

\* rollback: an earlier generation, admitted from the inventory, is the target.
Rollback(n) ==
  /\ Goto("ready", "published")
  /\ place[n] = "live"
  /\ target' = n /\ marker' = "open"
  /\ UNCHANGED <<names, needs, counter, pointer, objects, plan, used>>

\* Mutant: the pointer moves to a manifest that was only looked at.
FlipUnsealed ==
  /\ Goto("published", "flipped")
  /\ place[target] = "live"
  /\ current' = target /\ currentDisk' = {current, target}
  /\ UNCHANGED <<names, needs, counter, marker, objects, target, plan, used>>

\* flip admits the target's manifest, and with it the names around it.
Flip ==
  /\ Goto("published", "flipped")
  /\ place[target] = "live"
  /\ SyncGenerations
  /\ current' = target /\ currentDisk' = {current, target}
  /\ UNCHANGED <<place, floor, needs, marker, objects, target, plan, used>>

SyncFlip ==
  /\ Goto("flipped", "commit")
  /\ SyncHome
  /\ UNCHANGED <<names, needs, counter, current, marker, objects, target, plan, used>>

CommitRun ==
  /\ Goto("commit", "idle")
  /\ marker' = "none"
  /\ UNCHANGED <<names, needs, counter, pointer, objects, target, plan, used>>

\* A cleanup that stops, before the marker or before its last barrier, is a
\* warning: the command has succeeded.
CleanupPending ==
  /\ Goto("commit", "idle")
  /\ marker' \in {"open", "closing"}
  /\ UNCHANGED <<names, needs, counter, pointer, objects, target, plan, used>>

-----------------------------------------------------------------------------
(* Collection.                                                             *)

\* Refuse while a marker is seen, or when the current generation is missing;
\* admit every manifest; plan.  A receipt whose predecessor is gone refuses.
Collect(keep) ==
  /\ Goto("idle", "gc")
  /\ Admitted
  /\ IF At("live") \cup Tombstones = {} THEN UNCHANGED <<placeDisk, floorDisk, currentDisk>>
     ELSE SyncGenerations /\ SyncHome
  /\ kept' = Retained(keep)
  /\ \A n \in kept' : needs[n] \subseteq At("live")
  /\ doomed' = At("live") \ kept'
  /\ queue' = Tombstones /\ spent' = At("retired")
  /\ UNCHANGED <<place, floor, current, needs, marker, objects, target, used>>

\* prune: the counter first, so that no identity is forgotten with its name.
CountFirst ==
  /\ Goto("gc", "counting")
  /\ \E last \in Id : IsLargest(last, {n \in Gen : place[n] # "none"}) /\ Raise(last)
  /\ UNCHANGED <<names, needs, pointer, marker, objects, target, plan, used>>

SyncCounter == Barrier("counting", "prune")

\* Mutant: oldest first.
PruneOldestFirst ==
  /\ pc = "prune"
  /\ \E n \in doomed : /\ \A m \in doomed : n <= m
                       /\ Move(n, "retiring")
                       /\ doomed' = doomed \ {n} /\ queue' = queue \cup {n}
  /\ UNCHANGED <<needs, counter, pointer, marker, objects, pc, target, spent, kept, used>>

\* Descendants first.
PruneNext ==
  /\ pc = "prune"
  /\ \E n \in doomed : /\ IsLargest(n, doomed)
                       /\ Move(n, "retiring")
                       /\ doomed' = doomed \ {n} /\ queue' = queue \cup {n}
  /\ UNCHANGED <<needs, counter, pointer, marker, objects, pc, target, spent, kept, used>>

SyncPruned == doomed = {} /\ Barrier("prune", "retire")

\* retire: a manifest's staging is deleted, and the deletion made durable,
\* before the manifest gives up its authority.  (Earlier retirements first in
\* the code; no property depends on the order.)
Unstage ==
  /\ Goto("retire", "unstaged")
  /\ \E n \in queue : target' = n /\ staged' = staged \ {n}
  /\ UNCHANGED <<names, needs, counter, pointer, marker, payload, whole, plan, used>>

\* finish_retirement: a second name, its barrier, the removal, its barrier.
FinishRetirement ==
  /\ Goto("unstaged", "retiring")
  /\ Move(target, "retired")
  /\ queue' = queue \ {target}
  /\ UNCHANGED <<needs, counter, pointer, marker, objects, target, doomed, spent, kept, used>>

SyncRetired == Barrier("retiring", "removing")

\* A recursive removal takes the manifest some time before the name.
ConsumeManifest ==
  /\ Goto("removing", "consumed")
  /\ whole' = whole \ {target}
  /\ UNCHANGED <<names, needs, counter, pointer, marker, payload, staged, target, plan, used>>

RemoveRetired ==
  /\ Goto("consumed", "removed")
  /\ Move(target, "none")
  /\ UNCHANGED <<needs, counter, pointer, marker, objects, target, plan, used>>

SyncRemoved == Barrier("removed", "retire")

\* cleanup_retired: what an earlier collection left half removed.
AllRetired == queue = {} /\ Barrier("retire", "sweep")

SweepNext ==
  /\ Goto("sweep", "swept")
  /\ \E n \in spent : /\ Move(n, "none") /\ whole' = whole \ {n}
                      /\ spent' = spent \ {n}
  /\ UNCHANGED <<needs, counter, pointer, marker, payload, staged, target, doomed, queue, kept, used>>

SyncSwept == Barrier("swept", "sweep")

\* Mutant: half removed retirements are left where they are.
StopSweeping ==
  /\ Goto("sweep", "collect")
  /\ UNCHANGED <<names, needs, counter, pointer, marker, objects, target, plan, used>>

AllSwept ==
  /\ Goto("sweep", "collect") /\ spent = {}
  /\ UNCHANGED <<names, needs, counter, pointer, marker, objects, target, plan, used>>

\* Store payloads that no kept manifest references.
CollectPayload(n) ==
  /\ pc = "collect" /\ n \in Unreferenced
  /\ payload' = payload \ {n}
  /\ UNCHANGED <<names, needs, counter, pointer, marker, staged, whole, pc, target, plan, used>>

Collected ==
  /\ Goto("collect", "idle") /\ Unreferenced = {}
  /\ kept' = {}
  /\ UNCHANGED <<names, needs, counter, pointer, marker, objects, target, doomed, queue, spent, used>>

-----------------------------------------------------------------------------
(* Errors, crashes and power loss.                                         *)

Forget ==
  /\ pc' = "idle" /\ target' = 0
  /\ doomed' = {} /\ queue' = {} /\ spent' = {} /\ kept' = {}

\* An error, a compensation that fails, or a kill: what is visible stays.
Stop ==
  /\ pc # "idle" /\ Forget
  /\ UNCHANGED <<names, needs, counter, pointer, marker, objects, used>>

PowerLoss ==
  /\ place' \in {f \in [Gen -> Place] : \A n \in Gen : f[n] \in placeDisk[n]}
  /\ placeDisk' = [n \in Gen |-> {place'[n]}]
  /\ floor' \in floorDisk /\ floorDisk' = {floor'}
  /\ current' \in currentDisk /\ currentDisk' = {current'}
  /\ marker' \in IF marker = "closing" THEN {"open", "none"} ELSE {marker}
  /\ Forget
  /\ UNCHANGED <<needs, objects, used>>

-----------------------------------------------------------------------------
Lifecycle ==
  \/ Reconcile \/ SyncMarker \/ Quit \/ Allocate \/ EndRun \/ RaiseFloor \/ SyncFloor
  \/ \E receipts \in SUBSET Gen : Publish(receipts)
  \/ SyncPublished \/ Flip \/ SyncFlip \/ CommitRun
  \/ \E n \in Gen : Rollback(n)

Collection ==
  \/ \E keep \in Keep : Collect(keep)
  \/ CountFirst \/ SyncCounter \/ PruneNext \/ SyncPruned
  \/ Unstage \/ FinishRetirement \/ SyncRetired \/ ConsumeManifest
  \/ RemoveRetired \/ SyncRemoved
  \/ AllRetired \/ SweepNext \/ SyncSwept \/ AllSwept \/ Collected
  \/ \E n \in Gen : CollectPayload(n)

Faults == CleanupPending \/ Stop

Next == Lifecycle \/ Collection \/ Faults \/ PowerLoss

Spec == Init /\ [][Next]_vars

-----------------------------------------------------------------------------
(* Properties.                                                             *)

\* A published identity never names a second generation, whatever was pruned,
\* rolled back or lost in between: allocate's counter, made durable before a
\* rename can show or take away a name (publication.rs).
NumbersAreNotReused ==
  [][pc = "raised" /\ pc' = "renamed" => target \notin used]_vars

\* `current' names a complete published generation on every disk that a power
\* loss can leave: publication precedes selection, and collection never takes
\* a generation that a disk may still select.
CurrentIsPublished ==
  \A c \in currentDisk \ {0} : placeDisk[c] = {"live"}

\* A manifest that can still come back as history has the payload it pins, and
\* one that can come back as a retirement can still be read: collection deletes
\* bytes only after the loss of the name that needs them is durable.
NamesKeepTheirBytes ==
  \A n \in Gen :
    /\ "live" \in placeDisk[n] => n \in payload
    /\ placeDisk[n] \cap {"live", "retiring"} # {} => n \in whole

\* While a generation's staging may exist, the manifest that is the authority
\* to delete it has not been given up on any disk (gc/directory_roots.rs).
StagingHasAuthority ==
  \A n \in staged : "retired" \notin placeDisk[n]

\* The pointer selects a published generation on every disk, a name that can come back
\* has its bytes, and staging is deleted while the manifest that gives the authority to
\* is still there (gripsack-store/generations, gc.rs).
SelectionIsSound == CurrentIsPublished /\ NamesKeepTheirBytes /\ StagingHasAuthority

\* A generation in the history has the predecessors its receipts name.
Lineage(at) == \A n \in Gen : at[n] = "live" => \A p \in needs[n] : at[p] = "live"

\* No command, and no kill between its steps, breaks a lineage: it only takes
\* a power loss, which LineageSurvivesInterruption is about.
CommandsKeepLineage ==
  [][Lineage(place) => Lineage(place)' \/ PowerLoss]_vars

\* Numbers are handed out once, and pruning never cuts a generation off from the
\* predecessor it still names (gripsack-store/generations, gc.rs).
LineageIsKept == NumbersAreNotReused /\ CommandsKeepLineage

\* inventory.rs says of prune: interruption must not leave a live receipt with
\* a pruned predecessor.  journal/model.rs has power loss keep any subset of the
\* writes since the last barrier.
LineageSurvivesInterruption == Lineage(place)

-----------------------------------------------------------------------------
(* Progress: a process in a command keeps taking steps, commands are       *)
(* started, and a collection, possible only between commands while no      *)
(* marker stands, is started as often as it keeps becoming possible.       *)

FairSpec ==
  /\ Spec
  /\ WF_vars(Lifecycle) /\ WF_vars(pc # "idle" /\ Collection)
  /\ SF_vars(\E keep \in Keep : Collect(keep))

\* Once nothing fails any more, time and again no retirement is left unfinished,
\* whatever kill or power loss interrupted it: a later collection completes it
\* (inventory.rs: "Empty retries seal earlier interrupted renames as well"),
\* unless a power loss has taken a predecessor of what remains: collection
\* then refuses for ever.
RetirementsFinish ==
  <>[][~(Faults \/ PowerLoss)]_vars /\ <>[]Lineage(place) =>
    []<>(\A n \in Gen : place[n] \in {"live", "none"})
=============================================================================
