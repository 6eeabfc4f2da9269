--------------------------- MODULE GenerationCache ---------------------------
(***************************************************************************)
(* The directories of src-tauri/src/core_generation_cache.rs: a generation *)
(* is populated in a private candidate, under a lease whose lock shows     *)
(* that its owner lives; the commit moves it among the generations and     *)
(* then writes the marker that authorises it; the activation state names   *)
(* the generations to protect; and reconciliation removes what nobody      *)
(* owns.  One operation at a time holds the lock of the cache; processes   *)
(* keep their leases between operations.  An operation may fail, its       *)
(* process may be killed, and power may be lost between two system calls.  *)
(*                                                                         *)
(* The activation state is one entry here: StateSlots shows that its files *)
(* are one register.                                                       *)
(***************************************************************************)
EXTENDS ActivationState, FiniteSets

CONSTANTS Proc, Token,    \* processes, and the random names of candidates
          MaxRetained,    \* generations that reconciliation keeps
          MaxFootprint,   \* generations and live candidates that may be stored
          MaxRevision, MaxLosses,   \* bounds
          MaxFails, MaxKills        \* bounds on either kind of file system

ASSUME NamesAssumption == None \notin Proc \union Token
ASSUME BoundAssumption ==
  /\ {MaxRetained, MaxFootprint, MaxRevision, MaxLosses} \subseteq Nat
  /\ MaxFails \in [BOOLEAN -> Nat] /\ MaxKills \in [BOOLEAN -> Nat]

VARIABLES
  ordered, \* the file system makes changes durable in their order
  store,   \* the directories that system calls observe
  disk,    \* every content of them that a power loss may leave
  held,    \* [Proc -> the candidate whose lease the process holds]
  owner,   \* who holds the lock of the cache
  pc, job, \* where it is, and its operation
  token,   \* the candidate it works on
  todo,    \* the directories that it syncs next
  live,    \* the candidates whose leases were held when it inspected them
  fails, kills, losses

fileVars == <<ordered, store, disk>>
budget   == <<fails, kills, losses>>
vars == <<fileVars, held, owner, pc, job, token, todo, live, budget>>

-----------------------------------------------------------------------------
\* "new" is a generation that was not verified in its final place.
Store == [cand  : [Token -> BOOLEAN],
          lease : [Token -> {"none", "torn", "full"}],
          gen   : [Id -> {"none", "new", "verified"}],
          mark  : [Id -> BOOLEAN],
          state : State]
NoJob == [kind |-> "none", id |-> None, ok |-> FALSE]

Generations(r) == {i \in Id : r.gen[i] # "none"}
Live(t) == \E p \in Proc : held[p] = t

\* require_unique_committed_sequence.
Unique(i) ==
  /\ \A j \in Protected(store.state) : store.mark[j] /\ (SeqNo[j] = SeqNo[i] => j = i)
  /\ \A j \in Id : store.mark[j] /\ SeqNo[j] = SeqNo[i] => j = i

\* The evidence that an activation of i requires.
Evidence(i) == /\ i \in Generations(store)
               /\ store.mark[i]
               /\ Unique(i)

-----------------------------------------------------------------------------
Contents == disk \union {store}

\* A change f of the directories, [Contents -> Store].  On an ordered file system
\* it cannot become durable before earlier ones; otherwise each one may or may not.
Change(f) ==
  /\ store' = f[store]
  /\ disk' = disk \union IF ordered THEN {f[store]} ELSE {f[r] : r \in disk}
  /\ UNCHANGED ordered

Put(dir, name, v) == Change([r \in Contents |-> [r EXCEPT ![dir][name] = v]])

\* sync_directory of each of the directories.
Sync(dirs) ==
  disk' = IF ordered THEN {store}
          ELSE {r \in disk : \A d \in dirs : r[d] = store[d]}

\* Go on at l, after a sync of the directories.
Goto(l, dirs) == pc' = l /\ todo' = dirs

Idle == /\ owner' = None /\ pc' = "idle" /\ job' = NoJob
        /\ token' = None /\ todo' = {} /\ live' = {}

Stop == Idle /\ UNCHANGED <<fileVars, budget>>

\* The operation has synced what it had to, and is at l.
At(l) == pc = l /\ todo = {}

\* A process takes the lock for an operation.
Take(p, kind, id) == /\ owner = None /\ owner' = p
                     /\ job' = [kind |-> kind, id |-> id, ok |-> FALSE]

Unsynced == UNCHANGED <<held, owner, job, token, live, budget>>

Init ==
  /\ ordered \in BOOLEAN
  /\ store = [cand  |-> [t \in Token |-> FALSE], lease |-> [t \in Token |-> "none"],
              gen   |-> [i \in Id |-> "none"],   mark  |-> [i \in Id |-> FALSE],
              state |-> Default]
  /\ disk = {store}
  /\ held = [p \in Proc |-> None]
  /\ owner = None /\ pc = "idle" /\ job = NoJob
  /\ token = None /\ todo = {} /\ live = {}
  /\ fails = 0 /\ kills = 0 /\ losses = 0

\* The operation syncs the directories it changed.
SyncDirectories ==
  /\ todo # {}
  /\ Sync(todo)
  /\ todo' = {}
  /\ UNCHANGED <<ordered, store, pc>>
  /\ Unsynced

-----------------------------------------------------------------------------
\* create_candidate_with_prepare.
Create(p) ==
  /\ held[p] = None
  /\ Take(p, "create", None)
  /\ Goto("mkdir", {})
  /\ UNCHANGED <<fileVars, held, token, live, budget>>

\* A candidate has a random name; no name that was used is drawn again.
Unused == {t \in Token : ~ Live(t) /\ \A r \in Contents : ~ r.cand[t] /\ r.lease[t] = "none"}

MakeCandidate ==
  /\ At("mkdir")
  /\ \E t \in Unused :
       /\ Put("cand", t, TRUE)
       /\ token' = t
  /\ Goto("lease", {"cand"})
  /\ UNCHANGED <<held, owner, job, live, budget>>

NoUniqueName == At("mkdir") /\ Unused = {} /\ Stop /\ UNCHANGED held

OpenLease ==
  /\ At("lease")
  /\ Put("lease", token, "torn")
  /\ Goto("fill", {})
  /\ Unsynced

\* The document is written and synced; then both directories are.
FillLease ==
  /\ At("fill")
  /\ LET Filled(r) == IF r.lease[token] = "torn"
                      THEN [r EXCEPT !.lease[token] = "full"] ELSE r
     IN /\ store' = Filled(store)
        /\ disk' = IF ordered THEN {Filled(store)} ELSE {Filled(r) : r \in disk}
  /\ UNCHANGED ordered
  /\ Goto("keep", {"cand", "lease"})
  /\ Unsynced

KeepLease ==
  /\ At("keep")
  /\ held' = [held EXCEPT ![owner] = token]
  /\ Stop

UndoLease ==
  /\ At("undoLease")
  /\ Put("lease", token, "none")
  /\ Goto("undoCandidate", {"lease"})
  /\ Unsynced

UndoCandidate ==
  /\ At("undoCandidate")
  /\ Put("cand", token, FALSE)
  /\ Goto("done", {"cand"})
  /\ Unsynced

-----------------------------------------------------------------------------
\* require_valid_candidate_lease.
ValidLease(p) == /\ held[p] # None
                 /\ store.cand[held[p]] /\ store.lease[held[p]] = "full"

\* commit_candidate: the candidate verifies and its sequence is free; or it is
\* discarded.
Commit(p) ==
  /\ ValidLease(p)
  /\ \E i \in Id :
       /\ Take(p, "commit", i)
       /\ \/ Goto("discard", {})
          \/ Unique(i) /\ Goto(IF store.gen[i] = "none" THEN "revoke" ELSE "reuse", {})
  /\ token' = held[p]
  /\ UNCHANGED <<fileVars, held, live, budget>>

\* (mutant) a marker that was left behind is not revoked.
KeepMarker ==
  /\ At("revoke")
  /\ Goto("rename", {})
  /\ UNCHANGED fileVars
  /\ Unsynced

\* A marker without its generation is forgotten first.
Revoke ==
  /\ At("revoke")
  /\ Put("mark", job.id, FALSE)
  /\ Goto("rename", {"mark"})
  /\ Unsynced

Rename ==
  /\ At("rename")
  /\ Change([r \in Contents |-> [r EXCEPT !.cand[token] = FALSE, !.gen[job.id] = "new"]])
  /\ Goto("verify", {"gen", "cand"})
  /\ Unsynced

\* The generation is verified where it is now, and its sequence is still free.
Verified(r) == IF r.gen[job.id] = "new"
               THEN [r EXCEPT !.gen[job.id] = "verified"] ELSE r

VerifyPublished ==
  /\ At("verify")
  /\ store' = Verified(store) /\ disk' = {Verified(r) : r \in disk} /\ UNCHANGED ordered
  /\ Goto(IF Unique(job.id) THEN "mark" ELSE "unpublish", {})
  /\ Unsynced

\* A generation of this identity is there: it is verified, and it is marked
\* unless it is already.
Reuse ==
  /\ At("reuse")
  /\ store' = Verified(store) /\ disk' = {Verified(r) : r \in disk} /\ UNCHANGED ordered
  /\ Goto(IF store.mark[job.id] THEN "marked" ELSE "mark", {})
  /\ Unsynced

\* (mutant) the commits directory is not synced.
MarkUnsynced ==
  /\ At("mark")
  /\ Put("mark", job.id, TRUE)
  /\ Goto("marked", {})
  /\ Unsynced

\* ensure_generation_commit_marker.
Mark ==
  /\ At("mark")
  /\ Put("mark", job.id, TRUE)
  /\ Goto("marked", {"mark"})
  /\ Unsynced

\* Installed, or already present: then the candidate is redundant.
Marked ==
  /\ At("marked")
  /\ Goto(IF store.cand[token] THEN "discard" ELSE "unlease", {})
  /\ job' = [job EXCEPT !.ok = TRUE]
  /\ UNCHANGED <<fileVars, held, owner, token, live, budget>>

\* cleanup_failed_publication: trust is revoked first.
Unpublish ==
  /\ At("unpublish")
  /\ Put("mark", job.id, FALSE)
  /\ Goto("detach", {"mark"})
  /\ Unsynced

Detach ==
  /\ At("detach")
  /\ Put("gen", job.id, "none")
  /\ Goto("unlease", {"gen", "cand"})
  /\ Unsynced

\* abort_candidate.
Abort(p) ==
  /\ ValidLease(p)
  /\ Take(p, "abort", None)
  /\ Goto("discard", {})
  /\ token' = held[p]
  /\ UNCHANGED <<fileVars, held, live, budget>>

Discard ==
  /\ At("discard")
  /\ Put("cand", token, FALSE)
  /\ Goto("unlease", {"cand"})
  /\ Unsynced

\* remove_candidate_lease.
RemoveLease ==
  /\ At("unlease")
  /\ Put("lease", token, "none")
  /\ Goto("done", {"lease"})
  /\ Unsynced

\* The operation returns; the handle of its lease is of no use any more.
Return ==
  /\ \/ (At("saved") \/ At("resync")) /\ UNCHANGED held
     \/ At("done") /\ held' = [held EXCEPT ![owner] = None]
  /\ Stop

-----------------------------------------------------------------------------
\* begin_activation, acknowledge_healthy, reject_pending and
\* rollback_to_last_known_good: what a state s may be changed to.
NextStates(s) ==
  UNION {
    {Begin(s, i, o) : i \in {j \in Id : CanBegin(s, j) /\ Evidence(j)}, o \in Op},
    {Acknowledge(s) : i \in {j \in Id : Evidence(j) /\ \E o \in Op : CanAcknowledge(s, j, o)}},
    {Reject(s) : i \in {j \in Id : \E o \in Op : CanAcknowledge(s, j, o)}},
    {Rollback(s) : i \in {j \in Id : CanRollback(s, j) /\ s.lkg # s.active
                                       /\ Evidence(s.lkg)}} }

Activate(p) ==
  /\ Take(p, "activate", None)
  /\ \E t \in NextStates(store.state) :
       /\ t.revision <= MaxRevision
       /\ Change([r \in Contents |-> [r EXCEPT !.state = t]])
  /\ Goto("saved", {"state"})
  /\ UNCHANGED <<held, token, live, budget>>

-----------------------------------------------------------------------------
\* reconcile_locked: which contents it works on.
Acceptable(r) ==
  /\ \A i \in Protected(r.state) : r.gen[i] # "none" /\ r.mark[i]
  /\ \A t \in Token : /\ r.lease[t] # "torn"
                      /\ Live(t) /\ r.lease[t] # "none" => r.cand[t]

Abandoned == {t \in Token \ live : store.cand[t]}
Orphans   == {t \in Token \ live : store.lease[t] # "none"}
Unmarked  == {i \in Generations(store) : ~ store.mark[i]}
Stale     == {i \in Id \ Generations(store) : store.mark[i]}

\* On its own, or for the admission of a new candidate.
Reconcile(p) ==
  /\ Acceptable(store)
  /\ \/ Take(p, "reconcile", None)
     \/ held[p] = None /\ Take(p, "admit", None)
  /\ live' = {t \in Token : Live(t) /\ store.lease[t] # "none"}
  /\ Goto("sweep", {})
  /\ UNCHANGED <<fileVars, held, token, budget>>

\* Each abandoned candidate, and then its lease, goes before the orphaned leases.
RemoveAbandoned ==
  /\ At("sweep")
  /\ token = None
  /\ \E t \in Abandoned :
       /\ Put("cand", t, FALSE)
       /\ token' = IF store.lease[t] = "none" THEN None ELSE t
  /\ Goto("sweep", {"cand"})
  /\ UNCHANGED <<held, owner, job, live, budget>>

RemoveOrphan ==
  /\ At("sweep")
  /\ \E t \in Orphans :
       /\ IF token = None THEN Abandoned = {} ELSE t = token
       /\ Put("lease", t, "none")
  /\ token' = None
  /\ Goto("sweep", {"lease"})
  /\ UNCHANGED <<held, owner, job, live, budget>>

Swept == At("sweep") /\ Abandoned = {} /\ Orphans = {}

RemoveStale ==
  /\ Swept
  /\ \E i \in Stale : Put("mark", i, FALSE)
  /\ Goto("sweep", {"mark"})
  /\ Unsynced

RemoveUnmarked ==
  /\ Swept
  /\ Stale = {}
  /\ \E i \in Unmarked : Put("gen", i, "none")
  /\ Goto("sweep", {"gen"})
  /\ Unsynced

\* What is left has its evidence, and distinct sequences.
Sound == /\ Swept /\ Stale = {} /\ Unmarked = {}
         /\ \A i, j \in Generations(store) : SeqNo[i] = SeqNo[j] => i = j
         /\ Cardinality(Protected(store.state)) + Cardinality(live) <= MaxFootprint

Unprotected == Generations(store) \ Protected(store.state)

Excess ==
  \/ Cardinality(Unprotected) + Cardinality(Protected(store.state)) > MaxRetained
  \/ Cardinality(Generations(store)) + Cardinality(live) > MaxFootprint

\* (mutant) the oldest generation, whether it is protected or not.
ExpireOldest ==
  /\ Sound
  /\ Excess
  /\ \E i \in Generations(store) :
       /\ \A j \in Generations(store) : SeqNo[i] <= SeqNo[j]
       /\ job' = [job EXCEPT !.id = i]
       /\ Put("mark", i, FALSE)
  /\ Goto("prune", {"mark"})
  /\ UNCHANGED <<held, owner, token, live, budget>>

\* The oldest unprotected generation: its marker, and then the directory.
Expire ==
  /\ Sound
  /\ Excess
  /\ \E i \in Unprotected :
       /\ \A j \in Unprotected : SeqNo[i] <= SeqNo[j]
       /\ job' = [job EXCEPT !.id = i]
       /\ Put("mark", i, FALSE)
  /\ Goto("prune", {"mark"})
  /\ UNCHANGED <<held, owner, token, live, budget>>

Prune ==
  /\ At("prune")
  /\ Put("gen", job.id, "none")
  /\ Goto("sweep", {"gen"})
  /\ Unsynced

Reconciled ==
  /\ Sound
  /\ ~ Excess \/ Unprotected = {}
  /\ IF job.kind = "admit"
     THEN /\ Goto("mkdir", {})
          /\ live' = {}
          /\ UNCHANGED <<fileVars, held, owner, job, token, budget>>
     ELSE Stop /\ UNCHANGED held

\* Its errors: a sequence that is used twice, or a footprint that is too large.
ReconcileRefuses ==
  /\ Swept /\ Stale = {} /\ Unmarked = {}
  /\ ~ Sound
  /\ Stop /\ UNCHANGED held

-----------------------------------------------------------------------------
\* What the operation does after an error.
Recovery ==
  CASE pc \in {"fill", "keep"}                                 -> "undoLease"
    [] pc = "lease"                                            -> "undoCandidate"
    [] pc = "undoLease"                                        -> "undoCandidate"
    [] pc \in {"revoke", "rename", "reuse"}                    -> "discard"
    [] pc \in {"verify", "mark", "marked"} /\ store.cand[token]   -> "discard"
    [] pc \in {"verify", "mark", "marked"} /\ ~ store.cand[token] -> "unpublish"
    [] pc \in {"unpublish", "detach"}                          -> "unlease"
    [] pc = "discard" /\ job.ok /\ store.cand[token]           -> "discard"
    [] /\ pc = "discard" /\ job.kind = "commit"
       /\ ~ (job.ok /\ store.cand[token])                      -> "unlease"
    [] pc = "unlease" /\ "gen" \in todo                        -> "unlease"
    [] pc = "saved"                                            -> "resync"
    [] OTHER                                                   -> "idle"

Fail ==
  /\ owner # None
  /\ fails < MaxFails[ordered]
  /\ fails' = fails + 1
  /\ IF Recovery = "idle" THEN Idle
     ELSE /\ Goto(Recovery, CASE pc = "saved"                     -> {"state"}
                              [] pc \in {"unpublish", "detach"}    -> {"gen", "cand"}
                              [] OTHER                             -> {})
          /\ job' = [job EXCEPT !.ok = FALSE]
          /\ UNCHANGED <<owner, token, live>>
  /\ UNCHANGED <<fileVars, held, kills, losses>>

\* A process leaves its candidate and its lease behind.
Drop(p) ==
  /\ held[p] # None /\ owner # p
  /\ held' = [held EXCEPT ![p] = None]
  /\ UNCHANGED <<fileVars, owner, pc, job, token, todo, live, budget>>

Kill ==
  /\ owner # None
  /\ kills < MaxKills[ordered]
  /\ kills' = kills + 1
  /\ held' = [held EXCEPT ![owner] = None]
  /\ Idle
  /\ UNCHANGED <<fileVars, fails, losses>>

PowerLoss ==
  /\ losses < MaxLosses
  /\ losses' = losses + 1
  /\ store' \in disk
  /\ disk' = {store'}
  /\ UNCHANGED ordered
  /\ held' = [p \in Proc |-> None]
  /\ Idle
  /\ UNCHANGED <<fails, kills>>

Step ==
  \/ SyncDirectories
  \/ MakeCandidate \/ NoUniqueName \/ OpenLease \/ FillLease \/ KeepLease \/ UndoLease \/ UndoCandidate
  \/ Revoke \/ Rename \/ VerifyPublished \/ Reuse \/ Mark \/ Marked
  \/ Unpublish \/ Detach \/ Discard \/ RemoveLease \/ Return
  \/ RemoveAbandoned \/ RemoveOrphan \/ RemoveStale \/ RemoveUnmarked
  \/ Expire \/ Prune \/ Reconciled \/ ReconcileRefuses

Next ==
  \/ \E p \in Proc : Create(p) \/ Commit(p) \/ Abort(p) \/ Activate(p) \/ Reconcile(p) \/ Drop(p)
  \/ Step \/ Fail \/ Kill \/ PowerLoss

Spec == Init /\ [][Next]_vars

-----------------------------------------------------------------------------
\* What a call that was cut short left visible, later ones trust without a sync
\* of their own: that is sound where changes become durable in their order.
Trusted == ordered \/ fails + kills = 0

\* The generations that the activation state names are there, with their
\* markers, after any power loss: reconciliation prunes only others, a failed
\* commit takes back only its own, and none is named before its evidence is
\* durable.
ProtectedWhole ==
  Trusted => \A r \in Contents :
    \A i \in Protected(r.state) : r.mark[i] /\ i \in Generations(r)

\* A marker never authorises a generation that was not verified in its final
\* place, in particular no marker of an earlier generation of that identity,
\* which was removed or lost.
MarkerMeansVerified ==
  \A r \in Contents : \A i \in Id : r.mark[i] => r.gen[i] # "new"

\* A commit that returned success survives a power loss, whether it published
\* the generation or found one that an interrupted commit had left.
CommitDurable ==
  (Trusted /\ At("done") /\ job.kind = "commit" /\ job.ok) =>
     \A r \in disk : r.mark[job.id] /\ job.id \in Generations(r)

\* No operation of another process, a reconciliation above all, touches a
\* candidate whose lease is held, or the lease itself.
LiveUntouched ==
  \A p \in Proc :
    (ValidLease(p) /\ held'[p] = held[p] /\ p \notin {owner, owner'})
      => /\ store'.cand[held[p]] = store.cand[held[p]]
         /\ store'.lease[held[p]] = store.lease[held[p]]

\* What the activation state names, and what a live process works on, is kept
\* by every step, also by one that may lose what was not synced.
GenerationsKept == [][ProtectedWhole' /\ LiveUntouched]_vars

\* Reconciliation works on whatever a process that died left behind: lease
\* residue is intentional, and reconciliation owns its deletion.
ResidueReconcilable ==
  (owner = None /\ \A p \in Proc : held[p] = None) => Acceptable(store)
=============================================================================
