----------------------------- MODULE StateSlots -----------------------------
(***************************************************************************)
(* How src-tauri/src/core_generation_cache.rs keeps the activation state:  *)
(* two slot files, written alternately by revision, a file that says that  *)
(* the slots are initialised, and the single file of earlier versions,     *)
(* from which the slots are migrated.  Every operation holds the lock of   *)
(* the cache from its load to its return, so that one is running at a      *)
(* time; it may fail, its process may be killed, and power may be lost     *)
(* between any two system calls.                                           *)
(*                                                                         *)
(* The evidence of the generations themselves is in GenerationCache: here  *)
(* every generation is committed.                                          *)
(***************************************************************************)
EXTENDS ActivationState

CONSTANTS Caller,     \* processes; each has its own operation identifier
          OpOf,       \* [Caller -> Op]
          MaxSlotRevision, MaxSlotLosses,   \* bounds
          MaxSlotFails, MaxSlotKills        \* bounds on either kind of file system

\* A file that is not there has no content.
ASSUME AbsentAssumption == None \notin State
ASSUME SlotAssumption ==
  /\ None \notin Caller
  /\ OpOf \in [Caller -> Op]
  /\ MaxSlotRevision \in Nat /\ MaxSlotLosses \in Nat
  /\ MaxSlotFails \in [BOOLEAN -> Nat] /\ MaxSlotKills \in [BOOLEAN -> Nat]

VARIABLES
  inOrder,   \* the file system makes changes durable in their order
  root,      \* the files that system calls observe
  files,     \* every content of the root that a power loss may leave
  holder,    \* who holds the lock of the cache
  at, call,  \* where it is, and its operation
  next,      \* the file, and the state, that it is writing
  known,     \* [Caller -> the revision it was last told]
  promised,  \* (history) the last new state that a caller was told is saved
  slotFails, slotKills, slotLosses

rootVars == <<inOrder, root, files>>
callVars == <<holder, at, call, next>>
slotBudget == <<slotFails, slotKills, slotLosses>>
slotVars == <<rootVars, callVars, known, promised, slotBudget>>

-----------------------------------------------------------------------------
Slot  == {"a", "b"}
Entry == Slot \union {"legacy", "required"}
Request == [kind : {"load", "begin", "authenticate", "acknowledge", "reject", "rollback"},
            id : Id \union {None}]
NoRequest == [kind |-> "load", id |-> None]
NoNext == [file |-> "required", value |-> None]

Other(f) == IF f = "a" THEN "b" ELSE "a"

\* state_slot_name.
SlotOf(n) == IF n % 2 = 0 THEN "a" ELSE "b"

\* select_state_slots: equal slots, or consecutive ones in their own files.
Consistent(r) ==
  \/ r["a"] = r["b"]
  \/ \E f \in Slot :
       /\ r[f].revision = r[Other(f)].revision + 1
       /\ SlotOf(r[f].revision) = f
       /\ r[f].hw >= r[Other(f)].hw

Newest(r) == IF r["a"].revision >= r["b"].revision THEN r["a"] ELSE r["b"]

Present(r) == {f \in Slot : r[f] # None}

\* load_state_unlocked: what it returns, and which contents it accepts.
Loaded(r) ==
  IF r["legacy"] # None THEN r["legacy"]
  ELSE IF r["required"] /\ Present(r) = Slot THEN Newest(r) ELSE Default

Loadable(r) ==
  IF r["legacy"] # None THEN \A f \in Present(r) : r[f] = r["legacy"]
  ELSE IF r["required"] THEN Present(r) = Slot /\ Consistent(r)
  ELSE \A f \in Present(r) : r[f] = Default

-----------------------------------------------------------------------------
\* A change of one entry of the root; on an ordered file system it cannot
\* become durable before the changes made earlier.
Set(f, v) ==
  /\ root' = [root EXCEPT ![f] = v]
  /\ files' = files \union IF inOrder THEN {[root EXCEPT ![f] = v]}
                           ELSE {[r EXCEPT ![f] = v] : r \in files}
  /\ UNCHANGED inOrder

\* sync_directory(root).
SyncRoot == files' = {root} /\ UNCHANGED <<inOrder, root>>

GoOn(l) == at' = l /\ UNCHANGED <<holder, call>>
Finish == holder' = None /\ at' = "idle" /\ call' = NoRequest /\ next' = NoNext

\* The operation returns the state s.
Reply(s) == Finish /\ known' = [known EXCEPT ![holder] = s.revision]

SlotsInit ==
  /\ inOrder \in BOOLEAN
  /\ \E s \in {None, Default} \union {t \in [revision : {3}, hw : {SeqNo[i] : i \in Id},
                active : Id, pending : {None}, lkg : {None}, op : {None}] : Valid(t)} :
       root = [f \in Entry |-> CASE f = "legacy" -> s
                                 [] f = "required" -> FALSE
                                 [] OTHER -> None]
  /\ files = {root}
  /\ holder = None /\ at = "idle" /\ call = NoRequest /\ next = NoNext
  /\ known = [p \in Caller |-> 0]
  /\ promised = Loaded(root)
  /\ slotFails = 0 /\ slotKills = 0 /\ slotLosses = 0

\* A caller takes the lock of the cache.
Enter(p) ==
  /\ holder = None
  /\ call' \in Request
  /\ call'.kind = "load" <=> call'.id = None
  /\ call'.kind = "load" \/ Loaded(root).revision < MaxSlotRevision
  /\ holder' = p
  /\ at' = "load"
  /\ UNCHANGED <<rootVars, next, known, promised, slotBudget>>

-----------------------------------------------------------------------------
\* load_state_unlocked.  The slots are created one after the other, from the
\* legacy state or from the default one; each is renamed into place and the
\* root is synced; then the marker is created in the same way.
Initialised == root["required"] /\ root["legacy"] = None

\* (mutant) the marker is created before the second slot.
MissingMarkerFirst ==
  IF ~ root["required"] /\ root["a"] # None THEN "required"
  ELSE IF root["a"] = None THEN "a" ELSE "b"

Missing == IF root["a"] = None THEN "a"
           ELSE IF root["b"] = None THEN "b" ELSE "required"

CreateFile ==
  /\ at = "load"
  /\ Loadable(root)
  /\ Present(root) # Slot \/ ~ root["required"]
  /\ LET f == Missing
         v == IF f = "required" THEN TRUE ELSE Loaded(root)
     IN /\ Set(f, v)
        /\ next' = [file |-> f, value |-> None]
  /\ GoOn("created")
  /\ UNCHANGED <<known, promised, slotBudget>>

SyncCreated ==
  /\ at = "created"
  /\ SyncRoot
  /\ GoOn("load")
  /\ next' = NoNext
  /\ UNCHANGED <<known, promised, slotBudget>>

\* The sync, or the verification after it, fails: the new file is removed.
CreateFails ==
  /\ at = "created"
  /\ slotFails < MaxSlotFails[inOrder]
  /\ slotFails' = slotFails + 1
  /\ Set(next.file, IF next.file = "required" THEN FALSE ELSE None)
  /\ GoOn("undo")
  /\ UNCHANGED <<next, known, promised, slotKills, slotLosses>>

UndoCreate ==
  /\ at = "undo"
  /\ SyncRoot
  /\ Finish
  /\ UNCHANGED <<known, promised, slotBudget>>

\* The legacy file goes last.
RemoveLegacy ==
  /\ at = "load"
  /\ Loadable(root)
  /\ root["legacy"] # None /\ Present(root) = Slot /\ root["required"]
  /\ Set("legacy", None)
  /\ GoOn("migrated")
  /\ UNCHANGED <<next, known, promised, slotBudget>>

SyncMigrated ==
  /\ at = "migrated"
  /\ SyncRoot
  /\ GoOn("decide")
  /\ UNCHANGED <<next, known, promised, slotBudget>>

Load ==
  /\ at = "load"
  /\ Loadable(root)
  /\ Initialised
  /\ GoOn("decide")
  /\ UNCHANGED <<rootVars, next, known, promised, slotBudget>>

-----------------------------------------------------------------------------
\* What the operation does with the loaded state s: the states it may save, or
\* none where it returns s, or an error.
Changes(s) ==
  LET i == call.id
      o == OpOf[holder]
      expected == known[holder] = s.revision
  IN CASE call.kind = "begin" /\ expected /\ CanBegin(s, i) -> {Begin(s, i, o)}
       [] call.kind = "authenticate" /\ CanBegin(s, i) -> {Begin(s, i, o)}
       [] call.kind = "acknowledge" /\ expected /\ CanAcknowledge(s, i, o)
            -> {Acknowledge(s)}
       [] call.kind = "reject" /\ expected /\ CanAcknowledge(s, i, o) -> {Reject(s)}
       [] call.kind = "rollback" /\ expected /\ CanRollback(s, i) /\ s.active # s.lkg
            -> {Rollback(s)}
       [] OTHER -> {}

\* A load, and an operation that finds its work done.
Satisfied(s) ==
  \/ call.kind = "load"
  \/ call.kind \in {"begin", "authenticate"} /\ BegunBy(s, call.id, OpOf[holder])
  \/ /\ call.kind = "begin" /\ s.pending = None
     /\ known[holder] = s.revision /\ s.active = call.id
  \/ /\ call.kind = "rollback" /\ known[holder] = s.revision
     /\ CanRollback(s, call.id) /\ s.active = s.lkg

Answer ==
  /\ at = "decide"
  /\ Satisfied(Loaded(root))
  /\ Reply(Loaded(root))
  /\ UNCHANGED <<rootVars, promised, slotBudget>>

\* save_next_state: the temporary is written and synced.
Stage ==
  /\ at = "decide"
  /\ ~ Satisfied(Loaded(root))
  /\ \E t \in Changes(Loaded(root)) :
       /\ Valid(t) /\ t.hw >= Loaded(root).hw
       /\ next' = [file |-> SlotOf(t.revision), value |-> t]
  /\ GoOn("publish")
  /\ UNCHANGED <<rootVars, known, promised, slotBudget>>

\* (mutant) the older slot is removed first, instead of being replaced.
PublishInTwo ==
  /\ at = "publish"
  /\ root' = [root EXCEPT ![next.file] = next.value]
  /\ files' = files \union {root', [root EXCEPT ![next.file] = None]}
  /\ UNCHANGED inOrder
  /\ GoOn("sync")
  /\ UNCHANGED <<next, known, promised, slotBudget>>

\* The rename over the older slot.
Publish ==
  /\ at = "publish"
  /\ Set(next.file, next.value)
  /\ GoOn("sync")
  /\ UNCHANGED <<next, known, promised, slotBudget>>

SyncPublished ==
  /\ at = "sync"
  /\ SyncRoot
  /\ Reply(next.value)
  /\ promised' = next.value
  /\ UNCHANGED slotBudget

\* The loaded files are inconsistent, the operation is not allowed, or it
\* expects another revision.
Refuse ==
  /\ \/ at = "load" /\ ~ Loadable(root)
     \/ at = "decide" /\ ~ Satisfied(Loaded(root)) /\ Changes(Loaded(root)) = {}
  /\ Finish
  /\ UNCHANGED <<rootVars, known, promised, slotBudget>>

\* Any other error, and an error of a cleanup.  One after the rename leaves the
\* new state in its slot; its cleanup finds no temporary and syncs the root,
\* unless that fails as well.
SlotsFail ==
  /\ at # "idle"
  /\ slotFails < MaxSlotFails[inOrder]
  /\ slotFails' = slotFails + 1
  /\ IF at = "sync" THEN SyncRoot \/ UNCHANGED rootVars ELSE UNCHANGED rootVars
  /\ Finish
  /\ UNCHANGED <<known, promised, slotKills, slotLosses>>

SlotsKill ==
  /\ holder # None
  /\ slotKills < MaxSlotKills[inOrder]
  /\ slotKills' = slotKills + 1
  /\ Finish
  /\ UNCHANGED <<rootVars, known, promised, slotFails, slotLosses>>

SlotsPowerLoss ==
  /\ slotLosses < MaxSlotLosses
  /\ slotLosses' = slotLosses + 1
  /\ root' \in files
  /\ files' = {root'}
  /\ UNCHANGED inOrder
  /\ Finish
  /\ UNCHANGED <<known, promised, slotFails, slotKills>>

SlotsStep ==
  \/ CreateFile \/ SyncCreated \/ UndoCreate \/ RemoveLegacy \/ SyncMigrated
  \/ Load \/ Answer \/ Stage \/ Publish \/ SyncPublished \/ Refuse

SlotsNext ==
  \/ \E p \in Caller : Enter(p)
  \/ SlotsStep \/ CreateFails \/ SlotsFail \/ SlotsKill \/ SlotsPowerLoss

SlotsSpec == SlotsInit /\ [][SlotsNext]_slotVars

-----------------------------------------------------------------------------
\* A call that was cut short left its change visible; the next one trusts it
\* without a sync of its own, which is sound where changes become durable in
\* their order.
SlotsTrusted == inOrder \/ slotFails + slotKills = 0

\* However an initialisation, a migration or a save was cut short, and in
\* whatever order the earlier ones were, the files that are left are ones that
\* load_state_unlocked accepts: none of its "incomplete or inconsistent", "have
\* an invalid revision sequence" and "conflicts with legacy state" errors can
\* lock the cache, and the state they hold is a valid one.
NeverLockedOut == \A r \in files \union {root} : Loadable(r) /\ Valid(Loaded(r))

\* A change that save_next_state reported is never lost, nor the high-water
\* mark lowered, by a failure, a kill or a power loss of this operation or of a
\* later one that did not complete.
ReportedIsDurable ==
  \A r \in files \union {root} :
    LET s == Loaded(r)
    IN /\ s.revision >= promised.revision
       /\ s.revision = promised.revision => s = promised
       /\ s.hw >= promised.hw

\* The slots are readable, and hold what was reported, whatever was cut short.
SlotsRecover == SlotsTrusted => NeverLockedOut /\ ReportedIsDurable

\* The two slots, the marker and the legacy file behave as one register.
Register == INSTANCE ActivationRegister
              WITH cur <- Loaded(root), recent <- {Loaded(r) : r \in files}
ImplementsRegister == Register!Spec
=============================================================================
