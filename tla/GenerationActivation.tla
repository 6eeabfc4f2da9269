------------------------- MODULE GenerationActivation -------------------------
(***************************************************************************)
(* The activation of an authenticated generation, of                       *)
(* src-tauri/src/core_generation_cache/activation.rs, and the operations   *)
(* of the cache it is made of (core_generation_cache.rs).  A caller holds  *)
(* capabilities: a generation, the generations between it and what is      *)
(* active, and the installed trust they were verified under.  It takes the *)
(* cache lock, validates them against the activation state, checks the     *)
(* cached files and the trust, and saves the next state.                   *)
(*                                                                         *)
(* Callers run at the same time.  The state changes under the lock only,   *)
(* but the acknowledgement validates against a state it read before it     *)
(* took the lock.  Another program may change the cached files and the     *)
(* installed trust at any time.  A revalidation of the trust is one step   *)
(* (see InstalledTrust), and so is the save of the state (see StateSlots). *)
(***************************************************************************)
EXTENDS GenerationContracts

CONSTANTS
  Caller,        \* calls that may run at the same time
  Capability,    \* [g, lineage]: a generation with its lineage
  Operation,     \* operation identifiers
  Root,          \* installed trust: [policy, keyring, checkpoint]
  Cached,        \* manifests of the committed generations
  Target,        \* the target of this computer
  Start,         \* activation states that the calls may find
  MaxSaves,      \* bound on the states that are saved
  MaxMeddling    \* bound on what another program and the system do

\* A lineage is a sequence.
ASSUME CapabilityAssumption == \A c \in Capability : c.lineage \in Seq(Range(c.lineage))
ASSUME CallerAssumption == Absent \notin Caller

IdOf(g) == Identity(g.d, g.m)
Ids     == {IdOf(c.g) : c \in Capability}
Register == INSTANCE ActivationState
              WITH Id <- Ids, SeqNo <- [i \in Ids |-> i.seq], Op <- Operation, None <- Absent

-----------------------------------------------------------------------------
\* The manifests that follow, document by document, from an installed checkpoint:
\* the least set that has the checkpoints' and whatever names one of its own as
\* its predecessor.
Manifests   == {c.g.m : c \in Capability}
                 \union UNION {{v.m : v \in Range(c.lineage)} : c \in Capability}
Checkpoints == {r.checkpoint.hash : r \in Root}
Closed(S) == /\ Checkpoints \subseteq S
             /\ \A m \in Manifests : m.previous \in S => m \in S
FromCheckpoint ==
  {m \in Manifests \union Checkpoints :
     \A S \in SUBSET (Manifests \union Checkpoints) : Closed(S) => m \in S}

\* The states that calls may find are a new one, and those that calls have left.
ASSUME StartAssumption ==
  \A s \in Start : /\ s \in Register!State
                   /\ \A i \in Register!Protected(s) : i.hash \in FromCheckpoint

-----------------------------------------------------------------------------
VARIABLES
  state,    \* the activation state
  lock,     \* the caller with the cache lock, or Absent
  root,     \* the trust that is installed
  damaged,  \* cached generations whose files are not the authenticated ones
  calls,    \* [Caller -> the running call]
  saw,      \* (history) [Caller -> the evidence that was good since "decide"]
  meddling, saves

activationVars == <<state, lock, root, damaged, calls, saw, meddling, saves>>

Idle == [pc |-> "idle", kind |-> "begin", cap |-> CHOOSE c \in Capability : TRUE,
         op |-> CHOOSE o \in Operation : TRUE, revision |-> 0]

ActivationInit ==
  /\ state \in Start /\ lock = Absent /\ damaged = {} /\ meddling = 0 /\ saves = 0
  /\ root \in Root
  /\ calls = [c \in Caller |-> Idle] /\ saw = [c \in Caller |-> {}]

-----------------------------------------------------------------------------
\* revalidate_installed_capabilities: one snapshot, the installed one.
TrustHolds(cap) ==
  /\ Len(cap.lineage) <= MaxLineage
  /\ \A i \in DOMAIN cap.lineage : cap.lineage[i].guard = cap.g.guard
  /\ root = cap.g.guard

\* verify_authenticated_inventory of the pinned directory of a committed
\* generation that is the only one with its sequence.
FilesHold(m) == /\ m \in Cached \ damaged
                /\ \A n \in Cached : n.seq = m.seq => n = m

\* validate_authenticated_bootstrap_activation against a state.
Authorized(cap, s) ==
  BootstrapActivationValid(cap.g, [policy |-> cap.g.guard.policy,
                                   identity |-> cap.g.guard.checkpoint],
                           Target, s, cap.lineage)

\* What was good at some instant since the caller decided.
Witnessed(c, s) ==
  s \union {e \in {"trust", "files"} :
              IF e = "trust" THEN TrustHolds(calls[c].cap) ELSE calls[c].cap.g.m \notin damaged}

Decided(c) == calls[c].pc \in {"again", "final", "save"}

rest == <<root, damaged, meddling, saves>>

Proceed(c, l) == /\ calls' = [calls EXCEPT ![c].pc = l]
                 /\ saw' = [saw EXCEPT ![c] = IF Decided(c) THEN Witnessed(c, @) ELSE {}]
Quit(c) == /\ calls' = [calls EXCEPT ![c] = Idle] /\ saw' = [saw EXCEPT ![c] = {}]
           /\ lock' = IF lock = c THEN Absent ELSE lock
           /\ UNCHANGED <<state, rest>>
Holds(c, l) == calls[c].pc = l /\ lock = c

-----------------------------------------------------------------------------
\* A caller comes with the revision it last saw.  To reject or roll back it
\* names a generation only.
Call(c) ==
  /\ calls[c].pc = "idle"
  /\ \E k \in {"begin", "acknowledge", "reject", "rollback"}, cap \in Capability, o \in Operation :
       /\ k \in {"reject", "rollback"} => cap.lineage = <<>>
       /\ calls' = [calls EXCEPT ![c] = [pc |-> IF k = "acknowledge" THEN "load" ELSE "lock",
                                         kind |-> k, cap |-> cap, op |-> o,
                                         revision |-> state.revision]]
  /\ UNCHANGED <<state, lock, saw, rest>>

\* acknowledge_installed_authenticated_activation validates before the lock.
Load(c) ==
  /\ calls[c].pc = "load"
  /\ IF Authorized(calls[c].cap, state) THEN Proceed(c, "lock") /\ UNCHANGED <<state, lock, rest>>
     ELSE Quit(c)

Lock(c) ==
  /\ calls[c].pc = "lock" /\ lock = Absent
  /\ lock' = c
  /\ Proceed(c, CASE calls[c].kind = "reject" -> "match"
                  [] calls[c].kind = "rollback" -> "match"
                  [] OTHER -> "trust")
  /\ UNCHANGED <<state, rest>>

\* The first check of the trust; begin then validates under the lock.
Trust(c) ==
  /\ Holds(c, "trust")
  /\ IF TrustHolds(calls[c].cap) /\ (calls[c].kind = "begin" => Authorized(calls[c].cap, state))
     THEN Proceed(c, "files") /\ UNCHANGED <<state, lock, rest>>
     ELSE Quit(c)

Files(c) ==
  /\ Holds(c, "files")
  /\ IF FilesHold(calls[c].cap.g.m) THEN Proceed(c, "match") /\ UNCHANGED <<state, lock, rest>>
     ELSE Quit(c)

\* What each operation asks of the state it finds under the lock.  A begun
\* activation that is begun again by its operation returns the state as it is.
Matches(k) ==
  LET i == IdOf(k.cap.g) IN
    CASE k.kind = "begin" -> state.pending = Absent
      [] k.kind \in {"acknowledge", "reject"} ->
           state.revision = k.revision /\ Register!CanAcknowledge(state, i, k.op)
      [] k.kind = "rollback" ->
           state.revision = k.revision /\ Register!CanRollback(state, i)

\* begin: the last poll of the caller's cancellation.
Match(c) ==
  /\ Holds(c, "match")
  /\ IF Matches(calls[c])
     THEN /\ calls' = [calls EXCEPT ![c].pc = IF calls[c].kind = "reject" THEN "save" ELSE "again"]
          /\ saw' = [saw EXCEPT ![c] = Witnessed(c, {})]
          /\ UNCHANGED <<state, lock, rest>>
     ELSE Quit(c)

\* (mutant) the files are not verified again.
AgainTrustOnly(c) ==
  /\ Holds(c, "again") /\ Proceed(c, "final") /\ UNCHANGED <<state, lock, rest>>

\* The second verification: the files, and last the trust.  A
\* rollback verifies the files of the last known good generation.
Again(c) ==
  /\ Holds(c, "again")
  /\ IF FilesHold(IF calls[c].kind = "rollback" THEN state.lkg.hash ELSE calls[c].cap.g.m)
     THEN Proceed(c, "final") /\ UNCHANGED <<state, lock, rest>>
     ELSE Quit(c)

Final(c) ==
  /\ Holds(c, "final")
  /\ IF calls[c].kind = "rollback" \/ TrustHolds(calls[c].cap)
     THEN Proceed(c, "save") /\ UNCHANGED <<state, lock, rest>>
     ELSE Quit(c)

Save(c) ==
  /\ Holds(c, "save") /\ saves < MaxSaves /\ saves' = saves + 1
  /\ state' = CASE calls[c].kind = "begin" -> Register!Begin(state, IdOf(calls[c].cap.g), calls[c].op)
                [] calls[c].kind = "acknowledge" -> Register!Acknowledge(state)
                [] calls[c].kind = "reject" -> Register!Reject(state)
                [] calls[c].kind = "rollback" ->
                     IF state.active = state.lkg THEN state ELSE Register!Rollback(state)
  /\ lock' = Absent
  /\ calls' = [calls EXCEPT ![c] = Idle] /\ saw' = [saw EXCEPT ![c] = {}]
  /\ UNCHANGED <<root, damaged, meddling>>

-----------------------------------------------------------------------------
\* Another program installs other trust, or changes or restores cached files;
\* a call is cancelled, fails or dies.
Meddle ==
  /\ meddling < MaxMeddling /\ meddling' = meddling + 1
  /\ \/ root' \in Root \ {root} /\ UNCHANGED damaged
     \/ /\ \E m \in {calls[c].cap.g.m : c \in Caller} \union {i.hash : i \in Register!Protected(state)} :
             damaged' = IF m \in damaged THEN damaged \ {m} ELSE damaged \union {m}
        /\ UNCHANGED root
  /\ saw' = [c \in Caller |-> IF Decided(c) THEN Witnessed(c, saw[c]) ELSE {}]
  /\ UNCHANGED <<state, lock, calls, saves>>

Die(c) == /\ calls[c].pc # "idle" /\ Quit(c)

ActivationNext ==
  \/ \E c \in Caller : \/ Call(c) \/ Load(c) \/ Lock(c) \/ Trust(c) \/ Files(c) \/ Match(c)
                       \/ Again(c) \/ Final(c) \/ Save(c) \/ Die(c)
  \/ Meddle

ActivationSpec == ActivationInit /\ [][ActivationNext]_activationVars

-----------------------------------------------------------------------------
\* Whatever is pending, active or kept for a rollback descends, document by
\* document, from an installed checkpoint: no order of activations, rejections
\* and rollbacks leads to a signed generation of another history.
ActiveDescends ==
  \A i \in Register!Protected(state) : i.hash \in FromCheckpoint

\* When an activation or an acknowledgement is saved, the installed trust and
\* the cached files were the authenticated ones at an instant after the call
\* had seen the state it replaces (for a new activation: after the last poll of
\* its cancellation), and the acknowledgement's lineage, validated against a
\* state it read before it took the lock, is valid for the state it replaces.
SaveJustified ==
  \A c \in Caller : calls[c].pc = "save" =>
    /\ calls[c].kind \in {"begin", "acknowledge"} => saw[c] = {"trust", "files"}
    /\ calls[c].kind = "acknowledge" => Authorized(calls[c].cap, state)
=============================================================================
