--------------------------- MODULE ActivationState ---------------------------
(***************************************************************************)
(* The state of the core generation cache                                  *)
(* (src-tauri/src/core_generation_cache.rs) as a value: which generation   *)
(* is active, which one waits for its health check, and which one a        *)
(* rollback returns to; and what the four operations on it allow and do.   *)
(***************************************************************************)
EXTENDS Naturals

CONSTANTS Id,    \* identities of generations
          SeqNo,   \* [Id -> the generation's sequence number]
          Op,    \* operation identifiers
          None   \* "no generation", "no operation"

ASSUME IdAssumption == None \notin Id \union Op
ASSUME SeqAssumption == SeqNo \in [Id -> Nat \ {0}]

-----------------------------------------------------------------------------
State == [revision : Nat, hw : Nat, active : Id \union {None},
          pending : Id \union {None}, lkg : Id \union {None},
          op : Op \union {None}]

Default == [revision |-> 0, hw |-> 0, active |-> None, pending |-> None,
            lkg |-> None, op |-> None]

\* The generations that the cache must not lose.
Protected(s) == {s.active, s.pending, s.lkg} \ {None}

\* CoreGenerationCacheState::validate.
Valid(s) ==
  /\ s.lkg # None => s.active # None
  /\ s.hw = 0 <=> s.active = None
  /\ \A i \in {s.active, s.lkg} \ {None} : SeqNo[i] <= s.hw
  /\ s.lkg # None => \/ SeqNo[s.lkg] < SeqNo[s.active]
                     \/ s.lkg = s.active
  /\ s.pending # None <=> s.op # None
  /\ s.pending # None => /\ s.pending \notin {s.active, s.lkg}
                         /\ SeqNo[s.pending] > s.hw

-----------------------------------------------------------------------------
\* begin_activation: repeated by the operation that is pending; otherwise
\* nothing is pending and the sequence is new.
BegunBy(s, i, o) == s.pending = i /\ s.op = o

CanBegin(s, i) ==
  /\ s.pending = None
  /\ s.active # i
  /\ SeqNo[i] > s.hw

Begin(s, i, o) ==
  [s EXCEPT !.revision = @ + 1, !.pending = i, !.op = o]

\* acknowledge_healthy: the pending generation becomes active, the active one
\* becomes the last known good one.
CanAcknowledge(s, i, o) == s.pending = i /\ s.op = o

Acknowledge(s) ==
  [s EXCEPT !.revision = @ + 1,
            !.active = s.pending, !.lkg = s.active,
            !.hw = IF SeqNo[s.pending] > s.hw THEN SeqNo[s.pending] ELSE s.hw,
            !.pending = None, !.op = None]

\* reject_pending.
Reject(s) == [s EXCEPT !.revision = @ + 1, !.pending = None, !.op = None]

\* rollback_to_last_known_good: the high-water mark stays.
CanRollback(s, i) == /\ s.pending = None
                     /\ s.active = i
                     /\ s.lkg # None

Rollback(s) == [s EXCEPT !.revision = @ + 1, !.active = s.lkg]
=============================================================================
