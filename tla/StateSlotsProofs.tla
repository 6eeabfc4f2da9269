--------------------------- MODULE StateSlotsProofs ---------------------------
(***************************************************************************)
(* The files of the activation state, for every number of callers,         *)
(* generations, saves, errors, kills and power losses: they always load,   *)
(* hold what was reported, and are one register.                           *)
(* So does the register itself: its operations keep its state valid, and   *)
(* never take its high-water mark back.                                    *)
(*                                                                         *)
(* What a power loss leaves is either an initialisation or a migration to  *)
(* one state, in which every file that is there holds that state, or two   *)
(* slots in use, which are equal or consecutive.  A step takes a content   *)
(* of the first kind to another one of it, or, with the removal of the     *)
(* legacy file or with the first save, to one of the second; a save        *)
(* replaces the older slot.                                                *)
(***************************************************************************)
EXTENDS StateSlots, ActivationRegister, TLAPS

\* What a file may hold, and what the root may.
Value == State \union {None}
Content(f) == IF f = "required" THEN BOOLEAN ELSE Value
Roots == {r \in [Entry -> Value \union BOOLEAN] : \A f \in Entry : r[f] \in Content(f)}

TypeOK ==
  /\ inOrder \in BOOLEAN
  /\ root \in files
  /\ \A r \in files : r \in Roots
  /\ at \in {"idle", "load", "created", "undo", "migrated", "decide", "publish", "sync"}
  /\ at # "idle" => /\ holder \in Caller
                    /\ call \in Request
                    /\ call.kind # "load" => call.id \in Id
  /\ next \in [file : Entry, value : Value]
  /\ promised \in State
  /\ slotFails \in Nat /\ slotKills \in Nat

\* An initialisation or a migration to the state s that is not finished: every
\* file that is there holds s.
Fresh(r, s) ==
  /\ Valid(s)
  /\ r["a"] \in {None, s} /\ r["b"] \in {None, s} /\ r["legacy"] \in {None, s}
  /\ r["required"] => r["a"] = s /\ r["b"] = s
  /\ r["legacy"] = None /\ ~ r["required"] => s = Default

\* The slots are in use.
Running(r) ==
  /\ r["legacy"] = None /\ r["required"]
  /\ \A f \in Slot : r[f] # None /\ Valid(r[f])
  /\ Consistent(r)

Good(r) == Running(r) \/ \E s \in State : Fresh(r, s)

\* The state r holds is not older than the one that was reported.
AsPromised(r) ==
  /\ Loaded(r).revision >= promised.revision
  /\ Loaded(r).revision = promised.revision => Loaded(r) = promised
  /\ Loaded(r).hw >= promised.hw

\* Where no change of the operation is under way, nothing can be taken back.
Calm == ~ inOrder /\ at \in {"idle", "load", "decide", "publish"} => files = {root}

Recoverable == SlotsTrusted => /\ Calm
                               /\ \A r \in files : Good(r) /\ AsPromised(r)

\* What the removal of a file that could not be synced goes back to.
Undone == [root EXCEPT ![next.file] = IF next.file = "required" THEN FALSE ELSE None]

Works ==
  /\ at = "created" => /\ next.file # "legacy"
                       /\ Loaded(Undone) = Loaded(root)
                       /\ inOrder => Undone \in files
  /\ at \in {"migrated", "decide", "publish"} =>
       Initialised /\ Present(root) = Slot /\ Consistent(root)
  /\ at = "publish" =>
       /\ next.value # None /\ Valid(next.value)
       /\ next.file = SlotOf(next.value.revision)
       /\ next.value.revision = Loaded(root).revision + 1
       /\ next.value.hw >= Loaded(root).hw
       /\ Register!Transition(Loaded(root), next.value)
  /\ at = "sync" => next.value # None /\ Loaded(root) = next.value

IInv == TypeOK /\ Recoverable /\ Works
-----------------------------------------------------------------------------
(* The slots alternate. *)
LEMMA Alternate ==
  ASSUME NEW n \in Nat
  PROVE  /\ SlotOf(n) \in Slot
         /\ SlotOf(n + 1) = Other(SlotOf(n))
         /\ SlotOf(n + 1) # SlotOf(n)
<1>1. n % 2 = 0 <=> (n + 1) % 2 # 0
  OBVIOUS
<1>2. QED
  BY <1>1 DEF SlotOf, Other, Slot

(* Each change of the activation state leads to a state. *)
LEMMA BeginState ==
  ASSUME NEW s \in State, NEW i \in Id, NEW o \in Op
  PROVE  Begin(s, i, o) \in State /\ Begin(s, i, o).revision = s.revision + 1
<1>1. PICK n \in Nat : n = s.revision + 1
  BY DEF State
<1> DEFINE t == [s EXCEPT !.revision = n, !.pending = i, !.op = o]
<1>2. t \in State /\ t.revision = n
  BY DEF State
<1>3. t = Begin(s, i, o)
  BY <1>1 DEF Begin
<1>4. QED
  BY <1>1, <1>2, <1>3

LEMMA AcknowledgeState ==
  ASSUME NEW s \in State, s.pending \in Id
  PROVE  Acknowledge(s) \in State /\ Acknowledge(s).revision = s.revision + 1
<1>1. PICK n \in Nat : n = s.revision + 1
  BY DEF State
<1>2. PICK h \in Nat : h = IF SeqNo[s.pending] > s.hw THEN SeqNo[s.pending] ELSE s.hw
  BY SeqAssumption DEF State
<1>3. PICK i \in Id, a \in Id \union {None} : i = s.pending /\ a = s.active
  BY DEF State
<1> DEFINE t == [s EXCEPT !.revision = n, !.active = i, !.lkg = a, !.hw = h,
                          !.pending = None, !.op = None]
<1>4. t \in State /\ t.revision = n
  BY DEF State
<1>5. t = Acknowledge(s)
  BY <1>1, <1>2, <1>3 DEF Acknowledge
<1>6. QED
  BY <1>1, <1>4, <1>5

LEMMA RejectState ==
  ASSUME NEW s \in State
  PROVE  Reject(s) \in State /\ Reject(s).revision = s.revision + 1
<1>1. PICK n \in Nat : n = s.revision + 1
  BY DEF State
<1> DEFINE t == [s EXCEPT !.revision = n, !.pending = None, !.op = None]
<1>2. t \in State /\ t.revision = n
  BY DEF State
<1>3. QED
  BY <1>1, <1>2 DEF Reject

LEMMA RollbackState ==
  ASSUME NEW s \in State
  PROVE  Rollback(s) \in State /\ Rollback(s).revision = s.revision + 1
<1>1. PICK n \in Nat : n = s.revision + 1
  BY DEF State
<1>2. PICK a \in Id \union {None} : a = s.lkg
  BY DEF State
<1> DEFINE t == [s EXCEPT !.revision = n, !.active = a]
<1>3. t \in State /\ t.revision = n
  BY DEF State
<1>4. QED
  BY <1>1, <1>2, <1>3 DEF Rollback

(* What the root holds after one of its files has changed. *)
LEMMA RootFunction == \A r \in Roots : r \in [Entry -> Value \union BOOLEAN]
  BY DEF Roots

LEMMA FileChanged ==
  ASSUME NEW r \in Roots, NEW f \in Entry, NEW v \in Content(f)
  PROVE  [r EXCEPT ![f] = v] \in Roots
<1> DEFINE c == [r EXCEPT ![f] = v]
<1>1. r \in [Entry -> Value \union BOOLEAN] /\ \A g \in Entry : r[g] \in Content(g)
  BY DEF Roots
<1>2. v \in Value \union BOOLEAN
  BY DEF Content
<1>3. c \in [Entry -> Value \union BOOLEAN]
  BY <1>1, <1>2
<1>4. \A g \in Entry : c[g] = IF g = f THEN v ELSE r[g]
  BY <1>1
<1> HIDE DEF c
<1>5. c \in Roots
  BY <1>1, <1>3, <1>4 DEF Roots
<1>6. QED
  BY <1>5 DEF c

LEMMA InSlot ==
  ASSUME NEW r \in Roots
  PROVE  /\ \A f \in Slot : r[f] # None => r[f] \in State
         /\ r["legacy"] # None => r["legacy"] \in State
         /\ r["required"] \in BOOLEAN
         /\ Present(r) = Slot <=> r["a"] # None /\ r["b"] # None
  BY DEF Roots, Content, Value, Entry, Slot, Present

LEMMA DefaultState == Default \in State /\ Valid(Default)
  BY DEF Default, State, Valid

LEMMA LoadedState ==
  ASSUME NEW r \in Roots
  PROVE  Loaded(r) \in State
  BY InSlot, DefaultState DEF Loaded, Newest, Slot

(* Both kinds of content load, and hold a valid state. *)
LEMMA GoodLoads ==
  ASSUME NEW r \in Roots, Good(r)
  PROVE  Loadable(r) /\ Valid(Loaded(r))
<1>1. CASE Running(r)
  <2>1. Present(r) = Slot
    BY <1>1, InSlot DEF Running, Slot
  <2>2. QED
    BY <1>1, <2>1 DEF Running, Loadable, Loaded, Newest, Slot
<1>2. ASSUME NEW s \in State, Fresh(r, s)
      PROVE  Loadable(r) /\ Valid(Loaded(r))
  <2>1. s # None
    BY AbsentAssumption
  <2>2. \A f \in Present(r) : r[f] = s
    BY <1>2 DEF Present, Fresh, Slot
  <2>3. r["required"] => Present(r) = Slot /\ Consistent(r)
    BY <1>2, <2>1, InSlot DEF Fresh, Consistent
  <2>4. Loadable(r)
    BY <1>2, <2>2, <2>3 DEF Loadable, Fresh
  <2>5. Valid(Loaded(r))
    BY <1>2, <2>3, DefaultState DEF Loaded, Newest, Fresh
  <2>6. QED
    BY <2>4, <2>5
<1>3. QED
  BY <1>1, <1>2 DEF Good

(* Slots in use hold the newer one's state. *)
LEMMA InUse ==
  ASSUME NEW r \in Roots, r["required"], r["legacy"] = None,
         Present(r) = Slot, Consistent(r)
  PROVE  /\ Loadable(r)
         /\ Loaded(r) = Newest(r)
         /\ Good(r) => Running(r)
<1>1. Loadable(r) /\ Loaded(r) = Newest(r)
  BY DEF Loadable, Loaded
<1>2. ASSUME NEW s \in State, Fresh(r, s) PROVE Running(r)
  BY <1>2, InSlot DEF Fresh, Running, Slot
<1>3. QED
  BY <1>1, <1>2 DEF Good

(* Creating the file that is missing leaves the state as it is. *)
LEMMA CreatesSame ==
  ASSUME root \in Roots, Loadable(root), Present(root) # Slot \/ ~ root["required"],
         NEW v, v = IF Missing = "required" THEN TRUE ELSE Loaded(root),
         NEW r, r = [root EXCEPT ![Missing] = v]
  PROVE  /\ r \in Roots
         /\ Missing \in Slot \union {"required"}
         /\ Loaded(r) = Loaded(root)
         /\ Good(root) => Good(r)
         /\ [r EXCEPT ![Missing] = IF Missing = "required" THEN FALSE ELSE None] = root
<1> DEFINE s == Loaded(root)
<1>1. s \in State /\ s # None /\ None \notin State
  BY LoadedState, AbsentAssumption
<1>2. /\ Missing \in Entry
      /\ Missing \in Slot \union {"required"}
      /\ Missing \in Slot => root[Missing] = None
      /\ Missing = "required" => root["a"] # None /\ root["b"] # None
  BY DEF Missing, Entry, Slot
<1>3. v \in Content(Missing)
  BY <1>1 DEF Content, Value
<1>4. r \in Roots /\ \A g \in Entry : r[g] = IF g = Missing THEN v ELSE root[g]
  <2>1. [root EXCEPT ![Missing] = v] \in Roots
    BY <1>2, <1>3, FileChanged
  <2>2. QED
    BY <2>1, <1>2, RootFunction
<1>5. /\ root["legacy"] = None => ~ root["required"]
      /\ Missing = "required" => ~ root["required"]
      /\ Missing # "required" => Present(root) # Slot
  <2>1. Present(root) = Slot <=> root["a"] # None /\ root["b"] # None
    BY InSlot
  <2>2. Missing # "required" => Present(root) # Slot
    BY <2>1 DEF Missing
  <2>3. Missing = "required" => Present(root) = Slot
    BY <2>1, <1>2
  <2>4. root["legacy"] = None /\ root["required"] => Present(root) = Slot
    BY DEF Loadable
  <2>5. QED
    BY <2>2, <2>3, <2>4
<1>6. r["legacy"] = root["legacy"]
  BY <1>2, <1>4 DEF Entry, Slot
<1>7. root["legacy"] = None => \A f \in Present(root) : root[f] = Default
  BY <1>5 DEF Loadable
<1>8. s = IF root["legacy"] # None THEN root["legacy"] ELSE Default
  BY <1>5 DEF Loaded
<1>9. Loaded(r) = s
  <2>1. CASE Missing = "required"
    <3>1. r["a"] = root["a"] /\ r["b"] = root["b"]
      BY <2>1, <1>4 DEF Entry, Slot
    <3>2. root["legacy"] = None => r["a"] = Default /\ r["b"] = Default
      BY <3>1, <2>1, <1>2, <1>7 DEF Present, Slot
    <3>3. QED
      BY <3>2, <1>6, <1>8 DEF Loaded, Newest
  <2>2. CASE Missing # "required"
    <3>1. r["required"] = root["required"]
      BY <2>2, <1>4 DEF Entry
    <3>2. QED
      BY <3>1, <1>5, <1>6, <1>8 DEF Loaded
  <2>3. QED
    BY <2>1, <2>2
<1>10. ASSUME Good(root) PROVE Good(r)
  <2>1. ~ Running(root)
    BY <1>5 DEF Running
  <2>2. PICK t \in State : Fresh(root, t)
    BY <1>10, <2>1 DEF Good
  <2>3. t = s /\ ~ root["required"]
    BY <2>2, <1>1, <1>5, <1>8, InSlot DEF Fresh
  <2>4. \A f \in Slot : r[f] \in {None, s}
    BY <2>2, <2>3, <1>4 DEF Fresh, Entry, Slot
  <2>5. r["required"] => Missing = "required"
    BY <1>4, <2>3 DEF Entry
  <2>6. r["required"] => r["a"] = s /\ r["b"] = s
    BY <2>5, <1>2, <1>4, <2>4 DEF Entry, Slot
  <2>7. r["legacy"] \in {None, s} /\ (r["legacy"] = None => s = Default)
    BY <1>6, <1>8
  <2>8. Valid(s)
    BY <2>2, <2>3 DEF Fresh
  <2>9. Fresh(r, s)
    BY <2>4, <2>6, <2>7, <2>8 DEF Fresh, Slot
  <2>10. QED
    BY <2>9, <1>1 DEF Good
<1>11. [r EXCEPT ![Missing] = IF Missing = "required" THEN FALSE ELSE None] = root
  <2> DEFINE w == IF Missing = "required" THEN FALSE ELSE None
  <2>1. root[Missing] = w
    <3>1. CASE Missing = "required"
      <4>1. root["required"] = FALSE
        BY <3>1, <1>5, InSlot
      <4>2. QED
        BY <4>1, <3>1
    <3>2. CASE Missing # "required"
      BY <3>2, <1>2
    <3>3. QED
      BY <3>1, <3>2
  <2>2. root \in [Entry -> Value \union BOOLEAN]
    BY DEF Roots
  <2> HIDE DEF w
  <2>3. [r EXCEPT ![Missing] = w] = root
    BY <2>1, <2>2, <1>2
  <2>4. QED
    BY <2>3 DEF w
<1>12. QED
  BY <1>2, <1>4, <1>9, <1>10, <1>11

(* The removal of the legacy file, which comes last, leaves the state too. *)
LEMMA MigratesSame ==
  ASSUME root \in Roots, Loadable(root), root["legacy"] # None,
         Present(root) = Slot, root["required"],
         NEW r, r = [root EXCEPT !["legacy"] = None]
  PROVE  /\ r \in Roots
         /\ r["required"] /\ r["legacy"] = None /\ Present(r) = Slot /\ Consistent(r)
         /\ Loaded(r) = Loaded(root)
         /\ Good(root) => Good(r)
<1>1. "legacy" \in Entry /\ None \in Content("legacy")
  BY DEF Content, Value, Entry
<1>2. r \in Roots /\ \A g \in Entry : r[g] = IF g = "legacy" THEN None ELSE root[g]
  <2>1. [root EXCEPT !["legacy"] = None] \in Roots
    BY <1>1, FileChanged
  <2>2. QED
    BY <2>1, <1>1, RootFunction
<1>3. r["legacy"] = None /\ r["required"] /\ r["a"] = root["a"] /\ r["b"] = root["b"]
  BY <1>2 DEF Entry, Slot
<1>4. r["a"] = root["legacy"] /\ r["b"] = root["legacy"]
  BY <1>3 DEF Loadable, Slot
<1>5. Present(r) = Slot /\ Consistent(r)
  BY <1>2, <1>4, InSlot DEF Consistent
<1>6. Loaded(r) = Loaded(root)
  BY <1>3, <1>4, <1>5 DEF Loaded, Newest
<1>7. ASSUME Good(root) PROVE Good(r)
  <2>1. Valid(root["legacy"])
    BY <1>7, GoodLoads DEF Loaded
  <2>2. Running(r)
    BY <1>3, <1>4, <1>5, <2>1 DEF Running, Slot
  <2>3. QED
    BY <2>2 DEF Good
<1>8. QED
  BY <1>2, <1>3, <1>5, <1>6, <1>7

(* A save replaces the older slot by the state that follows the newer one. *)
LEMMA SavesNext ==
  ASSUME root \in Roots, root["required"], root["legacy"] = None,
         Present(root) = Slot, Consistent(root),
         NEW t \in State, Valid(t), t.revision = Loaded(root).revision + 1,
         t.hw >= Loaded(root).hw,
         NEW r, r = [root EXCEPT ![SlotOf(t.revision)] = t]
  PROVE  /\ r \in Roots
         /\ r["required"] /\ r["legacy"] = None /\ Present(r) = Slot /\ Consistent(r)
         /\ Loaded(r) = t
         /\ Good(root) => Good(r)
<1> DEFINE s == Newest(root)
           f == SlotOf(t.revision)
<1>1. Loaded(root) = s /\ (Good(root) => Running(root))
  BY InUse
<1>2. root["a"] \in State /\ root["b"] \in State
  BY InSlot DEF Slot
<1>3. /\ root["a"].revision \in Nat /\ root["b"].revision \in Nat
      /\ root["a"].hw \in Nat /\ root["b"].hw \in Nat
      /\ t.revision \in Nat /\ t.hw \in Nat
  BY <1>2 DEF State
<1>4. s.revision \in Nat /\ t.revision = s.revision + 1
  BY <1>1, <1>3 DEF Newest
<1>5. f \in Slot /\ f = Other(SlotOf(s.revision)) /\ f # SlotOf(s.revision)
  BY <1>4, Alternate
<1>6. root[Other(f)] = s
  <2>1. CASE root["a"] = root["b"]
    BY <2>1, <1>5 DEF Newest, Other, Slot
  <2>2. ASSUME NEW g \in Slot, root[g].revision = root[Other(g)].revision + 1,
               SlotOf(root[g].revision) = g
        PROVE  root[Other(f)] = s
    <3>1. s = root[g]
      BY <2>2, <1>3 DEF Newest, Other, Slot
    <3>2. g = SlotOf(s.revision)
      BY <3>1, <2>2
    <3>3. Other(f) = g
      BY <3>2, <1>5 DEF Other, Slot
    <3>4. QED
      BY <3>1, <3>3
  <2>3. QED
    BY <2>1, <2>2 DEF Consistent
<1>7. f \in Entry /\ f # "required" /\ t \in Content(f)
  BY <1>5 DEF Entry, Slot, Content, Value
<1>8. r \in Roots /\ \A g \in Entry : r[g] = IF g = f THEN t ELSE root[g]
  <2>1. [root EXCEPT ![f] = t] \in Roots
    BY <1>7, FileChanged
  <2>2. QED
    BY <2>1, <1>7, RootFunction
<1>9. r[f] = t /\ r[Other(f)] = s /\ r["required"] /\ r["legacy"] = None
  BY <1>5, <1>6, <1>7, <1>8 DEF Entry, Slot, Other
<1>10. s \in State /\ s # None /\ t # None
  BY <1>2, AbsentAssumption DEF Newest
<1>11. Present(r) = Slot
  BY <1>5, <1>8, <1>9, <1>10, InSlot DEF Slot, Other
<1>12. Consistent(r)
  <2>1. t.hw >= s.hw
    BY <1>1
  <2>2. QED
    BY <2>1, <1>4, <1>5, <1>9 DEF Consistent
<1>13. Loaded(r) = t
  <2>1. Loaded(r) = Newest(r)
    BY <1>9, <1>11 DEF Loaded
  <2>2. CASE f = "a"
    BY <2>1, <2>2, <1>4, <1>9 DEF Newest, Other
  <2>3. CASE f = "b"
    BY <2>1, <2>3, <1>4, <1>9 DEF Newest, Other
  <2>4. QED
    BY <2>2, <2>3, <1>5 DEF Slot
<1>14. ASSUME Good(root) PROVE Good(r)
  <2>1. Valid(s)
    BY <1>14, <1>1, GoodLoads
  <2>2. Running(r)
    BY <2>1, <1>5, <1>9, <1>10, <1>12 DEF Running, Slot, Other
  <2>3. QED
    BY <2>2 DEF Good
<1>15. QED
  BY <1>8, <1>9, <1>11, <1>12, <1>13, <1>14

(* What an operation saves is a transition of the register. *)
LEMMA ChangesAre ==
  ASSUME NEW s \in State, holder \in Caller, call \in Request,
         call.kind # "load" => call.id \in Id, NEW t \in Changes(s)
  PROVE  t \in State /\ t.revision = s.revision + 1 /\ Register!Transition(s, t)
<1> DEFINE i == call.id
           o == OpOf[holder]
<1>1. o \in Op
  BY SlotAssumption
<1>2. CASE call.kind \in {"begin", "authenticate"}
  <2>1. CanBegin(s, i) /\ t = Begin(s, i, o)
    BY <1>2 DEF Changes
  <2>2. i \in Id
    BY <1>2
  <2>3. t \in State /\ t.revision = s.revision + 1
    BY <2>1, <2>2, <1>1, BeginState
  <2>4. Register!CanBegin(s, i) /\ t = Register!Begin(s, i, o)
    BY <2>1 DEF CanBegin, Begin, Register!CanBegin, Register!Begin
  <2>5. QED
    BY <2>2, <2>3, <2>4, <1>1 DEF Register!Transition
<1>3. CASE call.kind \in {"acknowledge", "reject"}
  <2>1. CanAcknowledge(s, i, o) /\ t \in {Acknowledge(s), Reject(s)}
    BY <1>3 DEF Changes
  <2>2. i \in Id
    BY <1>3
  <2>3. s.pending \in Id
    BY <2>1, <2>2 DEF CanAcknowledge
  <2>4. t \in State /\ t.revision = s.revision + 1
    BY <2>1, <2>3, AcknowledgeState, RejectState
  <2>5. Register!CanAcknowledge(s, i, o)
    BY <2>1 DEF CanAcknowledge, Register!CanAcknowledge
  <2>6. t \in {Register!Acknowledge(s), Register!Reject(s)}
    BY <2>1 DEF Acknowledge, Reject, Register!Acknowledge, Register!Reject
  <2>7. QED
    BY <2>2, <2>4, <2>5, <2>6, <1>1 DEF Register!Transition
<1>4. CASE call.kind = "rollback"
  <2>1. CanRollback(s, i) /\ s.active # s.lkg /\ t = Rollback(s)
    BY <1>4 DEF Changes
  <2>2. i \in Id
    BY <1>4
  <2>3. t \in State /\ t.revision = s.revision + 1
    BY <2>1, RollbackState
  <2>4. Register!CanRollback(s, i) /\ t = Register!Rollback(s)
    BY <2>1 DEF CanRollback, Rollback, Register!CanRollback, Register!Rollback
  <2>5. QED
    BY <2>1, <2>2, <2>3, <2>4 DEF Register!Transition
<1>5. call.kind \in {"begin", "authenticate", "acknowledge", "reject", "rollback"}
  BY DEF Changes
<1>6. QED
  BY <1>2, <1>3, <1>4, <1>5

-----------------------------------------------------------------------------
(* Trust that is lost is not regained; an error or a kill leaves it only   *)
(* where changes become durable in their order.                            *)
LEMMA TrustFalls ==
  ASSUME TypeOK, inOrder' = inOrder, slotFails' \in Nat, slotKills' \in Nat,
         slotFails' >= slotFails, slotKills' >= slotKills
  PROVE  /\ SlotsTrusted' => SlotsTrusted
         /\ SlotsTrusted' /\ slotFails' + slotKills' > slotFails + slotKills => inOrder
<1>1. slotFails \in Nat /\ slotKills \in Nat
  BY DEF TypeOK
<1> DEFINE a == slotFails'
           b == slotKills'
<1>2. a \in Nat /\ b \in Nat /\ a >= slotFails /\ b >= slotKills
  OBVIOUS
<1> HIDE DEF a, b
<1>3. /\ a + b = 0 => slotFails + slotKills = 0
      /\ a + b > slotFails + slotKills => a + b # 0
  BY <1>1, <1>2
<1>4. QED
  BY <1>3, Zenon DEF SlotsTrusted, a, b

(* The contents that a power loss may leave are earlier ones, or good.     *)
LEMMA StillRecoverable ==
  ASSUME TypeOK, Recoverable, promised' = promised, SlotsTrusted' => SlotsTrusted,
         SlotsTrusted' => Calm',
         SlotsTrusted' => \A r \in files' : r \in files \/ (Good(r) /\ AsPromised(r))
  PROVE  Recoverable'
<1>1. SUFFICES ASSUME SlotsTrusted', NEW r \in files' PROVE Good(r) /\ AsPromised(r)'
  BY DEF Recoverable
<1>2. Good(r) /\ AsPromised(r)
  BY <1>1 DEF Recoverable
<1>3. QED
  BY <1>2 DEF AsPromised

(* A step that changes no file. *)
LEMMA FilesStay ==
  ASSUME TypeOK, Recoverable, UNCHANGED <<rootVars, promised>>,
         slotFails' \in Nat, slotKills' \in Nat,
         slotFails' >= slotFails, slotKills' >= slotKills,
         \/ slotFails' + slotKills' > slotFails + slotKills
         \/ at \in {"idle", "load", "decide", "publish"}
  PROVE  Recoverable' /\ root' \in files' /\ \A r \in files' : r \in Roots
<1>1. inOrder' = inOrder /\ root' = root /\ files' = files /\ promised' = promised
  BY DEF rootVars
<1>2. SlotsTrusted' => SlotsTrusted
  BY <1>1, TrustFalls
<1>3. SlotsTrusted' => Calm'
  BY <1>1, <1>2, TrustFalls DEF Recoverable, Calm
<1>4. Recoverable'
  BY <1>1, <1>2, <1>3, StillRecoverable
<1>5. QED
  BY <1>1, <1>4 DEF TypeOK

(* The root is synced. *)
LEMMA FilesSynced ==
  ASSUME TypeOK, Recoverable, SyncRoot, promised' = promised,
         slotFails' \in Nat, slotKills' \in Nat,
         slotFails' >= slotFails, slotKills' >= slotKills
  PROVE  Recoverable' /\ root' \in files' /\ \A r \in files' : r \in Roots
<1>1. inOrder' = inOrder /\ root' = root /\ files' = {root}
  BY DEF SyncRoot
<1>2. root \in files /\ \A r \in files : r \in Roots
  BY DEF TypeOK
<1>3. SlotsTrusted' => SlotsTrusted
  BY <1>1, TrustFalls
<1>4. Calm'
  BY <1>1 DEF Calm
<1>5. Recoverable'
  BY <1>1, <1>2, <1>3, <1>4, StillRecoverable
<1>6. QED
  BY <1>1, <1>2, <1>5

(* With trust, the change of a file adds one content. *)
LEMMA OneMore ==
  ASSUME Recoverable, SlotsTrusted, NEW f, NEW v, Set(f, v), at \in {"load", "publish"}
  PROVE  files' = files \union {root'}
<1>1. /\ root' = [root EXCEPT ![f] = v]
      /\ files' = files \union IF inOrder THEN {[root EXCEPT ![f] = v]}
                               ELSE {[r EXCEPT ![f] = v] : r \in files}
  BY DEF Set
<1>2. CASE inOrder
  BY <1>1, <1>2
<1>3. CASE ~ inOrder
  <2>1. files = {root}
    BY <1>3 DEF Recoverable, Calm
  <2>2. QED
    BY <2>1, <1>1, <1>3
<1>4. QED
  BY <1>2, <1>3

(* A file of the root changes. *)
LEMMA FileSet ==
  ASSUME TypeOK, Recoverable, NEW f \in Entry, NEW v \in Content(f), Set(f, v),
         UNCHANGED <<promised, slotFails, slotKills>>,
         at \in {"load", "publish"}, at' \notin {"idle", "load", "decide", "publish"},
         Good(root) => Good(root'), AsPromised(root) => AsPromised(root')
  PROVE  Recoverable' /\ root' \in files' /\ \A r \in files' : r \in Roots
<1>1. /\ inOrder' = inOrder /\ root' = [root EXCEPT ![f] = v]
      /\ files' = files \union IF inOrder THEN {[root EXCEPT ![f] = v]}
                               ELSE {[r EXCEPT ![f] = v] : r \in files}
  BY DEF Set
<1>2. root \in files /\ root \in Roots /\ \A r \in files : r \in Roots
  BY DEF TypeOK
<1>3. root' \in files'
  BY <1>1, <1>2
<1>4. \A r \in files' : r \in Roots
  <2>1. \A r \in files : [r EXCEPT ![f] = v] \in Roots
    BY <1>2, FileChanged
  <2>2. QED
    BY <2>1, <1>1, <1>2
<1>5. SlotsTrusted' <=> SlotsTrusted
  BY <1>1 DEF SlotsTrusted
<1>6. Calm'
  BY DEF Calm
<1>7. SlotsTrusted => files' = files \union {root'}
  BY OneMore
<1>8. SlotsTrusted => Good(root') /\ AsPromised(root')
  BY <1>2 DEF Recoverable
<1>9. Recoverable'
  BY <1>5, <1>6, <1>7, <1>8, StillRecoverable
<1>10. QED
  BY <1>3, <1>4, <1>9

(* The operation ends. *)
LEMMA Finished ==
  ASSUME TypeOK, Finish, inOrder' = inOrder, promised' \in State,
         root' \in files' /\ \A r \in files' : r \in Roots, Recoverable',
         slotFails' \in Nat, slotKills' \in Nat
  PROVE  IInv'
<1>1. at' = "idle" /\ next' = NoNext
  BY DEF Finish
<1>2. next' \in [file : Entry, value : Value]
  BY <1>1 DEF NoNext, Entry, Value
<1>3. Works'
  BY <1>1 DEF Works
<1>4. QED
  BY <1>1, <1>2, <1>3 DEF IInv, TypeOK

-----------------------------------------------------------------------------
LEMMA InitIInv == SlotsInit => IInv
<1> SUFFICES ASSUME SlotsInit PROVE IInv
  OBVIOUS
<1>1. PICK s \in {None, Default} \union {t \in State : Valid(t)} :
        root = [f \in Entry |-> CASE f = "legacy" -> s
                                  [] f = "required" -> FALSE
                                  [] OTHER -> None]
  <2>1. \A i \in Id : SeqNo[i] \in Nat
    BY SeqAssumption
  <2>2. [revision : {3}, hw : {SeqNo[i] : i \in Id}, active : Id, pending : {None},
         lkg : {None}, op : {None}] \subseteq State
    BY <2>1 DEF State
  <2>3. QED
    BY <2>2 DEF SlotsInit
<1>2. root["legacy"] = s /\ root["required"] = FALSE /\ root["a"] = None /\ root["b"] = None
  BY <1>1 DEF Entry, Slot
<1>3. s \in Value /\ (s # None => s \in State /\ Valid(s))
  BY <1>1, DefaultState DEF Value
<1>4. root \in Roots
  <2>1. \A f \in Entry : root[f] \in Content(f) /\ root[f] \in Value \union BOOLEAN
    BY <1>2, <1>3 DEF Entry, Slot, Content, Value
  <2>2. root \in [Entry -> Value \union BOOLEAN]
    BY <2>1, <1>1
  <2>3. QED
    BY <2>1, <2>2 DEF Roots
<1>5. files = {root} /\ at = "idle" /\ next = NoNext /\ promised = Loaded(root)
      /\ slotFails = 0 /\ slotKills = 0 /\ inOrder \in BOOLEAN
  BY DEF SlotsInit
<1>6. promised \in State
  BY <1>4, <1>5, LoadedState
<1>7. TypeOK
  <2>1. next \in [file : Entry, value : Value]
    BY <1>5 DEF NoNext, Entry, Value
  <2>2. QED
    BY <2>1, <1>4, <1>5, <1>6 DEF TypeOK
<1>8. Good(root)
  <2> DEFINE t == IF s = None THEN Default ELSE s
  <2>1. t \in State /\ Valid(t)
    BY <1>3, DefaultState
  <2>2. Fresh(root, t)
    BY <2>1, <1>2 DEF Fresh
  <2>3. QED
    BY <2>1, <2>2 DEF Good
<1>9. AsPromised(root)
  BY <1>5, <1>6 DEF AsPromised, State
<1>10. Recoverable
  BY <1>5, <1>8, <1>9 DEF Recoverable, Calm
<1>11. Works
  BY <1>5 DEF Works
<1>12. QED
  BY <1>7, <1>10, <1>11 DEF IInv

LEMMA EnterKeeps == ASSUME IInv, NEW p \in Caller, Enter(p) PROVE IInv'
<1>1. TypeOK /\ Recoverable
  BY DEF IInv
<1>2. at = "idle"
  BY <1>1, SlotAssumption DEF Enter, TypeOK
<1>3. /\ at' = "load" /\ holder' = p /\ call' \in Request /\ next' = next
      /\ call'.kind # "load" => call'.id \in Id
  <2>1. call'.id \in Id \union {None}
    BY DEF Enter, Request
  <2>2. QED
    BY <2>1 DEF Enter
<1>4. UNCHANGED <<rootVars, promised, slotFails, slotKills>>
  BY DEF Enter, slotBudget
<1>5. slotFails' \in Nat /\ slotKills' \in Nat /\ slotFails' >= slotFails
      /\ slotKills' >= slotKills
  BY <1>1, <1>4 DEF TypeOK
<1>6. Recoverable' /\ root' \in files' /\ \A r \in files' : r \in Roots
  BY <1>1, <1>2, <1>4, <1>5, FilesStay
<1>7. TypeOK'
  BY <1>1, <1>3, <1>4, <1>5, <1>6 DEF TypeOK, rootVars
<1>8. Works'
  BY <1>3 DEF Works
<1>9. QED
  BY <1>6, <1>7, <1>8 DEF IInv

LEMMA CreateFileKeeps == ASSUME IInv, CreateFile PROVE IInv'
<1>1. TypeOK /\ Recoverable /\ root \in Roots
  BY DEF IInv, TypeOK
<1> DEFINE f == Missing
           v == IF f = "required" THEN TRUE ELSE Loaded(root)
<1>2. /\ at = "load" /\ at' = "created" /\ Loadable(root)
      /\ Present(root) # Slot \/ ~ root["required"]
      /\ Set(f, v) /\ next' = [file |-> f, value |-> None]
      /\ UNCHANGED <<holder, call, promised, slotFails, slotKills>>
  BY DEF CreateFile, GoOn, slotBudget
<1>3. root' = [root EXCEPT ![f] = v] /\ inOrder' = inOrder
      /\ (inOrder => files' = files \union {root'})
  BY <1>2 DEF Set
<1> HIDE DEF f, v
<1>4. /\ root' \in Roots /\ f \in Slot \union {"required"}
      /\ Loaded(root') = Loaded(root)
      /\ Good(root) => Good(root')
      /\ [root' EXCEPT ![f] = IF f = "required" THEN FALSE ELSE None] = root
  BY <1>1, <1>2, <1>3, CreatesSame DEF f, v
<1>5. f \in Entry /\ f # "legacy" /\ v \in Content(f)
  <2>1. Loaded(root) \in State
    BY <1>1, LoadedState
  <2>2. QED
    BY <2>1, <1>4 DEF v, Entry, Slot, Content, Value
<1>6. AsPromised(root) => AsPromised(root')
  BY <1>4 DEF AsPromised
<1>7. Recoverable' /\ root' \in files' /\ \A r \in files' : r \in Roots
  BY <1>1, <1>2, <1>4, <1>5, <1>6, FileSet
<1>8. TypeOK'
  <2>1. next' \in [file : Entry, value : Value]
    BY <1>2, <1>5 DEF Value
  <2>2. QED
    BY <2>1, <1>1, <1>2, <1>3, <1>7 DEF TypeOK
<1>9. Works'
  <2>1. next'.file = f
    BY <1>2
  <2>2. Undone' = root
    BY <2>1, <1>4 DEF Undone
  <2>3. next'.file # "legacy" /\ Loaded(Undone') = Loaded(root')
    BY <2>1, <2>2, <1>4, <1>5
  <2>4. inOrder' => Undone' \in files'
    BY <2>2, <1>1, <1>3 DEF TypeOK
  <2>5. QED
    BY <2>3, <2>4, <1>2 DEF Works
<1>10. QED
  BY <1>7, <1>8, <1>9 DEF IInv

LEMMA SyncCreatedKeeps == ASSUME IInv, SyncCreated PROVE IInv'
<1>1. TypeOK /\ Recoverable
  BY DEF IInv
<1>2. /\ at = "created" /\ at' = "load" /\ SyncRoot /\ next' = NoNext
      /\ UNCHANGED <<holder, call, promised, slotFails, slotKills>>
  BY DEF SyncCreated, GoOn, slotBudget
<1>3. slotFails' \in Nat /\ slotKills' \in Nat /\ slotFails' >= slotFails
      /\ slotKills' >= slotKills
  BY <1>1, <1>2 DEF TypeOK
<1>4. Recoverable' /\ root' \in files' /\ \A r \in files' : r \in Roots
  BY <1>1, <1>2, <1>3, FilesSynced
<1>5. TypeOK'
  <2>1. next' \in [file : Entry, value : Value]
    BY <1>2 DEF NoNext, Entry, Value
  <2>2. QED
    BY <2>1, <1>1, <1>2, <1>3, <1>4 DEF TypeOK, SyncRoot
<1>6. Works'
  BY <1>2 DEF Works
<1>7. QED
  BY <1>4, <1>5, <1>6 DEF IInv

LEMMA CreateFailsKeeps == ASSUME IInv, CreateFails PROVE IInv'
<1>1. TypeOK /\ Recoverable /\ Works
  BY DEF IInv
<1> DEFINE f == next.file
           v == IF f = "required" THEN FALSE ELSE None
<1>2. /\ at = "created" /\ at' = "undo" /\ slotFails' = slotFails + 1
      /\ Set(f, v) /\ UNCHANGED <<holder, call, next, promised, slotKills>>
  BY DEF CreateFails, GoOn
<1>3. /\ root' = [root EXCEPT ![f] = v] /\ inOrder' = inOrder
      /\ files' = files \union IF inOrder THEN {[root EXCEPT ![f] = v]}
                               ELSE {[r EXCEPT ![f] = v] : r \in files}
  BY <1>2 DEF Set
<1>4. f \in Entry /\ v \in Content(f) /\ root \in files /\ root \in Roots
  BY <1>1 DEF TypeOK, Content, Value
<1>5. root' \in files' /\ \A r \in files' : r \in Roots
  <2>1. \A r \in files : r \in Roots /\ [r EXCEPT ![f] = v] \in Roots
    <3>1. \A r \in files : r \in Roots
      BY <1>1 DEF TypeOK
    <3>2. QED
      BY <3>1, <1>4, FileChanged
  <2>2. QED
    BY <2>1, <1>3, <1>4
<1>6. slotFails \in Nat /\ slotKills \in Nat
  BY <1>1 DEF TypeOK
<1>7. slotFails' \in Nat /\ slotKills' \in Nat /\ slotFails' >= slotFails
      /\ slotKills' >= slotKills /\ slotFails' + slotKills' > slotFails + slotKills
  BY <1>2, <1>6
<1>8. (SlotsTrusted' => SlotsTrusted) /\ (SlotsTrusted' => inOrder)
  BY <1>1, <1>3, <1>7, TrustFalls
<1>9. inOrder => files' = files
  <2>1. inOrder => root' \in files
    BY <1>1, <1>2, <1>3 DEF Works, Undone
  <2>2. QED
    BY <2>1, <1>3
<1>10. Calm'
  BY <1>2 DEF Calm
<1>11. Recoverable'
  BY <1>1, <1>2, <1>8, <1>9, <1>10, StillRecoverable
<1>12. TypeOK'
  BY <1>1, <1>2, <1>3, <1>5, <1>7 DEF TypeOK
<1>13. Works'
  BY <1>2 DEF Works
<1>14. QED
  BY <1>11, <1>12, <1>13 DEF IInv

LEMMA UndoCreateKeeps == ASSUME IInv, UndoCreate PROVE IInv'
<1>1. TypeOK /\ Recoverable
  BY DEF IInv
<1>2. SyncRoot /\ Finish /\ UNCHANGED <<promised, slotFails, slotKills>>
  BY DEF UndoCreate, slotBudget
<1>3. slotFails' \in Nat /\ slotKills' \in Nat /\ slotFails' >= slotFails
      /\ slotKills' >= slotKills /\ promised' \in State /\ inOrder' = inOrder
  BY <1>1, <1>2 DEF TypeOK, SyncRoot
<1>4. Recoverable' /\ root' \in files' /\ \A r \in files' : r \in Roots
  BY <1>1, <1>2, <1>3, FilesSynced
<1>5. QED
  BY <1>1, <1>2, <1>3, <1>4, Finished

LEMMA RemoveLegacyKeeps == ASSUME IInv, RemoveLegacy PROVE IInv'
<1>1. TypeOK /\ Recoverable /\ root \in Roots
  BY DEF IInv, TypeOK
<1>2. /\ at = "load" /\ at' = "migrated" /\ Loadable(root) /\ root["legacy"] # None
      /\ Present(root) = Slot /\ root["required"] /\ Set("legacy", None)
      /\ UNCHANGED <<holder, call, next, promised, slotFails, slotKills>>
  BY DEF RemoveLegacy, GoOn, slotBudget
<1>3. root' = [root EXCEPT !["legacy"] = None] /\ inOrder' = inOrder
  BY <1>2 DEF Set
<1>4. /\ root' \in Roots
      /\ root'["required"] /\ root'["legacy"] = None
      /\ Present(root') = Slot /\ Consistent(root')
      /\ Loaded(root') = Loaded(root)
      /\ Good(root) => Good(root')
  BY <1>1, <1>2, <1>3, MigratesSame
<1>5. "legacy" \in Entry /\ None \in Content("legacy")
  BY DEF Entry, Content, Value
<1>6. AsPromised(root) => AsPromised(root')
  BY <1>4 DEF AsPromised
<1>7. Recoverable' /\ root' \in files' /\ \A r \in files' : r \in Roots
  BY <1>1, <1>2, <1>4, <1>5, <1>6, FileSet
<1>8. TypeOK'
  BY <1>1, <1>2, <1>3, <1>7 DEF TypeOK
<1>9. Works'
  BY <1>2, <1>4 DEF Works, Initialised
<1>10. QED
  BY <1>7, <1>8, <1>9 DEF IInv

LEMMA SyncMigratedKeeps == ASSUME IInv, SyncMigrated PROVE IInv'
<1>1. TypeOK /\ Recoverable /\ Works
  BY DEF IInv
<1>2. /\ at = "migrated" /\ at' = "decide" /\ SyncRoot
      /\ UNCHANGED <<holder, call, next, promised, slotFails, slotKills>>
  BY DEF SyncMigrated, GoOn, slotBudget
<1>3. slotFails' \in Nat /\ slotKills' \in Nat /\ slotFails' >= slotFails
      /\ slotKills' >= slotKills
  BY <1>1, <1>2 DEF TypeOK
<1>4. Recoverable' /\ root' \in files' /\ \A r \in files' : r \in Roots
  BY <1>1, <1>2, <1>3, FilesSynced
<1>5. TypeOK'
  BY <1>1, <1>2, <1>3, <1>4 DEF TypeOK, SyncRoot
<1>6. Works'
  BY <1>1, <1>2 DEF Works, SyncRoot, Initialised
<1>7. QED
  BY <1>4, <1>5, <1>6 DEF IInv

LEMMA LoadKeeps == ASSUME IInv, Load PROVE IInv'
<1>1. TypeOK /\ Recoverable /\ root \in Roots
  BY DEF IInv, TypeOK
<1>2. /\ at = "load" /\ at' = "decide" /\ Loadable(root) /\ Initialised
      /\ UNCHANGED <<rootVars, holder, call, next, promised, slotFails, slotKills>>
  BY DEF Load, GoOn, slotBudget
<1>3. slotFails' \in Nat /\ slotKills' \in Nat /\ slotFails' >= slotFails
      /\ slotKills' >= slotKills /\ root' = root /\ inOrder' = inOrder
  BY <1>1, <1>2 DEF TypeOK, rootVars
<1>4. Recoverable' /\ root' \in files' /\ \A r \in files' : r \in Roots
  BY <1>1, <1>2, <1>3, FilesStay
<1>5. TypeOK'
  BY <1>1, <1>2, <1>3, <1>4 DEF TypeOK
<1>6. Works'
  BY <1>2, <1>3 DEF Works, Initialised, Loadable
<1>7. QED
  BY <1>4, <1>5, <1>6 DEF IInv

LEMMA AnswerKeeps == ASSUME IInv, Answer PROVE IInv'
<1>1. TypeOK /\ Recoverable
  BY DEF IInv
<1>2. at = "decide" /\ Finish /\ UNCHANGED <<rootVars, promised, slotFails, slotKills>>
  BY DEF Answer, Reply, slotBudget
<1>3. slotFails' \in Nat /\ slotKills' \in Nat /\ slotFails' >= slotFails
      /\ slotKills' >= slotKills /\ promised' \in State /\ inOrder' = inOrder
  BY <1>1, <1>2 DEF TypeOK, rootVars
<1>4. Recoverable' /\ root' \in files' /\ \A r \in files' : r \in Roots
  BY <1>1, <1>2, <1>3, FilesStay
<1>5. QED
  BY <1>1, <1>2, <1>3, <1>4, Finished

LEMMA RefuseKeeps == ASSUME IInv, Refuse PROVE IInv'
<1>1. TypeOK /\ Recoverable
  BY DEF IInv
<1>2. /\ at \in {"load", "decide"} /\ Finish
      /\ UNCHANGED <<rootVars, promised, slotFails, slotKills>>
  BY DEF Refuse, slotBudget
<1>3. slotFails' \in Nat /\ slotKills' \in Nat /\ slotFails' >= slotFails
      /\ slotKills' >= slotKills /\ promised' \in State /\ inOrder' = inOrder
  BY <1>1, <1>2 DEF TypeOK, rootVars
<1>4. Recoverable' /\ root' \in files' /\ \A r \in files' : r \in Roots
  BY <1>1, <1>2, <1>3, FilesStay
<1>5. QED
  BY <1>1, <1>2, <1>3, <1>4, Finished

LEMMA StageKeeps == ASSUME IInv, Stage PROVE IInv'
<1>1. TypeOK /\ Recoverable /\ Works /\ root \in Roots
  BY DEF IInv, TypeOK
<1>2. /\ at = "decide" /\ at' = "publish"
      /\ UNCHANGED <<rootVars, holder, call, promised, slotFails, slotKills>>
  BY DEF Stage, GoOn, slotBudget
<1>3. PICK t \in Changes(Loaded(root)) :
        /\ Valid(t) /\ t.hw >= Loaded(root).hw
        /\ next' = [file |-> SlotOf(t.revision), value |-> t]
  BY DEF Stage
<1>4. Loaded(root) \in State
  BY <1>1, LoadedState
<1>5. /\ t \in State /\ t.revision = Loaded(root).revision + 1
      /\ Register!Transition(Loaded(root), t)
  BY <1>1, <1>2, <1>4, ChangesAre DEF TypeOK
<1>6. /\ slotFails' \in Nat /\ slotKills' \in Nat /\ slotFails' >= slotFails
      /\ slotKills' >= slotKills /\ root' = root /\ inOrder' = inOrder
  BY <1>1, <1>2 DEF TypeOK, rootVars
<1>7. Recoverable' /\ root' \in files' /\ \A r \in files' : r \in Roots
  BY <1>1, <1>2, <1>6, FilesStay
<1>8. SlotOf(t.revision) \in Entry
  BY DEF SlotOf, Entry, Slot
<1>9. TypeOK'
  <2>1. next' \in [file : Entry, value : Value]
    BY <1>3, <1>5, <1>8 DEF Value
  <2>2. QED
    BY <2>1, <1>1, <1>2, <1>6, <1>7 DEF TypeOK
<1>10. Works'
  <2>1. Initialised' /\ Present(root') = Slot /\ Consistent(root')
    BY <1>1, <1>2, <1>6 DEF Works, Initialised
  <2>2. next'.value = t /\ next'.file = SlotOf(t.revision) /\ t # None
    BY <1>3, <1>5, AbsentAssumption
  <2>3. QED
    BY <2>1, <2>2, <1>2, <1>3, <1>5, <1>6 DEF Works
<1>11. QED
  BY <1>7, <1>9, <1>10 DEF IInv

LEMMA PublishKeeps == ASSUME IInv, Publish PROVE IInv'
<1>1. TypeOK /\ Recoverable /\ Works /\ root \in Roots
  BY DEF IInv, TypeOK
<1> DEFINE t == next.value
<1>2. /\ at = "publish" /\ at' = "sync" /\ Set(next.file, t)
      /\ UNCHANGED <<holder, call, next, promised, slotFails, slotKills>>
  BY DEF Publish, GoOn, slotBudget
<1>3. /\ root["required"] /\ root["legacy"] = None
      /\ Present(root) = Slot /\ Consistent(root)
      /\ t # None /\ Valid(t) /\ next.file = SlotOf(t.revision)
      /\ t.revision = Loaded(root).revision + 1 /\ t.hw >= Loaded(root).hw
  BY <1>1, <1>2 DEF Works, Initialised
<1>4. t \in State
  BY <1>1, <1>3 DEF TypeOK, Value
<1>5. root' = [root EXCEPT ![SlotOf(t.revision)] = t] /\ inOrder' = inOrder
  BY <1>2, <1>3 DEF Set
<1> HIDE DEF t
<1>6. Loaded(root') = t /\ (Good(root) => Good(root'))
  BY <1>1, <1>3, <1>4, <1>5, SavesNext
<1>7. next.file \in Entry /\ t \in Content(next.file)
  <2>1. next.file \in Slot
    BY <1>3 DEF SlotOf, Slot
  <2>2. QED
    BY <2>1, <1>4 DEF Entry, Slot, Content, Value
<1>8. AsPromised(root) => AsPromised(root')
  <2>1. Loaded(root) \in State /\ promised \in State
    BY <1>1, LoadedState DEF TypeOK
  <2>2. /\ Loaded(root).revision \in Nat /\ promised.revision \in Nat /\ t.revision \in Nat
        /\ Loaded(root).hw \in Nat /\ promised.hw \in Nat /\ t.hw \in Nat
    BY <2>1, <1>4 DEF State
  <2>3. QED
    BY <2>2, <1>3, <1>6 DEF AsPromised
<1>9. Recoverable' /\ root' \in files' /\ \A r \in files' : r \in Roots
  BY <1>1, <1>2, <1>6, <1>7, <1>8, FileSet
<1>10. TypeOK'
  BY <1>1, <1>2, <1>5, <1>9 DEF TypeOK
<1>11. Works'
  BY <1>2, <1>3, <1>6 DEF Works, t
<1>12. QED
  BY <1>9, <1>10, <1>11 DEF IInv

LEMMA SyncPublishedKeeps == ASSUME IInv, SyncPublished PROVE IInv'
<1>1. TypeOK /\ Recoverable /\ Works /\ root \in Roots /\ root \in files
  BY DEF IInv, TypeOK
<1>2. /\ at = "sync" /\ SyncRoot /\ Finish /\ promised' = next.value
      /\ UNCHANGED <<slotFails, slotKills>>
  BY DEF SyncPublished, Reply, slotBudget
<1>3. inOrder' = inOrder /\ root' = root /\ files' = {root}
  BY <1>2 DEF SyncRoot
<1>4. Loaded(root) = next.value /\ Loaded(root) \in State
  BY <1>1, <1>2, LoadedState DEF Works
<1>5. AsPromised(root)'
  BY <1>2, <1>3, <1>4 DEF AsPromised, State
<1>6. Recoverable'
  <2>1. SlotsTrusted' => Good(root)
    BY <1>1, <1>2, <1>3 DEF Recoverable, SlotsTrusted
  <2>2. QED
    BY <2>1, <1>3, <1>5 DEF Recoverable, Calm
<1>7. slotFails' \in Nat /\ slotKills' \in Nat
  BY <1>1, <1>2 DEF TypeOK
<1>8. QED
  BY <1>1, <1>2, <1>3, <1>4, <1>6, <1>7, Finished

LEMMA FailKeeps == ASSUME IInv, SlotsFail PROVE IInv'
<1>1. TypeOK /\ Recoverable
  BY DEF IInv
<1>2. /\ Finish /\ slotFails' = slotFails + 1 /\ UNCHANGED <<promised, slotKills>>
      /\ SyncRoot \/ UNCHANGED rootVars
  BY DEF SlotsFail
<1>3. slotFails \in Nat /\ slotKills \in Nat /\ promised' \in State
  BY <1>1, <1>2 DEF TypeOK
<1>4. slotFails' \in Nat /\ slotKills' \in Nat /\ slotFails' >= slotFails
      /\ slotKills' >= slotKills /\ slotFails' + slotKills' > slotFails + slotKills
  BY <1>2, <1>3
<1>5. inOrder' = inOrder
  BY <1>2 DEF SyncRoot, rootVars
<1>6. Recoverable' /\ root' \in files' /\ \A r \in files' : r \in Roots
  BY <1>1, <1>2, <1>4, FilesStay, FilesSynced
<1>7. QED
  BY <1>1, <1>2, <1>3, <1>4, <1>5, <1>6, Finished

LEMMA KillKeeps == ASSUME IInv, SlotsKill PROVE IInv'
<1>1. TypeOK /\ Recoverable
  BY DEF IInv
<1>2. /\ Finish /\ slotKills' = slotKills + 1
      /\ UNCHANGED <<rootVars, promised, slotFails>>
  BY DEF SlotsKill
<1>3. slotFails \in Nat /\ slotKills \in Nat /\ promised' \in State /\ inOrder' = inOrder
  BY <1>1, <1>2 DEF TypeOK, rootVars
<1>4. slotFails' \in Nat /\ slotKills' \in Nat /\ slotFails' >= slotFails
      /\ slotKills' >= slotKills /\ slotFails' + slotKills' > slotFails + slotKills
  BY <1>2, <1>3
<1>5. Recoverable' /\ root' \in files' /\ \A r \in files' : r \in Roots
  BY <1>1, <1>2, <1>4, FilesStay
<1>6. QED
  BY <1>1, <1>2, <1>3, <1>4, <1>5, Finished

LEMMA PowerLossKeeps == ASSUME IInv, SlotsPowerLoss PROVE IInv'
<1>1. TypeOK /\ Recoverable
  BY DEF IInv
<1>2. /\ root' \in files /\ files' = {root'} /\ inOrder' = inOrder /\ Finish
      /\ UNCHANGED <<promised, slotFails, slotKills>>
  BY DEF SlotsPowerLoss
<1>3. slotFails' \in Nat /\ slotKills' \in Nat /\ promised' \in State
  BY <1>1, <1>2 DEF TypeOK
<1>4. \A r \in files' : r \in Roots /\ r \in files
  BY <1>1, <1>2 DEF TypeOK
<1>5. (SlotsTrusted' => SlotsTrusted) /\ Calm'
  BY <1>2 DEF SlotsTrusted, Calm
<1>6. Recoverable'
  BY <1>1, <1>2, <1>4, <1>5, StillRecoverable
<1>7. QED
  BY <1>1, <1>2, <1>3, <1>4, <1>6, Finished

LEMMA NextKeeps == ASSUME IInv, [SlotsNext]_slotVars PROVE IInv'
<1>1. CASE UNCHANGED slotVars
  BY <1>1 DEF slotVars, rootVars, callVars, slotBudget, IInv, TypeOK, Recoverable, Works,
     Calm, SlotsTrusted, AsPromised, Undone, Initialised
<1>2. QED
  BY <1>1, EnterKeeps, CreateFileKeeps, SyncCreatedKeeps, CreateFailsKeeps, UndoCreateKeeps,
     RemoveLegacyKeeps, SyncMigratedKeeps, LoadKeeps, AnswerKeeps, RefuseKeeps, StageKeeps,
     PublishKeeps, SyncPublishedKeeps, FailKeeps, KillKeeps, PowerLossKeeps
  DEF SlotsNext, SlotsStep

-----------------------------------------------------------------------------
\* The inductive invariant of the slots: what the root may hold after a power
\* loss, and what the operation under way has made of it.
THEOREM SlotsInvariant == SlotsSpec => []IInv
<1>1. SlotsInit => IInv
  BY InitIInv
<1>2. IInv /\ [SlotsNext]_slotVars => IInv'
  BY NextKeeps
<1>3. QED
  BY <1>1, <1>2, PTL DEF SlotsSpec

\* However an operation of load_state_unlocked or save_next_state is cut short,
\* the slots load, and hold what a caller was told or a later state.
THEOREM SlotsAlwaysRecover == SlotsSpec => []SlotsRecover
<1>1. ASSUME IInv PROVE SlotsRecover
  <2>1. SUFFICES ASSUME SlotsTrusted, NEW r \in files \union {root}
                 PROVE  /\ Loadable(r) /\ Valid(Loaded(r))
                        /\ AsPromised(r)
    BY DEF SlotsRecover, NeverLockedOut, ReportedIsDurable, AsPromised
  <2>2. r \in files /\ r \in Roots
    BY <1>1 DEF IInv, TypeOK
  <2>3. Good(r) /\ AsPromised(r)
    BY <1>1, <2>1, <2>2 DEF IInv, Recoverable
  <2>4. QED
    BY <2>2, <2>3, GoodLoads
<1>2. QED
  BY <1>1, SlotsInvariant, PTL

-----------------------------------------------------------------------------
(* What the register's states are. *)
Recent == {Loaded(r) : r \in files}

LEMMA RegisterStays ==
  ASSUME root \in files, Loaded(root') = Loaded(root), files' = files \union {root'}
  PROVE  Recent' = Recent
  BY DEF Recent

LEMMA RegisterSettles ==
  ASSUME root \in files, SyncRoot
  PROVE  Register!Settle
<1>1. root' = root /\ files' = {root}
  BY DEF SyncRoot
<1>2. {Loaded(r) : r \in files'} = {Loaded(root)}
  BY <1>1
<1>3. QED
  BY <1>1, <1>2 DEF Register!Settle

LEMMA RegisterInit == SlotsInit => Register!Init
<1> SUFFICES ASSUME SlotsInit PROVE Register!Init
  OBVIOUS
<1>1. IInv
  BY InitIInv
<1>2. SlotsTrusted /\ files = {root} /\ root \in Roots
  BY <1>1 DEF SlotsInit, SlotsTrusted, IInv, TypeOK
<1>3. Valid(Loaded(root)) /\ Loaded(root) \in State
  BY <1>1, <1>2, GoodLoads, LoadedState DEF IInv, Recoverable
<1>4. Register!State = State
  BY DEF State, Register!State
<1>5. Register!Valid(Loaded(root))
  BY <1>3 DEF Valid, Register!Valid
<1>6. {Loaded(r) : r \in files} = {Loaded(root)}
  BY <1>2
<1>7. QED
  BY <1>3, <1>4, <1>5, <1>6 DEF Register!Init

LEMMA RegisterNext ==
  ASSUME IInv, SlotsTrusted, SlotsTrusted', [SlotsNext]_slotVars
  PROVE  [Register!Next]_<<Loaded(root), {Loaded(r) : r \in files}>>
<1> DEFINE Same == Loaded(root') = Loaded(root) /\ Recent' = Recent
           Goal == Register!Next \/ Same
<1> SUFFICES Goal
  BY DEF Recent
<1>1. /\ TypeOK /\ Recoverable /\ Works /\ root \in Roots /\ root \in files
      /\ \A r \in files : r \in Roots
  BY DEF IInv, TypeOK
<1>2. ASSUME UNCHANGED rootVars PROVE Same
  BY <1>2 DEF rootVars, Recent
<1>3. ASSUME SyncRoot PROVE Goal
  BY <1>1, <1>3, RegisterSettles DEF Register!Next
<1>4. CASE CreateFile
  <2> DEFINE f == Missing
             v == IF f = "required" THEN TRUE ELSE Loaded(root)
  <2>1. /\ at = "load" /\ Loadable(root) /\ Set(f, v)
        /\ Present(root) # Slot \/ ~ root["required"]
    BY <1>4 DEF CreateFile
  <2>2. root' = [root EXCEPT ![f] = v]
    BY <2>1 DEF Set
  <2>3. files' = files \union {root'}
    BY <1>1, <2>1, OneMore
  <2> HIDE DEF f, v
  <2>4. Loaded(root') = Loaded(root)
    BY <1>1, <2>1, <2>2, CreatesSame DEF f, v
  <2>5. QED
    BY <1>1, <2>3, <2>4, RegisterStays
<1>5. CASE RemoveLegacy
  <2>1. /\ at = "load" /\ Loadable(root) /\ root["legacy"] # None
        /\ Present(root) = Slot /\ root["required"] /\ Set("legacy", None)
    BY <1>5 DEF RemoveLegacy
  <2>2. root' = [root EXCEPT !["legacy"] = None]
    BY <2>1 DEF Set
  <2>3. files' = files \union {root'}
    BY <1>1, <2>1, OneMore
  <2>4. Loaded(root') = Loaded(root)
    BY <1>1, <2>1, <2>2, MigratesSame
  <2>5. QED
    BY <1>1, <2>3, <2>4, RegisterStays
<1>6. CASE CreateFails
  <2> DEFINE f == next.file
             v == IF f = "required" THEN FALSE ELSE None
  <2>1. /\ at = "created" /\ Set(f, v) /\ slotFails' = slotFails + 1
        /\ UNCHANGED slotKills
    BY <1>6 DEF CreateFails
  <2>2. /\ root' = Undone /\ inOrder' = inOrder
        /\ inOrder => files' = files \union {root'}
    BY <2>1 DEF Set, Undone
  <2>3. slotFails \in Nat /\ slotKills \in Nat
    BY <1>1 DEF TypeOK
  <2>4. slotFails' \in Nat /\ slotKills' \in Nat /\ slotFails' >= slotFails
        /\ slotKills' >= slotKills /\ slotFails' + slotKills' > slotFails + slotKills
    BY <2>1, <2>3
  <2>5. inOrder
    BY <1>1, <2>2, <2>4, TrustFalls
  <2>6. Loaded(root') = Loaded(root)
    BY <1>1, <2>1, <2>2 DEF Works
  <2>7. QED
    BY <1>1, <2>2, <2>5, <2>6, RegisterStays
<1>7. CASE Publish
  <2> DEFINE t == next.value
  <2>1. at = "publish" /\ Set(next.file, t)
    BY <1>7 DEF Publish
  <2>2. /\ root["required"] /\ root["legacy"] = None
        /\ Present(root) = Slot /\ Consistent(root)
        /\ t # None /\ Valid(t) /\ next.file = SlotOf(t.revision)
        /\ t.revision = Loaded(root).revision + 1 /\ t.hw >= Loaded(root).hw
        /\ Register!Transition(Loaded(root), t)
    BY <1>1, <2>1 DEF Works, Initialised
  <2>3. t \in State
    BY <1>1, <2>2 DEF TypeOK, Value
  <2>4. root' = [root EXCEPT ![SlotOf(t.revision)] = t]
    BY <2>1, <2>2 DEF Set
  <2>5. files' = files \union {root'}
    BY <1>1, <2>1, OneMore
  <2> HIDE DEF t
  <2>6. Loaded(root') = t
    BY <1>1, <2>2, <2>3, <2>4, SavesNext
  <2>7. {Loaded(r) : r \in files'} = {Loaded(r) : r \in files} \union {Loaded(root')}
    BY <2>5
  <2>8. Register!Change
    BY <2>2, <2>6, <2>7 DEF Register!Change
  <2>9. QED
    BY <2>8 DEF Register!Next
<1>8. CASE SlotsPowerLoss
  <2>1. root' \in files /\ files' = {root'}
    BY <1>8 DEF SlotsPowerLoss
  <2>2. {Loaded(r) : r \in files'} = {Loaded(root')}
    BY <2>1
  <2>3. Register!Lose
    BY <2>1, <2>2 DEF Register!Lose
  <2>4. QED
    BY <2>3 DEF Register!Next
<1>9. CASE SyncCreated \/ UndoCreate \/ SyncMigrated \/ SyncPublished
  BY <1>3, <1>9 DEF SyncCreated, UndoCreate, SyncMigrated, SyncPublished
<1>10. CASE SlotsFail
  BY <1>2, <1>3, <1>10 DEF SlotsFail
<1>11. CASE \/ Load \/ Answer \/ Stage \/ Refuse \/ SlotsKill
            \/ \E p \in Caller : Enter(p)
  BY <1>2, <1>11 DEF Load, Answer, Stage, Refuse, SlotsKill, Enter
<1>12. CASE UNCHANGED slotVars
  BY <1>2, <1>12 DEF slotVars
<1>13. QED
  BY <1>4, <1>5, <1>6, <1>7, <1>8, <1>9, <1>10, <1>11, <1>12 DEF SlotsNext, SlotsStep

\* While no call is cut short on a file system that loses the order of changes,
\* the files of the activation state are one register: whole transitions, which
\* a power loss takes back whole.
THEOREM SlotsAreRegister == SlotsSpec /\ []SlotsTrusted => ImplementsRegister
<1>1. SlotsInit => Register!Init
  BY RegisterInit
<1>2. IInv /\ SlotsTrusted /\ SlotsTrusted' /\ [SlotsNext]_slotVars
        => [Register!Next]_<<Loaded(root), {Loaded(r) : r \in files}>>
  BY RegisterNext
<1>3. QED
  BY <1>1, <1>2, SlotsInvariant, PTL DEF SlotsSpec, ImplementsRegister, Register!Spec

-----------------------------------------------------------------------------
(***************************************************************************)
(* The register: the guards of its operations are strong enough for the    *)
(* validation of the state they save.                                      *)
(***************************************************************************)
\* What each operation makes of a valid state is a valid state.
LEMMA BeginValid ==
  ASSUME NEW s \in State, Valid(s), NEW i \in Id, NEW o \in Op, CanBegin(s, i)
  PROVE  Begin(s, i, o) \in State /\ Valid(Begin(s, i, o))
<1>1. PICK n \in Nat : n = s.revision + 1
  BY DEF State
<1> DEFINE t == [s EXCEPT !.revision = n, !.pending = i, !.op = o]
<1>2. t \in State
  BY DEF State
<1>3. /\ t.active = s.active /\ t.lkg = s.lkg /\ t.hw = s.hw
      /\ t.pending = i /\ t.op = o
  BY DEF State
<1>4. Valid(t)
  <2> HIDE DEF t
  <2>1. i # None /\ o # None
    BY IdAssumption
  <2>2. i # s.active /\ i # s.lkg
    BY <2>1, SeqAssumption DEF CanBegin, Valid, State
  <2>3. QED
    BY <1>3, <2>1, <2>2 DEF Valid, CanBegin
<1>5. t = Begin(s, i, o)
  BY <1>1 DEF Begin
<1>6. QED
  BY <1>2, <1>4, <1>5

LEMMA AcknowledgeValid ==
  ASSUME NEW s \in State, Valid(s), NEW i \in Id, NEW o \in Op, CanAcknowledge(s, i, o)
  PROVE  Acknowledge(s) \in State /\ Valid(Acknowledge(s))
<1>1. PICK n \in Nat : n = s.revision + 1
  BY DEF State
<1>2. s.pending = i /\ i # None /\ SeqNo[i] \in Nat /\ SeqNo[i] > s.hw /\ s.hw \in Nat
  BY IdAssumption, SeqAssumption DEF CanAcknowledge, Valid, State
<1>3. PICK a \in Id \union {None} : a = s.active
  BY DEF State
<1> DEFINE t == [s EXCEPT !.revision = n, !.active = i, !.lkg = a,
                          !.hw = SeqNo[i], !.pending = None, !.op = None]
<1>4. t \in State
  BY <1>2 DEF State
<1>5. /\ t.active = i /\ t.lkg = a /\ t.hw = SeqNo[i]
      /\ t.pending = None /\ t.op = None
  BY DEF State
<1>6. Valid(t)
  <2> HIDE DEF t
  <2>1. a # None => SeqNo[a] \in Nat /\ SeqNo[a] < SeqNo[i]
    BY <1>2, <1>3, SeqAssumption DEF Valid
  <2>2. SeqNo[i] # 0
    BY SeqAssumption
  <2>3. QED
    BY <1>2, <1>5, <2>1, <2>2 DEF Valid
<1>7. t = Acknowledge(s)
  BY <1>1, <1>2, <1>3 DEF Acknowledge
<1>8. QED
  BY <1>4, <1>6, <1>7

LEMMA RejectValid ==
  ASSUME NEW s \in State, Valid(s)
  PROVE  Reject(s) \in State /\ Valid(Reject(s))
<1>1. PICK n \in Nat : n = s.revision + 1
  BY DEF State
<1> DEFINE t == [s EXCEPT !.revision = n, !.pending = None, !.op = None]
<1>2. t \in State
  BY DEF State
<1>3. /\ t.active = s.active /\ t.lkg = s.lkg /\ t.hw = s.hw
      /\ t.pending = None /\ t.op = None
  BY DEF State
<1>4. Valid(t)
  <2> HIDE DEF t
  <2> QED
    BY <1>3 DEF Valid
<1>5. QED
  BY <1>1, <1>2, <1>4 DEF Reject

LEMMA RollbackValid ==
  ASSUME NEW s \in State, Valid(s), NEW i \in Id, CanRollback(s, i)
  PROVE  Rollback(s) \in State /\ Valid(Rollback(s))
<1>1. PICK n \in Nat : n = s.revision + 1
  BY DEF State
<1>2. PICK a \in Id \union {None} : a = s.lkg
  BY DEF State
<1> DEFINE t == [s EXCEPT !.revision = n, !.active = a]
<1>3. t \in State
  BY DEF State
<1>4. /\ t.active = a /\ t.lkg = a /\ t.hw = s.hw
      /\ t.pending = None /\ t.op = s.op
  BY <1>2 DEF State, CanRollback
<1>5. Valid(t)
  <2> HIDE DEF t
  <2> QED
    BY <1>2, <1>4 DEF Valid, CanRollback
<1>6. QED
  BY <1>1, <1>2, <1>3, <1>5 DEF Rollback

LEMMA TransitionValid ==
  ASSUME NEW s \in State, Valid(s), NEW t, Transition(s, t)
  PROVE  t \in State /\ Valid(t)
BY BeginValid, AcknowledgeValid, RejectValid, RollbackValid DEF Transition

\* The mark of a transition, and its active generation.
LEMMA TransitionForward ==
  ASSUME NEW s \in State, Valid(s), NEW t, Transition(s, t)
  PROVE  /\ t.hw >= s.hw
         /\ t.active # s.active => SeqNo[t.active] > s.hw \/ t.active = s.lkg
<1>1. ASSUME NEW i \in Id, NEW o \in Op, CanBegin(s, i), t = Begin(s, i, o)
      PROVE  t.hw = s.hw /\ t.active = s.active
  BY <1>1 DEF Begin, State
<1>2. ASSUME NEW i \in Id, NEW o \in Op, CanAcknowledge(s, i, o), t = Acknowledge(s)
      PROVE  t.hw >= s.hw /\ SeqNo[t.active] > s.hw
  BY <1>2, IdAssumption, SeqAssumption, SMTT(30)
     DEF Acknowledge, CanAcknowledge, State, Valid
<1>3. ASSUME t = Reject(s)
      PROVE  t.hw = s.hw /\ t.active = s.active
  BY <1>3 DEF Reject, State
<1>4. ASSUME t = Rollback(s)
      PROVE  t.hw = s.hw /\ t.active = s.lkg
  BY <1>4 DEF Rollback, State
<1>5. s.hw \in Nat
  BY DEF State
<1>6. QED
  BY <1>1, <1>2, <1>3, <1>4, <1>5 DEF Transition

-----------------------------------------------------------------------------
LEMMA StatesStep == StatesValid /\ [Next]_<<cur, recent>> => StatesValid'
<1> SUFFICES ASSUME StatesValid, [Next]_<<cur, recent>>
             PROVE  StatesValid'
  OBVIOUS
<1>1. CASE Change
  <2>1. cur' \in State /\ Valid(cur')
    BY <1>1, TransitionValid DEF Change, StatesValid
  <2>2. QED
    BY <1>1, <2>1 DEF Change, StatesValid
<1>2. CASE Settle
  BY <1>2 DEF Settle, StatesValid
<1>3. CASE Lose
  BY <1>3 DEF Lose, StatesValid
<1>4. CASE UNCHANGED <<cur, recent>>
  BY <1>4 DEF StatesValid
<1>5. QED
  BY <1>1, <1>2, <1>3, <1>4 DEF Next

\* However often the operations of the cache are repeated, interleaved, or
\* taken back by a power loss, the state validates.
THEOREM RegisterValid == Spec => []StatesValid
<1>1. Init => StatesValid
  BY DEF Init, StatesValid
<1>2. QED
  BY <1>1, StatesStep, PTL DEF Spec

\* The high-water mark never falls, and no operation makes an older generation
\* active but the rollback, and that only the last known good one.
THEOREM RegisterForward == Spec => ForwardOnly
<1> DEFINE Forward == \/ Lose
                      \/ /\ cur'.hw >= cur.hw
                         /\ cur'.active # cur.active
                              => SeqNo[cur'.active] > cur.hw \/ cur'.active = cur.lkg
<1>1. StatesValid /\ [Next]_<<cur, recent>> => [Forward]_<<cur, recent>>
  <2> SUFFICES ASSUME StatesValid, Next
               PROVE  Forward \/ UNCHANGED <<cur, recent>>
    OBVIOUS
  <2>1. CASE Change
    <3>1. cur \in State /\ Valid(cur) /\ Transition(cur, cur')
      BY <2>1 DEF Change, StatesValid
    <3>2. QED
      BY <3>1, TransitionForward
  <2>2. CASE Settle
    <3>1. cur.hw \in Nat
      BY DEF StatesValid, State
    <3>2. QED
      BY <2>2, <3>1 DEF Settle
  <2>3. CASE Lose
    BY <2>3
  <2>4. QED
    BY <2>1, <2>2, <2>3 DEF Next
<1>2. QED
  BY <1>1, RegisterValid, PTL DEF Spec, ForwardOnly
=============================================================================
