------------------------- MODULE MCGenerationHandoff -------------------------
(***************************************************************************)
(* An instance of the handoff to an appliance, of the activation and of    *)
(* the installed trust.  The handoff sees of the activation only which     *)
(* operation is pending, and the activation of the trust only whether it   *)
(* is in force, so each is checked on its own: a behaviour runs one.       *)
(***************************************************************************)
EXTENDS GenerationHandoff, GenerationActivation, InstalledTrust, TLC

CONSTANT Unknown

VARIABLE focus

-----------------------------------------------------------------------------
MCJobs == {[op |-> 1, gen |-> 1], [op |-> 2, gen |-> 1], [op |-> 3, gen |-> 2]}

\* The documents: a history of three generations, and a fourth, signed as well,
\* that follows from a generation nobody has.
Lock1 == [target |-> 1, name |-> <<"lock", 1>>]
LockFile == [rank |-> 2, role |-> "userspace-lock", name |-> <<"lock", 1>>, size |-> 1]
Manifest(n, previous) ==
  [wellFormed |-> TRUE, seq |-> n, previous |-> previous, targets |-> <<Lock1>>,
   authority |-> "installed", files |-> <<LockFile>>]
M1 == Manifest(1, Absent)
M2 == Manifest(2, M1)
M3 == Manifest(3, M2)
M4 == Manifest(4, Unknown)
Id(m) == [seq |-> m.seq, hash |-> m]

Trusted(keyring) == [policy |-> "installed", keyring |-> keyring, checkpoint |-> Id(M1)]
Verified(m) ==
  [d |-> [wellFormed |-> TRUE, seq |-> m.seq, tag |-> m.seq, previous |-> m.previous,
          targets |-> m.targets, authority |-> m.authority, manifest |-> m],
   m |-> m, policy |-> "installed", keyring |-> "one", guard |-> Trusted("one")]
MCCapability == {[g |-> Verified(m), lineage |-> <<>>] : m \in {M1, M2, M3, M4}}
                  \union {[g |-> Verified(M3), lineage |-> <<Verified(M2)>>]}

\* A new cache, and one whose third generation waits for its health check.
Fresh == [revision |-> 0, hw |-> 0, active |-> Absent, pending |-> Absent,
          lkg |-> Absent, op |-> Absent]
Waiting == [revision |-> 5, hw |-> 2, active |-> Id(M2), pending |-> Id(M3),
            lkg |-> Id(M1), op |-> "op"]

MCRoot   == {Trusted("one"), Trusted("two")}
MCCached == {M1, M2, M3, M4}
MCStart  == {Fresh, Waiting}

-----------------------------------------------------------------------------
Init == /\ HandoffInit /\ ActivationInit /\ TrustInit
        /\ pending = [op |-> 1, gen |-> 1] /\ root = Trusted("one")
        /\ focus \in {"handoff", "activation", "trust"}

Next == \/ focus = "handoff" /\ HandoffNext /\ UNCHANGED <<focus, activationVars, trustVars>>
        \/ focus = "activation" /\ ActivationNext
             /\ UNCHANGED <<focus, handoffVars, trustVars>>
        \/ focus = "trust" /\ TrustNext /\ UNCHANGED <<focus, handoffVars, activationVars>>

Callers == Permutations(Caller)

vars == <<focus, handoffVars, activationVars, trustVars>>
Spec == Init /\ [][Next]_vars
=============================================================================
