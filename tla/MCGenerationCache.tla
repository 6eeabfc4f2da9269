-------------------------- MODULE MCGenerationCache --------------------------
(***************************************************************************)
(* Small instances of GenerationCache and of StateSlots.  The cache sees   *)
(* the activation state as one register, which StateSlots implements, so   *)
(* each is checked on its own: a behaviour runs one of them.               *)
(*                                                                         *)
(* Of the three generations the last two share a sequence; each caller of  *)
(* the slots has its own operation.  Errors and kills come with changes    *)
(* that become durable in their order, and power losses with every order.  *)
(***************************************************************************)
EXTENDS GenerationCache, StateSlots, TLC

CONSTANTS i1, i2, i3, o1, o2, p1, p2, q1, q2, t1, t2

VARIABLE focus

-----------------------------------------------------------------------------
MCId     == {i1, i2, i3}
MCSeq    == [i \in Id |-> IF i = i1 THEN 1 ELSE 2]
MCOp     == {o1, o2}
MCProc   == {p1, p2}
MCToken  == {t1, t2}
MCKills  == [b \in BOOLEAN |-> IF b THEN 1 ELSE 0]
MCFails  == [b \in BOOLEAN |-> 1]
MCCaller == {q1, q2}
MCOpOf   == [p \in Caller |-> IF p = q1 THEN o1 ELSE o2]

-----------------------------------------------------------------------------
MCInit == /\ Init /\ SlotsInit
          /\ focus \in {"cache", "slots"}
          /\ focus = "cache" => root["legacy"] = None /\ inOrder
          /\ focus = "slots" => ordered

MCNext == \/ focus = "cache" /\ Next /\ UNCHANGED <<focus, slotVars>>
          \/ focus = "slots" /\ SlotsNext /\ UNCHANGED <<focus, vars>>

allVars == <<focus, vars, slotVars>>
MCSpec == MCInit /\ [][MCNext]_allVars

\* Exchanging the operations exchanges their callers; the two generations of
\* one sequence may be exchanged too.
Swap(x, y) == x :> y @@ y :> x
MCSymmetry == Permutations(Proc) \union Permutations(Token)
              \union {Swap(i2, i3), Swap(o1, o2) @@ Swap(q1, q2)}
=============================================================================
