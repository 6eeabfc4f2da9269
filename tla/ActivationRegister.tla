------------------------- MODULE ActivationRegister -------------------------
(***************************************************************************)
(* What the cache promises about its activation state: it is one register  *)
(* that changes by whole transitions, each from the value it has; a power  *)
(* loss may take it back, but only to a value it had since the last one    *)
(* that is known to be durable, and never to a torn or lost one.           *)
(***************************************************************************)
EXTENDS ActivationState

VARIABLES cur,     \* the state that every caller sees
          recent   \* the states that may be found after a power loss

Init == /\ cur \in {s \in State : Valid(s)}
        /\ recent = {cur}

Transition(s, t) ==
  \/ \E i \in Id : \E o \in Op :
       \/ CanBegin(s, i) /\ t = Begin(s, i, o)
       \/ CanAcknowledge(s, i, o) /\ t \in {Acknowledge(s), Reject(s)}
  \/ \E i \in Id : CanRollback(s, i) /\ s.active # s.lkg /\ t = Rollback(s)

\* A transition becomes visible; it is durable some time later.
Change == /\ Transition(cur, cur')
          /\ recent' = recent \union {cur'}

Settle == /\ cur' = cur
          /\ recent' \subseteq recent /\ cur \in recent'

Lose == /\ cur' \in recent
        /\ recent' = {cur'}

Next == Change \/ Settle \/ Lose

Spec == Init /\ [][Next]_<<cur, recent>>

-----------------------------------------------------------------------------
\* Every state that is seen, or may be found after a power loss, passes the
\* validation of the code, so that none of its operations can lock the cache by
\* saving a state that does not load.
StatesValid == /\ cur \in recent
               /\ \A s \in recent : s \in State /\ Valid(s)

\* Except for a power loss, the high-water mark never falls, and the active
\* generation changes only to one above the mark or to the last known good one.
ForwardOnly ==
  [][ \/ Lose
      \/ /\ cur'.hw >= cur.hw
         /\ cur'.active # cur.active
              => SeqNo[cur'.active] > cur.hw \/ cur'.active = cur.lkg ]_<<cur, recent>>
=============================================================================
