----------------------------- MODULE OutputPair -----------------------------
(***************************************************************************)
(* What the output transaction promises to whoever looks at the output     *)
(* directory: the image appears first and the manifest last, each whole;   *)
(* publication not yet acknowledged may be undone by a power loss, one     *)
(* file at a time and the manifest first; once a run has acknowledged the  *)
(* pair it stays.                                                          *)
(***************************************************************************)
VARIABLES out,    \* "none", "image" (alone) or "pair"
          acked   \* some attempt has returned Complete

Init == out = "none" /\ acked = FALSE

PublishImage    == out = "none"  /\ out' = "image" /\ UNCHANGED acked
PublishManifest == out = "image" /\ out' = "pair"  /\ UNCHANGED acked
Acknowledge     == out = "pair"  /\ acked' = TRUE  /\ UNCHANGED out

\* A power loss before the acknowledgement takes back the last file.
Lose == /\ ~ acked
        /\ \/ out = "pair"  /\ out' = "image"
           \/ out = "image" /\ out' = "none"
        /\ UNCHANGED acked

Next == PublishImage \/ PublishManifest \/ Acknowledge \/ Lose

Spec == Init /\ [][Next]_<<out, acked>>
=============================================================================
