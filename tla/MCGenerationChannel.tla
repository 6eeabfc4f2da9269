------------------------ MODULE MCGenerationChannel ------------------------
(***************************************************************************)
(* An instance of the acquisition and of its verifier: the documents that  *)
(* a server may answer with.                                               *)
(***************************************************************************)
EXTENDS GenerationChannel

-----------------------------------------------------------------------------
\* The documents.  One target; a lock of it and a package.
Lock == [target |-> 1, name |-> <<"lock", 1>>]
Other == [target |-> 2, name |-> <<"lock", 1>>]
LockFile == [rank |-> 2, role |-> "userspace-lock", name |-> <<"lock", 1>>, size |-> 1]
Package(name) == [rank |-> 1, role |-> "package", name |-> name, size |-> 2]

Good == [wellFormed |-> TRUE, seq |-> 1, previous |-> Absent, targets |-> <<Lock>>,
         authority |-> "installed", files |-> <<Package(<<"package", 1>>), LockFile>>]
\* Signed, but for another target, or with a payload named as the evidence is.
Elsewhere == [Good EXCEPT !.targets = <<Other>>]
Collides  == [Good EXCEPT !.files = <<Package(EvidenceFile), LockFile>>]
Foreign   == [Good EXCEPT !.authority = "other"]

Line(k) == [keyword |-> "VALIDSIG", primary |-> k, supported |-> TRUE]
Sign(doc, lines) == [over |-> doc, lines |-> lines]
ManifestSigOf(m) == Sign(m, <<Line("primary")>>)
Twice(doc) == Sign(doc, <<Line("primary"), Line("intruder")>>)

Discovery(m) == [wellFormed |-> TRUE, seq |-> 1, tag |-> 1, previous |-> m.previous,
                 targets |-> m.targets, authority |-> m.authority, manifest |-> m,
                 signature |-> ManifestSigOf(m)]
\* Its manifest carries two signatures.
Doubled == [Discovery(Good) EXCEPT !.signature = Twice(Good)]

\* Signed, and not canonical.
Malformed == [Discovery(Good) EXCEPT !.wellFormed = FALSE]

MCManifests == {Good, Elsewhere, Collides, Foreign}
MCDiscoveries == {Discovery(m) : m \in MCManifests} \union {Doubled, Malformed}
MCSignatures ==
  {Sign(d, <<Line(k)>>) : d \in {Discovery(Good), Discovery(Collides), Discovery(Elsewhere), Doubled},
                          k \in {"primary", "intruder"}}
    \union {ManifestSigOf(m) : m \in MCManifests} \union {Twice(Discovery(Good)), Twice(Good)}
    \union {Sign(d, <<Line("primary")>>) : d \in {Discovery(Foreign), Malformed}}
=============================================================================
