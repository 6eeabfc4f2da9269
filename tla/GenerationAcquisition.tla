------------------------ MODULE GenerationAcquisition ------------------------
(***************************************************************************)
(* The acquisition of an inactive generation                               *)
(* (src-tauri/src/core_generation_acquisition.rs): fetch the discovery,    *)
(* authenticate it, fetch exactly the manifest it names, authenticate      *)
(* that, admit a candidate directory of the planned size, stage the        *)
(* control files and stream the payloads into it, verify the directory     *)
(* from the disk and commit it.                                            *)
(*                                                                         *)
(* The server may answer every request anew, with any document, signature  *)
(* or stream; the caller may cancel at any time; the detached verifier     *)
(* (OwnedChild) may fail; the disk may fill up; and another program may    *)
(* change the candidate directory.  Control files have size 1.             *)
(***************************************************************************)
EXTENDS GenerationContracts

CONSTANTS Discoveries, Manifests,  \* documents the server may send
          Signatures,              \* [over, lines] it may send with them
          Policy,                  \* the installed policy and keyring
          Primary,                 \* the primary key that the policy names
          Target,                  \* the selected target
          MaxIntrusions            \* bound on changes of the candidate directory

\* The files of a manifest are a sequence.
ASSUME ManifestAssumption == \A m \in Manifests : m.files \in Seq(Range(m.files))

VARIABLES
  pc,        \* the place in acquire_inactive_generation
  cancel,    \* what the cancelled closure returns
  got,       \* what was fetched: discovery, its signature, manifest, its signature
  verified,  \* (history) the pairs that the detached verifier accepted
  cand,      \* the candidate directory: "none", "open", "aborted", "committed"
  dir,       \* the files in it: [name -> [size, good]]
  admitted,  \* the reservation: [bytes, nodes]
  todo,      \* the files still to stage
  stream,    \* the payload being streamed: [name, size, total, good]
  result,
  intrusions

acquireVars == <<pc, cancel, got, verified, cand, dir, admitted, todo, stream, result,
                 intrusions>>

Extra   == <<"extra", 0>>
Nothing == [name |-> Absent, size |-> 0, total |-> 0, good |-> TRUE]
ControlBytes == 5

AcquireInit ==
  /\ pc = "discovery" /\ cancel = FALSE
  /\ got = [discovery |-> Absent, discoverySig |-> Absent,
            manifest |-> Absent, manifestSig |-> Absent]
  /\ verified = {} /\ cand = "none" /\ dir = <<>>
  /\ admitted = [bytes |-> 0, nodes |-> 0] /\ todo = <<>> /\ stream = Nothing
  /\ result = "none" /\ intrusions = 0

Fail(r) == pc' = "done" /\ result' = r

\* Before a candidate exists an error just returns.
Refuse(r) == Fail(r) /\ UNCHANGED <<got, verified, cand, dir, admitted, todo, stream>>

-----------------------------------------------------------------------------
\* fetch_bounded and fetch_exact: a transport error, a bound that is exceeded,
\* an empty body, or a document; only the exact manifest and signature pass.
Fetch(at, field, Documents, Exact, to) ==
  /\ pc = at
  /\ \/ cancel /\ Refuse("cancelled")
     \/ ~ cancel /\ \E r \in {"transport", "io", "contract"} : Refuse(r)
     \/ /\ ~ cancel
        /\ \E d \in Documents :
             IF d \in Exact
             THEN /\ got' = [got EXCEPT ![field] = d] /\ pc' = to
                  /\ UNCHANGED <<verified, cand, dir, admitted, todo, stream, result>>
             ELSE Refuse("contract")
  /\ UNCHANGED <<cancel, intrusions>>

FetchDiscovery == Fetch("discovery", "discovery", Discoveries, Discoveries, "discovery.sig")
FetchDiscoverySig ==
  Fetch("discovery.sig", "discoverySig", Signatures, Signatures, "authenticate")
FetchManifest ==
  Fetch("manifest", "manifest", Manifests, {got.discovery.manifest}, "manifest.sig")
FetchManifestSig ==
  Fetch("manifest.sig", "manifestSig", Signatures, {got.discovery.signature},
        "authenticate.manifest")

\* verifier_result: the flag, the external verifier, the flag again, its exit
\* and its status.
Verdict(doc, sig) ==
  IF sig.over = doc /\ StatusAccepted(sig.lines, Primary) THEN "accepted" ELSE "rejected"

\* authenticate_discovery_snapshot and authenticate_manifest_snapshot.
Authenticate(at, doc, sig, Valid, to) ==
  /\ pc = at
  /\ \/ cancel /\ Refuse("cancelled")
     \/ ~ cancel /\ Refuse("authentication")
     \/ /\ ~ cancel
        /\ Verdict(doc, sig) = "accepted" /\ Valid
        /\ verified' = verified \union {doc}
        /\ pc' = to
        /\ UNCHANGED <<got, cand, dir, admitted, todo, stream, result>>
  /\ UNCHANGED <<cancel, intrusions>>

AuthenticateDiscovery ==
  Authenticate("authenticate", got.discovery, got.discoverySig,
               DiscoveryValid(got.discovery) /\ got.discovery.authority = Policy, "manifest")

\* The evidence record that is staged names both documents and signatures.
AuthenticateManifest ==
  Authenticate("authenticate.manifest", got.manifest, got.manifestSig,
               PairValid(got.discovery, got.manifest), "plan")

-----------------------------------------------------------------------------
\* (mutant) the payloads are reserved, the control files are forgotten.
PlanPayloadsOnly ==
  /\ pc = "plan"
  /\ LET d == got.discovery
         m == got.manifest
     IN IF \/ cancel \/ ~ ExactTarget(d, m, Target) \/ ~ PlanValid(d, m, 4)
           \/ InventoryCollides(m) \/ ReservationOf(m, ControlBytes) > MaxStorage
        THEN Refuse(IF cancel THEN "cancelled" ELSE "contract")
        ELSE /\ admitted' = [bytes |-> TotalSize(m.files),
                             nodes |-> Cardinality(InventoryNames(m)) + 2]
             /\ pc' = "admit"
             /\ UNCHANGED <<got, verified, cand, dir, todo, stream, result>>
  /\ UNCHANGED <<cancel, intrusions>>

\* require_exact_target, authenticated_payload_requests, expected_inventory and
\* reservation_bytes.
Plan ==
  /\ pc = "plan"
  /\ LET d == got.discovery
         m == got.manifest
     IN IF \/ cancel \/ ~ ExactTarget(d, m, Target) \/ ~ PlanValid(d, m, 4)
           \/ InventoryCollides(m) \/ ReservationOf(m, ControlBytes) > MaxStorage
        THEN Refuse(IF cancel THEN "cancelled" ELSE "contract")
        ELSE /\ admitted' = [bytes |-> ReservationOf(m, ControlBytes),
                             nodes |-> Cardinality(InventoryNames(m)) + 2]
             /\ pc' = "admit"
             /\ UNCHANGED <<got, verified, cand, dir, todo, stream, result>>
  /\ UNCHANGED <<cancel, intrusions>>

\* create_candidate_admitted: see GenerationCache.
Admit ==
  /\ pc = "admit"
  /\ \/ \E r \in {"nospace", "cache"} : Refuse(r)
     \/ /\ cand' = "open" /\ pc' = "stage"
        /\ todo' = [i \in 1..5 |-> [name |-> Controls(got.manifest.seq)[i], size |-> 1]]
                     \o [i \in DOMAIN got.manifest.files |->
                           [name |-> got.manifest.files[i].name,
                            size |-> got.manifest.files[i].size]]
        /\ UNCHANGED <<got, verified, dir, admitted, stream, result>>
  /\ UNCHANGED <<cancel, intrusions>>

-----------------------------------------------------------------------------
\* abort_with_context: once there is a candidate, an error removes it; an
\* error of the removal is reported with the first one.
Abort(r) ==
  /\ \/ cand' = "aborted" /\ dir' = <<>> /\ Fail(r)
     \/ UNCHANGED <<cand, dir>> /\ Fail("cleanup")
  /\ UNCHANGED <<got, verified, admitted, todo, stream>>

Put(name, f) == dir' = [n \in DOMAIN dir \union {name} |-> IF n = name THEN f ELSE dir[n]]

\* stage_all, write_create_new: create exclusively, write, sync.
StageControl ==
  /\ pc = "stage" /\ Len(todo) > Len(got.manifest.files)
  /\ LET f == Head(todo) IN
     \/ cancel /\ Abort("cancelled")
     \/ ~ cancel /\ \E r \in {"io", "nospace"} : Abort(r)
     \/ /\ ~ cancel /\ f.name \notin DOMAIN dir
        /\ Put(f.name, [size |-> 1, good |-> TRUE])
        /\ todo' = Tail(todo)
        /\ UNCHANGED <<pc, got, verified, cand, admitted, stream, result>>
  /\ UNCHANGED <<cancel, intrusions>>

\* open_authenticated_payload and the creation of the file.
OpenPayload ==
  /\ pc = "stage" /\ todo # <<>> /\ Len(todo) <= Len(got.manifest.files)
  /\ LET f == Head(todo) IN
     \/ cancel /\ Abort("cancelled")
     \/ ~ cancel /\ \E r \in {"transport", "io", "nospace"} : Abort(r)
     \/ /\ ~ cancel /\ f.name \notin DOMAIN dir
        /\ Put(f.name, [size |-> 0, good |-> TRUE])
        /\ stream' = [name |-> f.name, size |-> f.size, total |-> 0, good |-> TRUE]
        /\ pc' = "stream"
        /\ UNCHANGED <<got, verified, cand, admitted, todo, result>>
  /\ UNCHANGED <<cancel, intrusions>>

\* write_stream_exact: one pass of its loop, or its end.
Stream ==
  /\ pc = "stream"
  /\ LET s == stream IN
     \/ cancel /\ Abort("cancelled")
     \/ ~ cancel /\ \E r \in {"io", "nospace"} : Abort(r)
     \/ /\ ~ cancel
        /\ \E n \in 1..2, b \in BOOLEAN :
             IF s.total + n > s.size THEN Abort("contract")
             ELSE /\ stream' = [s EXCEPT !.total = @ + n, !.good = @ /\ b]
                  /\ Put(s.name, [size |-> s.total + n, good |-> s.good /\ b])
                  /\ UNCHANGED <<pc, got, verified, cand, admitted, todo, result>>
     \/ /\ ~ cancel
        /\ IF s.total # s.size \/ ~ s.good THEN Abort("contract")
           ELSE /\ todo' = Tail(todo) /\ stream' = Nothing /\ pc' = "stage"
                /\ UNCHANGED <<got, verified, cand, dir, admitted, result>>
  /\ UNCHANGED <<cancel, intrusions>>

\* The last look at the flag: from here on the acquisition is not cancelled.
LastPoll ==
  /\ pc = "stage" /\ todo = <<>>
  /\ IF cancel THEN Abort("cancelled")
     ELSE pc' = "commit" /\ UNCHANGED <<got, verified, cand, dir, admitted, todo, stream, result>>
  /\ UNCHANGED <<cancel, intrusions>>

-----------------------------------------------------------------------------
\* verify_flat_inventory: what is on the disk is the inventory.
Expected(m) ==
  [n \in InventoryNames(m) |->
     [size |-> IF n \in Range(Controls(m.seq)) THEN 1
               ELSE (CHOOSE f \in Range(m.files) : f.name = n).size,
      good |-> TRUE]]
InventoryVerified == dir = Expected(got.manifest)

\* commit_candidate_admitted: see GenerationCache.  An error leaves the
\* candidate to reconciliation.
Commit ==
  /\ pc = "commit"
  /\ \/ /\ InventoryVerified
        /\ cand' = "committed" /\ Fail("ok")
     \/ /\ \E r \in {"cache", "nospace"} : Fail(r)
        /\ UNCHANGED cand
  /\ UNCHANGED <<cancel, got, verified, dir, admitted, todo, stream, intrusions>>

CancelAcquisition ==
  /\ ~ cancel /\ pc # "done" /\ cancel' = TRUE
  /\ UNCHANGED <<pc, got, verified, cand, dir, admitted, todo, stream, result, intrusions>>

\* Another program adds, removes or rewrites a file of the candidate.
Intrude ==
  /\ cand = "open" /\ intrusions < MaxIntrusions /\ pc # "done"
  /\ intrusions' = intrusions + 1
  /\ \/ Extra \notin DOMAIN dir /\ Put(Extra, [size |-> 0, good |-> FALSE])
     \/ \E n \in DOMAIN dir : \/ dir' = [dir EXCEPT ![n].good = FALSE]
                              \/ dir' = [k \in DOMAIN dir \ {n} |-> dir[k]]
  /\ UNCHANGED <<pc, cancel, got, verified, cand, admitted, todo, stream, result>>

AcquireNext ==
  \/ FetchDiscovery \/ FetchDiscoverySig \/ FetchManifest \/ FetchManifestSig
  \/ AuthenticateDiscovery \/ AuthenticateManifest \/ Plan \/ Admit
  \/ StageControl \/ OpenPayload \/ Stream \/ LastPoll \/ Commit
  \/ CancelAcquisition \/ Intrude

AcquireSpec == AcquireInit /\ [][AcquireNext]_acquireVars

-----------------------------------------------------------------------------
\* What is committed was signed: the installed primary key made exactly one
\* signature over the discovery and over the manifest, both are one pair for
\* the selected target, and the directory holds the files of that manifest,
\* exact to the byte, and no other, whatever the server sent, the verifier
\* rejected or another program put into the candidate.
CommittedIsAuthentic ==
  cand = "committed" =>
    LET d == got.discovery
        m == got.manifest
        Signed(doc, sig) == /\ sig.over = doc
                            /\ \E l \in Range(sig.lines) : l.primary = Primary
                            /\ Cardinality(ValidSigs(sig.lines)) = 1
    IN /\ Signed(d, got.discoverySig) /\ Signed(m, got.manifestSig)
       /\ d.authority = Policy /\ d.manifest = m
       /\ \E l \in Range(m.targets) : l.target = Target
       /\ \A f \in Range(m.files) : f.name \in DOMAIN dir /\ dir[f.name] = [size |-> f.size, good |-> TRUE]
       /\ Cardinality(DOMAIN dir) = Len(m.files) + 5

\* The admitted reservation covers whatever the acquisition writes, also while
\* a stream sends more than the manifest announced.
ReservationCovers ==
  cand = "open" /\ intrusions = 0 =>
    /\ FoldSet(LAMBDA n, t : dir[n].size + t, 0, DOMAIN dir) <= admitted.bytes
    /\ Cardinality(DOMAIN dir) + 2 <= admitted.nodes

\* An acquisition that fails or is cancelled before its commit leaves nothing
\* for the candidate's lease to hold, unless it reports that the removal failed.
FailureLeavesNothing ==
  pc = "done" /\ cand = "open" => result \in {"cleanup", "cache", "nospace"}
=============================================================================
