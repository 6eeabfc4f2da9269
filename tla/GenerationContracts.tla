------------------------- MODULE GenerationContracts -------------------------
(***************************************************************************)
(* The documents of the core generation channel as values, and the checks  *)
(* of src-tauri/src/core_generation_contracts.rs,                          *)
(* core_generation_verifier.rs, core_generation_bootstrap.rs and           *)
(* core_generation_request_plan.rs on them.  A document that is not        *)
(* canonical, has a duplicate key or breaks a rule on the form of a single *)
(* field has "wellFormed" FALSE; what the checks compare between fields    *)
(* and between documents is modelled.  The hash of a document is the       *)
(* document itself: hashes are taken to be injective.                      *)
(***************************************************************************)
EXTENDS Naturals, Sequences, FiniteSets, SequencesExt, FiniteSetsExt

CONSTANTS Absent,          \* "no predecessor", "nothing"
          MaxBytes,        \* MAX_GENERATION_BYTES
          MaxStorage,      \* MAX_GENERATION_STORAGE_BYTES
          MaxLineage,      \* MAX_LINEAGE_GENERATIONS
          MaxRequests      \* MAX_REQUESTS

\* A file's name, its case folded, is <<kind, number>>.  The control files: the
\* names of the manifest and of its signature carry the sequence.
DiscoveryFile == <<"discovery", 0>>
DiscoverySig  == <<"discovery.sig", 0>>
EvidenceFile  == <<"evidence", 0>>
ManifestFile(n) == <<"manifest", n>>
ManifestSig(n)  == <<"manifest.sig", n>>
Controls(n) == <<DiscoveryFile, DiscoverySig, ManifestFile(n), ManifestSig(n), EvidenceFile>>

-----------------------------------------------------------------------------
\* (mutant) one good signature among several is enough.
StatusHasSignature(lines, primary) ==
  \E i \in DOMAIN lines : lines[i].keyword = "VALIDSIG" /\ lines[i].primary = primary

\* validate_openpgp_status: one VALIDSIG of the expected primary key, and no
\* status that rejects the signature.  A line is [keyword, primary, supported].
ValidSigs(lines) == {i \in DOMAIN lines : lines[i].keyword = "VALIDSIG"}
StatusAccepted(lines, primary) ==
  /\ \A i \in DOMAIN lines : lines[i].keyword \notin {"REJECTED", "MALFORMED"}
  /\ Cardinality(ValidSigs(lines)) = 1
  /\ \A i \in ValidSigs(lines) : lines[i].supported /\ lines[i].primary = primary

\* What parse_canonical and the checks of single fields look at: the document is
\* canonical, and its dates, versions and names have their form.
WellFormed(doc) == doc.wellFormed

\* validate_predecessor: the first generation has none, every other one has.
PredecessorForm(seq, previous) == (seq = 1) <=> (previous = Absent)

\* validate_target_locks: strictly ascending targets, distinct names of locks.
TargetLocksValid(locks) ==
  /\ locks # <<>>
  /\ \A i, j \in DOMAIN locks :
       i < j => locks[i].target < locks[j].target /\ locks[i].name # locks[j].name

TotalSize(files) == FoldSeq(LAMBDA f, n : f.size + n, 0, files)

\* validate_files: ascending by role and name (the "rank" of a file), distinct
\* names whatever their role, a bounded total.
FilesValid(files) ==
  /\ files # <<>>
  /\ \A i, j \in DOMAIN files :
       i < j => files[i].rank < files[j].rank /\ files[i].name # files[j].name
  /\ \A i \in DOMAIN files : files[i].size > 0
  /\ TotalSize(files) <= MaxBytes

\* validate_discovery.
DiscoveryValid(d) ==
  /\ WellFormed(d) /\ d.seq > 0 /\ d.tag = d.seq
  /\ PredecessorForm(d.seq, d.previous)
  /\ TargetLocksValid(d.targets)

\* validate_manifest: every lock of a target is one of the files.
ManifestValid(m) ==
  /\ WellFormed(m) /\ m.seq > 0
  /\ PredecessorForm(m.seq, m.previous)
  /\ TargetLocksValid(m.targets)
  /\ FilesValid(m.files)
  /\ {l.name : l \in Range(m.targets)} = {f.name : f \in {g \in Range(m.files) : g.role = "userspace-lock"}}

\* validate_pair: the discovery names exactly this manifest.
PairValid(d, m) ==
  /\ DiscoveryValid(d) /\ ManifestValid(m)
  /\ \A f \in Range(m.files) : f.name \notin {ManifestFile(d.seq), ManifestSig(d.seq)}
  /\ d.seq = m.seq /\ d.authority = m.authority
  /\ d.previous = m.previous /\ d.targets = m.targets
  /\ d.manifest = m

-----------------------------------------------------------------------------
\* validate_activation.  The state is [hw, active], a durable identity is
\* [seq, hash], and a lineage is a sequence of [d, m].
Identity(d, m) == [seq |-> d.seq, hash |-> m]

\* Where the lineage starts: the checkpoint at first, then what is active.
LineageStart(state, checkpoint) ==
  IF state.hw = 0 THEN checkpoint ELSE state.active

StateConsistent(state) ==
  /\ (state.hw = 0) <=> (state.active = Absent)
  /\ state.active # Absent => state.active.seq \in 1..state.hw

\* The candidate is the checkpoint itself.
AtCheckpoint(state, checkpoint, d) == state.hw = 0 /\ d.seq = checkpoint.seq

\* (mutant) the lineage ascends and ends below the candidate; its hashes are
\* not followed.
LineageOrdered(start, lineage, d) ==
  LET seqs == <<start.seq>> \o [i \in DOMAIN lineage |-> lineage[i].d.seq] \o <<d.seq>>
  IN \A i \in 1..(Len(seqs) - 1) : seqs[i] < seqs[i + 1]

\* Every document names the manifest before it, up to the candidate.
LineageLinked(start, lineage, d) ==
  LET prior == <<start>> \o [i \in DOMAIN lineage |-> Identity(lineage[i].d, lineage[i].m)]
      docs  == [i \in DOMAIN lineage |-> lineage[i].d] \o <<d>>
  IN \A i \in DOMAIN docs :
       /\ docs[i].previous = prior[i].hash
       /\ i < Len(docs) => prior[i].seq < docs[i].seq /\ docs[i].seq < d.seq

ActivationValid(d, m, authority, target, state, lineage, checkpoint) ==
  /\ PairValid(d, m)
  /\ Len(lineage) <= MaxLineage /\ d.authority = authority
  /\ StateConsistent(state) /\ d.seq > state.hw
  /\ IF AtCheckpoint(state, checkpoint, d)
     THEN lineage = <<>> /\ m = checkpoint.hash
     ELSE /\ state.hw = 0 => d.seq > checkpoint.seq
          /\ \A i \in DOMAIN lineage : /\ PairValid(lineage[i].d, lineage[i].m)
                                       /\ lineage[i].d.authority = authority
          /\ LineageLinked(LineageStart(state, checkpoint), lineage, d)
  /\ \E l \in Range(d.targets) : l.target = target

-----------------------------------------------------------------------------
\* validate_authenticated_bootstrap_activation: every capability speaks under
\* the policy and the keyring of the installed checkpoint.  A capability is
\* [d, m, policy, keyring], the checkpoint [policy, identity].
BootstrapActivationValid(g, checkpoint, target, state, lineage) ==
  /\ checkpoint.policy = g.policy
  /\ \A i \in DOMAIN lineage : /\ lineage[i].policy = g.policy
                               /\ lineage[i].keyring = g.keyring
  /\ ActivationValid(g.d, g.m, g.policy, target, state, lineage, checkpoint.identity)

\* validate_evidence_capability and build_request_plan: the plan of the files
\* to fetch, the four documents first.
PlannedPayloads(m) == m.files
PlanValid(d, m, sizes) ==
  /\ PairValid(d, m)
  /\ Len(PlannedPayloads(m)) + 4 <= MaxRequests
  /\ TotalSize(m.files) + sizes <= MaxStorage

\* expected_inventory: names must not collide with a control file.
InventoryCollides(m) == \E f \in Range(m.files) : f.name \in Range(Controls(m.seq))
InventoryNames(m) == Range(Controls(m.seq)) \union {f.name : f \in Range(m.files)}

\* reservation_bytes.
ReservationOf(m, sizes) == sizes + TotalSize(m.files)

\* require_exact_target: exactly one record of the target in either document.
ExactTarget(d, m, target) ==
  \A locks \in {d.targets, m.targets} :
    Cardinality({i \in DOMAIN locks : locks[i].target = target}) = 1
=============================================================================
