----------------------- MODULE GenerationHandoffProofs -----------------------
(***************************************************************************)
(* Theorems about InstalledTrust, for any number of changes by another     *)
(* program; about GenerationActivation, for every set of callers,          *)
(* capabilities, trust roots and cached generations; and about             *)
(* GenerationHandoff, for every set of operations and any number of        *)
(* leases, faults and changes by another program.                          *)
(***************************************************************************)
EXTENDS GenerationHandoff, GenerationActivation, InstalledTrust, WellFoundedInduction, TLAPS

---------------------------------------------------------------------------
(* The installed trust.                                                    *)

TrustPcs    == {"idle", "stat", "read", "recheck", "pins", "named", "held",
                "parent", "file", "root", "valid"}
Revalidates == {"parent", "file", "root"}

\* What the variables look like; no identity is newer than the clock.
TrustTypeOK ==
    /\ clock \in Nat /\ rootStamp \in 0..clock
    /\ entry \in [TrustFile -> Inode]
    /\ stamp \in [TrustFile -> [Inode -> 0..clock]]
    /\ genuine \in [TrustFile -> [Inode -> BOOLEAN]]
    /\ step \in TrustPcs /\ at \in 1..3
    /\ pinned \in [root : 0..clock, file : [TrustFile -> [ino : Inode, id : 0..clock]]]
    /\ read \subseteq TrustFile

\* The identity of f is the one that is pinned.
Unchanged(f) == stamp[f][pinned.file[f].ino] = pinned.file[f].id

\* The indices whose files are still to be checked.
Unchecked == IF step \in {"parent", "file"} THEN {i \in 1..3 : i >= at} ELSE {}

TrustIInv ==
    /\ TrustTypeOK
    \* a file is read once, after it is pinned
    /\ step \in {"stat", "read"} => \A i \in 1..3 : i >= at => Order[i] \notin read
    /\ step = "recheck" => \A i \in 1..3 : i > at => Order[i] \notin read
    \* and has the bytes that were read for as long as its identity
    /\ \A f \in read : Unchanged(f) => genuine[f][pinned.file[f].ino]
    /\ step \in {"named", "held", "parent", "file", "root", "valid"} => read = TrustFile
    /\ step = "parent" => at = 1
    \* if the remaining checks were to pass now, all was as pinned when the
    \* revalidation began
    /\ step \in Revalidates /\ RootSame /\ (step = "parent" => ~ extra)
         /\ (\A i \in Unchecked : SameFile(Order[i])) => whole
    /\ step = "valid" => whole

\* The three files, in the order in which they are opened.
LEMMA OrderFacts ==
    /\ DOMAIN Order = 1..3 /\ Len(Order) = 3
    /\ Order[1] = "policy" /\ Order[2] = "keyring" /\ Order[3] = "checkpoint"
    /\ TrustFile = {Order[1], Order[2], Order[3]}
    /\ \A i \in 1..3 : Order[i] \in TrustFile
    /\ \A i, j \in 1..3 : Order[i] = Order[j] => i = j
    /\ \A f \in TrustFile : \E i \in 1..3 : Order[i] = f
<1>1. DOMAIN Order = 1..3 /\ Len(Order) = 3
  BY DEF Order
<1>2. Order[1] = "policy" /\ Order[2] = "keyring" /\ Order[3] = "checkpoint"
  BY DEF Order
<1>3. TrustFile = {Order[1], Order[2], Order[3]}
  BY <1>1 DEF TrustFile
<1> QED
  BY <1>1, <1>2, <1>3

\* The invariant holds before the first call,
LEMMA TrustStart == TrustInit => TrustIInv
<1> SUFFICES ASSUME TrustInit PROVE TrustIInv
  OBVIOUS
<1>1. TrustTypeOK
  BY DEF TrustInit, TrustTypeOK, TrustPcs, Inode
<1> QED
  BY <1>1 DEF TrustInit, TrustIInv, Revalidates

\* A step of a call that leaves the installation and the pins alone.
LEMMA TrustMoves ==
    ASSUME TrustIInv, UNCHANGED <<installation, pinned, read>>, step' \in TrustPcs, at' \in 1..3,
           whole => whole',
           step' # "recheck",
           step' \in {"stat", "read"} => \A i \in 1..3 : i >= at' => Order[i] \notin read,
           step' \in {"named", "held", "parent", "file", "root", "valid"} => read = TrustFile,
           step' \notin {"parent", "file", "root", "valid"}
    PROVE  TrustIInv'
BY DEF TrustIInv, TrustTypeOK, Unchanged, Revalidates, installation

\* and is kept by the steps of "open" other than those that read a file,
LEMMA OpenStep ==
    ASSUME TrustIInv, OpenRoot \/ Recheck \/ Pins \/ Opened \/ Used
    PROVE  TrustIInv'
<1>1. CASE OpenRoot
  BY <1>1 DEF OpenRoot, TrustIInv, TrustTypeOK, TrustPcs, Revalidates, Unchanged, installation
<1>2. CASE Recheck
  <2>1. step = "recheck" /\ UNCHANGED <<installation, pinned, read>> /\ (whole => whole')
    BY <1>2 DEF Recheck, Decline, Step
  <2>2. \/ step' \in {"idle", "pins"} /\ at' = at
        \/ step' = "stat" /\ at < 3 /\ at' = at + 1
    BY <1>2, OrderFacts DEF Recheck, Decline, Step
  <2>3. at' \in 1..3 /\ step' \in TrustPcs
    BY <2>2 DEF TrustIInv, TrustTypeOK, TrustPcs
  <2>4. step' = "stat" => \A i \in 1..3 : i >= at' => Order[i] \notin read
    BY <2>1, <2>2 DEF TrustIInv, TrustTypeOK
  <2> QED
    BY <2>1, <2>2, <2>3, <2>4, TrustMoves
<1>3. CASE Pins
  BY <1>3, TrustMoves DEF Pins, Decline, Step, TrustIInv, TrustTypeOK, TrustPcs
<1>4. CASE Opened
  BY <1>4, TrustMoves DEF Opened, Decline, Step, TrustIInv, TrustTypeOK, TrustPcs
<1>5. CASE Used
  BY <1>5, TrustMoves DEF Used, TrustIInv, TrustTypeOK, TrustPcs
<1> QED
  BY <1>1, <1>2, <1>3, <1>4, <1>5

\* by the identity of a file that is not read yet,
LEMMA StatStep ==
    ASSUME TrustIInv, Stat
    PROVE  TrustIInv'
<1>1. step = "stat" /\ step' = "read" /\ UNCHANGED <<installation, at, read>>
  BY DEF Stat, Step
<1>2. Order[at] \in TrustFile /\ Order[at] \notin read
  BY <1>1, OrderFacts DEF TrustIInv, TrustTypeOK
<1>3. pinned' = [pinned EXCEPT !.file = [@ EXCEPT ![Order[at]] = Current(Order[at])]]
  BY DEF Stat
<1>4. Current(Order[at]) \in [ino : Inode, id : 0..clock]
  BY <1>2 DEF Current, TrustIInv, TrustTypeOK
<1>5. /\ pinned' \in [root : 0..clock, file : [TrustFile -> [ino : Inode, id : 0..clock]]]
      /\ \A f \in TrustFile \ {Order[at]} : pinned'.file[f] = pinned.file[f]
  BY <1>2, <1>3, <1>4 DEF TrustIInv, TrustTypeOK
<1>6. \A f \in read : f \in TrustFile \ {Order[at]}
  BY <1>2 DEF TrustIInv, TrustTypeOK
<1> QED
  BY <1>1, <1>5, <1>6 DEF TrustIInv, TrustTypeOK, TrustPcs, Unchanged, Revalidates, installation

\* by a read, which is of the bytes of the pinned identity,
LEMMA ReadStep ==
    ASSUME TrustIInv, Read
    PROVE  TrustIInv'
<1>1. step = "read" /\ step' = "recheck" /\ UNCHANGED <<installation, at, pinned>>
  BY DEF Read, Step
<1>2. Order[at] \in TrustFile /\ \A i \in 1..3 : i > at => Order[i] # Order[at] /\ Order[i] \notin read
  BY <1>1, OrderFacts DEF TrustIInv, TrustTypeOK
<1>3. \/ read' = read
      \/ read' = read \cup {Order[at]} /\ genuine[Order[at]][pinned.file[Order[at]].ino]
  BY DEF Read
<1> QED
  BY <1>1, <1>2, <1>3 DEF TrustIInv, TrustTypeOK, TrustPcs, Unchanged, Revalidates, installation

\* The revalidation begins: if all its checks passed at this instant, all would
\* be as pinned.
LEMMA RootByPathStep ==
    ASSUME TrustIInv, RootByPath
    PROVE  TrustIInv'
<1>1. /\ step = "held" /\ at' = 1 /\ whole' = Whole /\ UNCHANGED <<installation, pinned, read>>
      /\ (step' = "parent" /\ named) \/ step' = "idle"
  BY DEF RootByPath
<1>2. read = TrustFile
  BY <1>1 DEF TrustIInv
<1>3. ~ extra /\ named /\ (\A i \in 1..3 : SameFile(Order[i])) => Whole
  <2> SUFFICES ASSUME ~ extra, named, \A i \in 1..3 : SameFile(Order[i]), NEW f \in TrustFile
               PROVE  genuine[f][entry[f]]
    BY DEF Whole
  <2>1. SameFile(f)
    BY OrderFacts
  <2> QED
    BY <1>2, <2>1 DEF SameFile, Unchanged, TrustIInv
<1>4. step' = "parent" => Unchecked' = 1..3
  BY <1>1 DEF Unchecked
<1>5. /\ TrustTypeOK' /\ (\A f \in read : Unchanged(f) => genuine[f][pinned.file[f].ino])'
  BY <1>1 DEF TrustIInv, TrustTypeOK, TrustPcs, Unchanged, installation
<1>6. (step \in Revalidates /\ RootSame /\ (step = "parent" => ~ extra)
         /\ (\A i \in Unchecked : SameFile(Order[i])) => whole)'
  BY <1>1, <1>3, <1>4 DEF Revalidates, SameFile, installation
<1> QED
  BY <1>1, <1>2, <1>5, <1>6 DEF TrustIInv

\* A check that passes leaves fewer of them.
LEMMA CheckStep ==
    ASSUME TrustIInv, RootByName \/ CheckFile \/ RootAgain
    PROVE  TrustIInv'
<1>1. /\ step \in Revalidates /\ UNCHANGED <<installation, pinned, read>> /\ (whole => whole')
      /\ read = TrustFile
  BY DEF RootByName, CheckFile, RootAgain, Decline, Step, Revalidates, TrustIInv
<1>2. CASE step' = "idle"
  BY <1>1, <1>2, TrustMoves DEF RootByName, CheckFile, RootAgain, Decline, Step, TrustIInv,
     TrustTypeOK, TrustPcs
<1>3. CASE RootByName /\ step' # "idle"
  <2>1. step = "parent" /\ step' = "file" /\ at' = at /\ ~ extra
    BY <1>3 DEF RootByName, Decline, Step
  <2>2. Unchecked' = Unchecked
    BY <2>1 DEF Unchecked
  <2>3. (step \in Revalidates /\ RootSame /\ (step = "parent" => ~ extra)
           /\ (\A i \in Unchecked : SameFile(Order[i])) => whole)'
    BY <1>1, <2>1, <2>2 DEF TrustIInv, RootSame, SameFile, installation
  <2> QED
    BY <1>1, <2>1, <2>3 DEF TrustIInv, TrustTypeOK, TrustPcs, Unchanged, installation
<1>4. CASE CheckFile /\ step' # "idle"
  <2>1. /\ step = "file" /\ SameFile(Order[at]) /\ at \in 1..3
        /\ \/ step' = "file" /\ at' = at + 1 /\ at < 3
           \/ step' = "root" /\ at' = at /\ at = 3
    BY <1>4, OrderFacts DEF CheckFile, Decline, Step, TrustIInv, TrustTypeOK
  <2>2. Unchecked \subseteq Unchecked' \cup {at}
    BY <2>1 DEF Unchecked
  <2>3. (step \in Revalidates /\ RootSame /\ (step = "parent" => ~ extra)
           /\ (\A i \in Unchecked : SameFile(Order[i])) => whole)'
    <3> SUFFICES ASSUME RootSame', \A i \in Unchecked' : SameFile(Order[i])' PROVE whole'
      OBVIOUS
    <3>1. RootSame /\ \A i \in Unchecked : SameFile(Order[i])
      BY <1>1, <2>1, <2>2 DEF RootSame, SameFile, installation
    <3> QED
      BY <1>1, <2>1, <3>1 DEF TrustIInv
  <2>4. at' \in 1..3
    BY <2>1
  <2> QED
    BY <1>1, <2>1, <2>3, <2>4 DEF TrustIInv, TrustTypeOK, TrustPcs, Unchanged, installation
<1>5. CASE RootAgain /\ step' # "idle"
  <2>1. step = "root" /\ step' = "valid" /\ at' = at /\ RootSame
    BY <1>5 DEF RootAgain, Decline, Step
  <2>2. whole
    BY <1>1, <2>1 DEF TrustIInv, Unchecked
  <2> QED
    BY <1>1, <2>1, <2>2 DEF TrustIInv, TrustTypeOK, TrustPcs, Unchanged, Revalidates, installation
<1> QED
  BY <1>2, <1>3, <1>4, <1>5

\* Another program gives whatever it changes an identity newer than every pin, so
\* that no check that would have failed passes.
LEMMA IntrudeStep ==
    ASSUME TrustIInv, Intrude
    PROVE  TrustIInv'
<1>1. /\ clock \in Nat /\ clock' = clock + 1 /\ (whole => whole')
      /\ UNCHANGED <<step, at, pinned, read>>
  BY DEF Intrude, TrustIInv, TrustTypeOK
<1>2. 0..clock \subseteq 0..clock' /\ clock' \in 0..clock' /\ clock' \notin 0..clock
  BY <1>1
<1>3. CASE \E f \in TrustFile, b \in BOOLEAN :
             /\ genuine' = [genuine EXCEPT ![f][entry[f]] = b]
             /\ stamp' = [stamp EXCEPT ![f][entry[f]] = clock']
             /\ UNCHANGED <<named, atParent, rootStamp, extra, entry>>
  <2>1. PICK f \in TrustFile, b \in BOOLEAN :
             /\ genuine' = [genuine EXCEPT ![f] = [@ EXCEPT ![entry[f]] = b]]
             /\ stamp' = [stamp EXCEPT ![f] = [@ EXCEPT ![entry[f]] = clock']]
             /\ UNCHANGED <<named, atParent, rootStamp, extra, entry>>
    BY <1>3
  <2>2. \A g \in TrustFile, i \in Inode :
          \/ stamp'[g][i] = stamp[g][i] /\ genuine'[g][i] = genuine[g][i]
          \/ g = f /\ i = entry[f] /\ stamp'[g][i] = clock'
    BY <2>1 DEF TrustIInv, TrustTypeOK
  <2>3. /\ stamp' \in [TrustFile -> [Inode -> 0..clock']]
        /\ genuine' \in [TrustFile -> [Inode -> BOOLEAN]]
    BY <1>2, <2>1 DEF TrustIInv, TrustTypeOK
  <2>4. \A g \in TrustFile :
          Unchanged(g)' => /\ Unchanged(g)
                           /\ genuine'[g][pinned.file[g].ino] = genuine[g][pinned.file[g].ino]
    BY <1>1, <1>2, <2>2 DEF TrustIInv, TrustTypeOK, Unchanged
  <2>5. \A g \in TrustFile : SameFile(g)' => SameFile(g)
    BY <1>1, <2>1, <2>4 DEF SameFile, Unchanged
  <2>6. TrustTypeOK'
    BY <1>1, <1>2, <2>1, <2>3 DEF TrustIInv, TrustTypeOK
  <2>7. (\A g \in read : Unchanged(g) => genuine[g][pinned.file[g].ino])'
    BY <1>1, <2>4 DEF TrustIInv, TrustTypeOK
  <2>8. (step \in Revalidates /\ RootSame /\ (step = "parent" => ~ extra)
           /\ (\A i \in Unchecked : SameFile(Order[i])) => whole)'
    BY <1>1, <2>1, <2>5, OrderFacts DEF TrustIInv, RootSame, Unchecked
  <2> QED
    BY <1>1, <2>6, <2>7, <2>8 DEF TrustIInv
<1>4. CASE Touched /\ UNCHANGED <<named, atParent, stamp, genuine>> /\ entry' \in [TrustFile -> Inode]
  <2>1. ~ RootSame'
    BY <1>1, <1>2, <1>4 DEF Touched, RootSame, TrustIInv, TrustTypeOK
  <2>2. TrustTypeOK'
    BY <1>1, <1>2, <1>4 DEF Touched, TrustIInv, TrustTypeOK
  <2> QED
    BY <1>1, <1>4, <2>1, <2>2 DEF TrustIInv, Unchanged
<1>5. CASE UNCHANGED <<rootStamp, extra, entry, stamp, genuine>>
  BY <1>1, <1>2, <1>5 DEF TrustIInv, TrustTypeOK, Unchanged, Unchecked, RootSame, SameFile
<1>6. \A f \in TrustFile, i \in Inode : [entry EXCEPT ![f] = i] \in [TrustFile -> Inode]
  BY DEF TrustIInv, TrustTypeOK
<1>7. entry \in [TrustFile -> Inode]
  BY DEF TrustIInv, TrustTypeOK
<1> QED
  BY <1>3, <1>4, <1>5, <1>6, <1>7 DEF Intrude

\* What is read is what is pinned for as long as the identities are the pinned
\* ones, at every step of open and revalidate.
THEOREM TrustInvariant == TrustSpec => []TrustIInv
<1>1. TrustIInv /\ [TrustNext]_trustVars => TrustIInv'
  <2> SUFFICES ASSUME TrustIInv, [TrustNext]_trustVars PROVE TrustIInv'
    OBVIOUS
  <2>1. CASE UNCHANGED trustVars
    BY <2>1 DEF trustVars, installation, TrustIInv, TrustTypeOK, Unchanged, Unchecked, RootSame, SameFile
  <2> QED
    BY <2>1, OpenStep, StatStep, ReadStep, RootByPathStep, CheckStep, IntrudeStep DEF TrustNext
<1> QED
  BY TrustStart, <1>1, PTL DEF TrustSpec

\* A revalidation that succeeds is as good as an atomic one, whatever another
\* program replaced, rewrote or put back between its steps.
THEOREM RevalidationAtomic == TrustSpec => []RevalidatedAtOnce
<1>1. TrustIInv => RevalidatedAtOnce
  BY DEF TrustIInv, RevalidatedAtOnce
<1> QED
  BY TrustInvariant, <1>1, PTL

---------------------------------------------------------------------------
(* The least closed set of manifests.                                      *)

\* Every nonempty set of positions has a first one.
LEMMA FirstPosition ==
    ASSUME NEW S \in SUBSET Nat, S # {}
    PROVE  \E n \in S : \A k \in S : n <= k
<1>1. PICK n \in S : \A k \in S : ~ (<<k, n>> \in OpToRel(<, Nat))
  BY NatLessThanWellFounded, WFMin
<1>2. \A k \in S : ~ (k < n)
  BY <1>1 DEF OpToRel
<1> QED
  BY <1>2

\* What a lineage that is linked says of each of its documents.
LEMMA LinkedLineage ==
    ASSUME NEW L, L \in Seq(Range(L)), NEW start, NEW d, LineageLinked(start, L, d)
    PROVE  /\ DOMAIN L = 1..Len(L) /\ Len(L) \in Nat
           /\ \A i \in 1..Len(L) :
                L[i].d.previous = IF i = 1 THEN start.hash ELSE L[i - 1].m
           /\ d.previous = IF Len(L) = 0 THEN start.hash ELSE L[Len(L)].m
<1> DEFINE n == Len(L)
           ids == [i \in DOMAIN L |-> Identity(L[i].d, L[i].m)]
           ds  == [i \in DOMAIN L |-> L[i].d]
           prior == <<start>> \o ids
           docs  == ds \o <<d>>
<1>1. n \in Nat /\ DOMAIN L = 1..n
  OBVIOUS
<1>2. ids \in Seq(Range(ids)) /\ Len(ids) = n /\ \A i \in 1..n : ids[i].hash = L[i].m
  BY <1>1 DEF Identity, Range
<1>3. ds \in Seq(Range(ds)) /\ Len(ds) = n /\ \A i \in 1..n : ds[i] = L[i].d
  BY <1>1 DEF Range
<1> HIDE DEF ids, ds
<1>4. prior[1] = start /\ \A i \in 2..(n + 1) : prior[i] = ids[i - 1]
  <2>1. <<start>> \in Seq({start}) /\ Len(<<start>>) = 1 /\ <<start>>[1] = start
    OBVIOUS
  <2> QED
    BY <1>1, <1>2, <2>1
<1>5. DOMAIN docs = 1..(n + 1) /\ docs[n + 1] = d /\ \A i \in 1..n : docs[i] = ds[i]
  <2>1. <<d>> \in Seq({d}) /\ Len(<<d>>) = 1 /\ <<d>>[1] = d
    OBVIOUS
  <2> QED
    BY <1>1, <1>3, <2>1
<1>6. \A i \in DOMAIN docs : docs[i].previous = prior[i].hash
  BY DEF LineageLinked, ids, ds
<1> HIDE DEF prior, docs, n
<1>7. \A i \in 1..n : L[i].d.previous = IF i = 1 THEN start.hash ELSE L[i - 1].m
  <2> SUFFICES ASSUME NEW i \in 1..n
               PROVE  L[i].d.previous = IF i = 1 THEN start.hash ELSE L[i - 1].m
    OBVIOUS
  <2>1. L[i].d.previous = prior[i].hash
    BY <1>1, <1>3, <1>5, <1>6
  <2>2. CASE i = 1
    BY <1>4, <2>1, <2>2
  <2>3. CASE i # 1
    <3>1. i \in 2..(n + 1) /\ i - 1 \in 1..n
      BY <1>1, <2>3
    <3> QED
      BY <1>2, <1>4, <2>1, <2>3, <3>1
  <2> QED
    BY <2>2, <2>3
<1>8. d.previous = IF n = 0 THEN start.hash ELSE L[n].m
  <2>1. n + 1 \in DOMAIN docs /\ d.previous = prior[n + 1].hash
    BY <1>1, <1>5, <1>6
  <2>2. CASE n = 0
    BY <1>4, <2>1, <2>2
  <2>3. CASE n # 0
    <3>1. n + 1 \in 2..(n + 1) /\ (n + 1) - 1 = n /\ n \in 1..n
      BY <1>1, <2>3
    <3> QED
      BY <1>2, <1>4, <2>1, <2>3, <3>1
  <2> QED
    BY <2>2, <2>3
<1> QED
  BY <1>1, <1>7, <1>8 DEF n

\* The candidate of an authorized call descends from an installed checkpoint, if
\* the active generation does: by the first document of the lineage that would
\* not be in a closed set.
LEMMA AuthorizedDescends ==
    ASSUME NEW cap \in Capability, NEW s, Authorized(cap, s), cap.g.guard \in Root,
           \A i \in Register!Protected(s) : i.hash \in FromCheckpoint
    PROVE  cap.g.m \in FromCheckpoint
<1> DEFINE d == cap.g.d
           m == cap.g.m
           L == cap.lineage
           checkpoint == cap.g.guard.checkpoint
           start == LineageStart(s, checkpoint)
           U == Manifests \cup Checkpoints
<1>1. ActivationValid(d, m, cap.g.policy, Target, s, L, checkpoint)
  BY DEF Authorized, BootstrapActivationValid
<1>2. m \in Manifests /\ \A v \in Range(L) : v.m \in Manifests
  BY DEF Manifests
<1>3. checkpoint.hash \in Checkpoints
  BY DEF Checkpoints
<1>4. Checkpoints \subseteq FromCheckpoint
  BY DEF FromCheckpoint, Closed
<1>5. CASE AtCheckpoint(s, checkpoint, d)
  <2>1. m = checkpoint.hash
    BY <1>1, <1>5 DEF ActivationValid
  <2> QED
    BY <1>3, <1>4, <2>1
<1>6. CASE ~ AtCheckpoint(s, checkpoint, d)
  <2>1. /\ LineageLinked(start, L, d) /\ PairValid(d, m) /\ StateConsistent(s)
        /\ \A i \in DOMAIN L : PairValid(L[i].d, L[i].m)
    BY <1>1, <1>6 DEF ActivationValid
  <2>2. start.hash \in FromCheckpoint
    <3>1. CASE s.hw = 0
      BY <1>3, <1>4, <3>1 DEF LineageStart
    <3>2. CASE s.hw # 0
      <4>1. start = s.active /\ s.active \in Register!Protected(s)
        BY <2>1, <3>2 DEF LineageStart, StateConsistent, Register!Protected
      <4> QED
        BY <4>1
    <3> QED
      BY <3>1, <3>2
  <2>3. L \in Seq(Range(L))
    BY CapabilityAssumption
  <2> HIDE DEF start, L, d, m, checkpoint
  <2>4. /\ DOMAIN L = 1..Len(L) /\ Len(L) \in Nat
        /\ \A i \in 1..Len(L) : L[i].d.previous = IF i = 1 THEN start.hash ELSE L[i - 1].m
        /\ d.previous = IF Len(L) = 0 THEN start.hash ELSE L[Len(L)].m
    BY <2>1, <2>3, LinkedLineage
  <2>5. m.previous = d.previous /\ \A i \in DOMAIN L : L[i].m.previous = L[i].d.previous
    BY <2>1 DEF PairValid
  <2>6. \A i \in DOMAIN L : L[i].m \in Manifests
    BY <1>2 DEF Range
  <2>7. ASSUME NEW S \in SUBSET U, Closed(S) PROVE m \in S
    <3>1. start.hash \in S
      BY <2>2, <2>7 DEF FromCheckpoint
    <3>2. \A i \in 1..Len(L) : L[i].m \in S
      <4> DEFINE Bad == {i \in 1..Len(L) : L[i].m \notin S}
      <4>1. SUFFICES ASSUME Bad # {} PROVE FALSE
        OBVIOUS
      <4>2. Bad \in SUBSET Nat
        BY <2>4
      <4>3. PICK i \in Bad : \A k \in Bad : i <= k
        BY <4>1, <4>2, FirstPosition
      <4>4. i \in 1..Len(L) /\ L[i].m \notin S
        BY <4>3
      <4>5. L[i].m.previous \in S
        <5>1. CASE i = 1
          BY <2>4, <2>5, <3>1, <4>4, <5>1
        <5>2. CASE i # 1
          <6>1. i - 1 \in 1..Len(L) /\ i - 1 \notin Bad
            BY <2>4, <4>3, <4>4, <5>2
          <6>2. L[i - 1].m \in S
            BY <6>1
          <6> QED
            BY <2>4, <2>5, <4>4, <5>2, <6>2
        <5> QED
          BY <5>1, <5>2
      <4> QED
        BY <2>4, <2>6, <2>7, <4>4, <4>5 DEF Closed
    <3>3. m.previous \in S
      <4>1. CASE Len(L) = 0
        BY <2>4, <2>5, <3>1, <4>1
      <4>2. CASE Len(L) # 0
        <5>1. Len(L) \in 1..Len(L)
          BY <2>4, <4>2
        <5> QED
          BY <2>4, <2>5, <3>2, <4>2, <5>1
      <4> QED
        BY <4>1, <4>2
    <3> QED
      BY <1>2, <2>7, <3>3 DEF Closed
  <2> QED
    BY <1>2, <2>7 DEF FromCheckpoint, m
<1> QED
  BY <1>5, <1>6

---------------------------------------------------------------------------
(* The activation.                                                         *)

Kinds   == {"begin", "acknowledge", "reject", "rollback"}
Locked  == {"trust", "files", "match", "again", "final", "save"}
CallPcs == {"idle", "load", "lock"} \cup Locked
Calls   == [pc : CallPcs, kind : Kinds, cap : Capability \cup {Idle.cap},
            op : Operation \cup {Idle.op}, revision : Nat]

\* A state as a record: what the operations do to one field leaves the others.
Fields(s) ==
    s \in [revision : Nat, hw : {s.hw}, active : {s.active}, pending : {s.pending},
          lkg : {s.lkg}, op : {s.op}]

ActivationTypeOK ==
    /\ Fields(state)
    /\ lock \in Caller \cup {Absent}
    /\ root \in Root
    /\ calls \in [Caller -> Calls]
    /\ saw \in [Caller -> SUBSET {"trust", "files"}]

\* What holds of a call k when the state is s.
CallOK(k, s) ==
    /\ k.pc # "idle" => k.cap \in Capability /\ k.revision <= s.revision
    \* a new activation was validated under the lock
    /\ k.kind = "begin" /\ k.pc \in {"files", "match", "again", "final", "save"} =>
         Authorized(k.cap, s) /\ k.cap.g.guard \in Root
    \* an acknowledgement before it: what it saw is the state if the revision is
    /\ k.kind = "acknowledge" /\ k.pc \in {"lock"} \cup Locked =>
         (k.revision = s.revision => Authorized(k.cap, s))
    /\ k.kind = "acknowledge" /\ k.pc \in {"again", "final", "save"} => k.revision = s.revision

\* What a call k has seen, e, of the evidence it must verify again.
SawOK(k, e) ==
    k.kind \in {"begin", "acknowledge"} =>
      /\ k.pc \in {"final", "save"} => "files" \in e
      /\ k.pc = "save" => "trust" \in e

ActivationIInv ==
    /\ ActivationTypeOK
    /\ \A c \in Caller : calls[c].pc \in Locked => lock = c
    /\ \A c \in Caller : CallOK(calls[c], state) /\ SawOK(calls[c], saw[c])
    /\ ActiveDescends

\* Calls find a new state, or one that calls have left.
LEMMA ActivationStart == ActivationInit => ActivationIInv
<1> SUFFICES ASSUME ActivationInit PROVE ActivationIInv
  OBVIOUS
<1>1. state \in Register!State /\ ActiveDescends
  BY StartAssumption DEF ActivationInit, ActiveDescends
<1>2. Fields(state)
  BY <1>1 DEF Register!State, Fields
<1>3. Idle \in Calls /\ Idle.pc = "idle" /\ Idle.kind = "begin"
  BY DEF Idle, Calls, CallPcs, Kinds
<1>4. \A c \in Caller : calls[c] = Idle
  BY DEF ActivationInit
<1>5. ActivationTypeOK
  BY <1>2, <1>3 DEF ActivationInit, ActivationTypeOK
<1> HIDE DEF Idle
<1> QED
  BY <1>1, <1>3, <1>4, <1>5 DEF ActivationIInv, CallOK, SawOK, Locked

\* Witnesses are never lost,
LEMMA WitnessGrows ==
    ASSUME NEW c, NEW e \in SUBSET {"trust", "files"}
    PROVE  /\ e \subseteq Witnessed(c, e) /\ Witnessed(c, e) \in SUBSET {"trust", "files"}
           /\ TrustHolds(calls[c].cap) => "trust" \in Witnessed(c, e)
           /\ calls[c].cap.g.m \notin damaged => "files" \in Witnessed(c, e)
BY DEF Witnessed

\* A step of caller c alone, to the call k with the witnesses e.
LEMMA CallerMoves ==
    ASSUME ActivationIInv, NEW c \in Caller, NEW k \in Calls, NEW e \in SUBSET {"trust", "files"},
           calls' = [calls EXCEPT ![c] = k], saw' = [saw EXCEPT ![c] = e],
           UNCHANGED <<state, root>>, lock' \in Caller \cup {Absent},
           \A x \in Caller \ {c} : lock = x => lock' = x,
           k.pc \in Locked => lock' = c,
           CallOK(k, state), SawOK(k, e)
    PROVE  ActivationIInv'
<1>1. ActivationTypeOK'
  BY DEF ActivationIInv, ActivationTypeOK
<1>2. /\ calls'[c] = k /\ saw'[c] = e
      /\ \A x \in Caller \ {c} : calls'[x] = calls[x] /\ saw'[x] = saw[x]
  BY DEF ActivationIInv, ActivationTypeOK
<1>3. \A x \in Caller : calls'[x].pc \in Locked => lock' = x
  BY <1>2 DEF ActivationIInv
<1>4. ASSUME NEW x \in Caller PROVE (CallOK(calls[x], state) /\ SawOK(calls[x], saw[x]))'
  <2>1. CASE x = c
    BY <1>2, <2>1
  <2>2. CASE x # c
    <3>1. CallOK(calls[x], state) /\ SawOK(calls[x], saw[x])
      BY DEF ActivationIInv
    <3> QED
      BY <1>2, <2>2, <3>1
  <2> QED
    BY <2>1, <2>2
<1>5. ActiveDescends'
  BY DEF ActivationIInv, ActiveDescends
<1> QED
  BY <1>1, <1>3, <1>4, <1>5 DEF ActivationIInv

\* A refused, cancelled or dead call leaves the state as it is and frees the lock.
LEMMA QuitStep ==
    ASSUME ActivationIInv, NEW c \in Caller, Quit(c)
    PROVE  ActivationIInv'
<1>1. Idle \in Calls /\ Idle.pc = "idle" /\ Idle.kind = "begin"
  BY DEF Idle, Calls, CallPcs, Kinds
<1>2. /\ calls' = [calls EXCEPT ![c] = Idle] /\ saw' = [saw EXCEPT ![c] = {}]
      /\ lock' = IF lock = c THEN Absent ELSE lock
      /\ UNCHANGED <<state, root>>
  BY DEF Quit, rest
<1> HIDE DEF Idle
<1>3. CallOK(Idle, state) /\ SawOK(Idle, {}) /\ Idle.pc \notin Locked
  BY <1>1 DEF CallOK, SawOK, Locked
<1>4. /\ lock' \in Caller \cup {Absent}
      /\ \A x \in Caller \ {c} : lock = x => lock' = x
  BY <1>2 DEF ActivationIInv, ActivationTypeOK
<1> QED
  BY <1>1, <1>2, <1>3, <1>4, CallerMoves

\* What a call carries is not touched when it proceeds to l.
LEMMA Proceeds ==
    ASSUME ActivationIInv, NEW c \in Caller, NEW l \in CallPcs, Proceed(c, l),
           UNCHANGED <<state, root>>, lock' \in Caller \cup {Absent},
           \A x \in Caller \ {c} : lock = x => lock' = x,
           l \in Locked => lock' = c,
           CallOK([calls[c] EXCEPT !.pc = l], state),
           SawOK([calls[c] EXCEPT !.pc = l], IF Decided(c) THEN Witnessed(c, saw[c]) ELSE {})
    PROVE  ActivationIInv'
<1> DEFINE k == [calls[c] EXCEPT !.pc = l]
           e == IF Decided(c) THEN Witnessed(c, saw[c]) ELSE {}
<1>1. calls[c] \in Calls /\ saw[c] \in SUBSET {"trust", "files"}
  BY DEF ActivationIInv, ActivationTypeOK
<1>2. k \in Calls
  BY <1>1 DEF Calls
<1>3. e \in SUBSET {"trust", "files"}
  BY <1>1, WitnessGrows
<1>4. calls' = [calls EXCEPT ![c] = k] /\ saw' = [saw EXCEPT ![c] = e]
  BY DEF Proceed
<1>5. k.pc = l
  BY <1>1 DEF Calls
<1> HIDE DEF k, e
<1>6. CallOK(k, state) /\ SawOK(k, e)
  BY DEF k, e
<1> QED
  BY <1>2, <1>3, <1>4, <1>5, <1>6, CallerMoves

\* A new call has the revision of the state,
LEMMA CallStep ==
    ASSUME ActivationIInv, NEW c \in Caller, Call(c)
    PROVE  ActivationIInv'
<1>1. PICK kind \in Kinds, cap \in Capability, o \in Operation :
        calls' = [calls EXCEPT ![c] = [pc |-> IF kind = "acknowledge" THEN "load" ELSE "lock",
                                       kind |-> kind, cap |-> cap, op |-> o,
                                       revision |-> state.revision]]
  BY DEF Call, Kinds
<1> DEFINE k == [pc |-> IF kind = "acknowledge" THEN "load" ELSE "lock",
                 kind |-> kind, cap |-> cap, op |-> o, revision |-> state.revision]
<1>2. UNCHANGED <<state, lock, saw, root>>
  BY DEF Call, rest
<1>3. state.revision \in Nat
  BY DEF ActivationIInv, ActivationTypeOK, Fields
<1>4. k \in Calls
  BY <1>3 DEF Calls, CallPcs, Kinds
<1>5. /\ k.pc \in {"load", "lock"} /\ k.kind = kind /\ k.cap \in Capability
      /\ k.revision = state.revision /\ (kind = "acknowledge" => k.pc = "load")
  OBVIOUS
<1> HIDE DEF k
<1>6. calls' = [calls EXCEPT ![c] = k]
  BY <1>1 DEF k
<1>7. CallOK(k, state) /\ SawOK(k, saw[c]) /\ k.pc \notin Locked
  BY <1>3, <1>5 DEF CallOK, SawOK, Locked
<1>8. saw[c] \in SUBSET {"trust", "files"} /\ saw' = [saw EXCEPT ![c] = saw[c]]
  BY <1>2 DEF ActivationIInv, ActivationTypeOK
<1>9. lock' \in Caller \cup {Absent}
  BY <1>2 DEF ActivationIInv, ActivationTypeOK
<1> QED
  BY <1>2, <1>4, <1>6, <1>7, <1>8, <1>9, CallerMoves

\* an acknowledgement is validated against a state that has it or a later one,
LEMMA LoadStep ==
    ASSUME ActivationIInv, NEW c \in Caller, Load(c)
    PROVE  ActivationIInv'
<1>1. CASE Quit(c)
  BY <1>1, QuitStep
<1>2. CASE Authorized(calls[c].cap, state) /\ Proceed(c, "lock") /\ UNCHANGED <<state, lock, rest>>
  <2> DEFINE k == [calls[c] EXCEPT !.pc = "lock"]
  <2>1. calls[c] \in Calls /\ calls[c].pc = "load" /\ CallOK(calls[c], state)
    BY DEF ActivationIInv, ActivationTypeOK, Load
  <2>2. CallOK(k, state) /\ SawOK(k, IF Decided(c) THEN Witnessed(c, saw[c]) ELSE {})
    BY <1>2, <2>1 DEF CallOK, SawOK, Calls, Locked
  <2>3. "lock" \in CallPcs /\ "lock" \notin Locked
    BY DEF CallPcs, Locked
  <2>4. UNCHANGED <<state, root, lock>> /\ lock' \in Caller \cup {Absent}
    BY <1>2 DEF rest, ActivationIInv, ActivationTypeOK
  <2> QED
    BY <1>2, <2>2, <2>3, <2>4, Proceeds
<1> QED
  BY <1>1, <1>2 DEF Load

\* and no other call has the lock when one takes it.
LEMMA LockStep ==
    ASSUME ActivationIInv, NEW c \in Caller, Lock(c)
    PROVE  ActivationIInv'
<1> DEFINE l == CASE calls[c].kind = "reject" -> "match"
                  [] calls[c].kind = "rollback" -> "match"
                  [] OTHER -> "trust"
           k == [calls[c] EXCEPT !.pc = l]
<1>1. /\ calls[c] \in Calls /\ calls[c].pc = "lock" /\ CallOK(calls[c], state)
      /\ lock = Absent /\ lock' = c /\ UNCHANGED <<state, root>> /\ Proceed(c, l)
  BY DEF Lock, rest, ActivationIInv, ActivationTypeOK
<1>2. /\ l \in {"match", "trust"}
      /\ calls[c].kind \in {"begin", "acknowledge"} => l = "trust"
  BY <1>1 DEF Calls, Kinds
<1> HIDE DEF l
<1>3. CallOK(k, state) /\ SawOK(k, IF Decided(c) THEN Witnessed(c, saw[c]) ELSE {})
  BY <1>1, <1>2 DEF CallOK, SawOK, Calls, Locked
<1>4. l \in CallPcs
  BY <1>2 DEF CallPcs, Locked
<1>5. \A x \in Caller \ {c} : lock = x => lock' = x
  BY <1>1, CallerAssumption
<1> QED
  BY <1>1, <1>3, <1>4, <1>5, Proceeds

\* A step of the caller with the lock.
LEMMA HolderProceeds ==
    ASSUME ActivationIInv, NEW c \in Caller, NEW l \in Locked, Proceed(c, l),
           calls[c].pc \in Locked, UNCHANGED <<state, lock, rest>>,
           CallOK([calls[c] EXCEPT !.pc = l], state),
           SawOK([calls[c] EXCEPT !.pc = l], IF Decided(c) THEN Witnessed(c, saw[c]) ELSE {})
    PROVE  ActivationIInv'
<1>1. /\ UNCHANGED <<state, root, lock>> /\ lock' \in Caller \cup {Absent} /\ lock' = c
      /\ l \in CallPcs
  BY DEF rest, ActivationIInv, ActivationTypeOK, CallPcs
<1> QED
  BY <1>1, Proceeds

\* A new activation is validated under the lock, with the installed trust.
LEMMA TrustStep ==
    ASSUME ActivationIInv, NEW c \in Caller, Trust(c)
    PROVE  ActivationIInv'
<1>1. CASE Quit(c)
  BY <1>1, QuitStep
<1>2. CASE /\ TrustHolds(calls[c].cap)
           /\ calls[c].kind = "begin" => Authorized(calls[c].cap, state)
           /\ Proceed(c, "files") /\ UNCHANGED <<state, lock, rest>>
  <2>1. /\ calls[c] \in Calls /\ calls[c].pc = "trust" /\ CallOK(calls[c], state)
        /\ "files" \in Locked /\ "trust" \in Locked
    BY DEF ActivationIInv, ActivationTypeOK, Trust, Holds, Locked
  <2>2. calls[c].cap.g.guard \in Root
    BY <1>2 DEF TrustHolds, ActivationIInv, ActivationTypeOK
  <2>3. CallOK([calls[c] EXCEPT !.pc = "files"], state)
    BY <1>2, <2>1, <2>2 DEF CallOK, Calls, Locked
  <2>4. SawOK([calls[c] EXCEPT !.pc = "files"], IF Decided(c) THEN Witnessed(c, saw[c]) ELSE {})
    BY <2>1 DEF SawOK, Calls
  <2> QED
    BY <1>2, <2>1, <2>3, <2>4, HolderProceeds
<1> QED
  BY <1>1, <1>2 DEF Trust

\* The first verification of the files is not relied upon.
LEMMA FilesStep ==
    ASSUME ActivationIInv, NEW c \in Caller, Files(c)
    PROVE  ActivationIInv'
<1>1. CASE Quit(c)
  BY <1>1, QuitStep
<1>2. CASE Proceed(c, "match") /\ UNCHANGED <<state, lock, rest>>
  <2>1. /\ calls[c] \in Calls /\ calls[c].pc = "files" /\ CallOK(calls[c], state)
        /\ "files" \in Locked /\ "match" \in Locked
    BY DEF ActivationIInv, ActivationTypeOK, Files, Holds, Locked
  <2>2. CallOK([calls[c] EXCEPT !.pc = "match"], state)
    BY <2>1 DEF CallOK, Calls, Locked
  <2>3. SawOK([calls[c] EXCEPT !.pc = "match"], IF Decided(c) THEN Witnessed(c, saw[c]) ELSE {})
    BY <2>1 DEF SawOK, Calls
  <2> QED
    BY <1>2, <2>1, <2>2, <2>3, HolderProceeds
<1> QED
  BY <1>1, <1>2 DEF Files

\* An acknowledgement that matches was validated against the state there is.
LEMMA MatchStep ==
    ASSUME ActivationIInv, NEW c \in Caller, Match(c)
    PROVE  ActivationIInv'
<1>1. CASE Quit(c)
  BY <1>1, QuitStep
<1>2. CASE Matches(calls[c]) /\ ~ Quit(c)
  <2> DEFINE l == IF calls[c].kind = "reject" THEN "save" ELSE "again"
             k == [calls[c] EXCEPT !.pc = l]
             e == Witnessed(c, {})
  <2>1. /\ calls[c] \in Calls /\ calls[c].pc = "match" /\ lock = c /\ CallOK(calls[c], state)
        /\ calls' = [calls EXCEPT ![c] = k] /\ saw' = [saw EXCEPT ![c] = e]
        /\ UNCHANGED <<state, lock, root>>
    BY <1>2 DEF ActivationIInv, ActivationTypeOK, Match, Holds, rest
  <2>2. l \in Locked /\ l \in CallPcs /\ (calls[c].kind # "reject" => l = "again")
    BY DEF Locked, CallPcs
  <2> HIDE DEF l
  <2>3. k \in Calls /\ k.pc = l /\ k.kind = calls[c].kind
    BY <2>1, <2>2 DEF Calls
  <2>4. calls[c].kind = "acknowledge" => calls[c].revision = state.revision
    BY <1>2 DEF Matches
  <2>5. CallOK(k, state)
    BY <2>1, <2>2, <2>4 DEF CallOK, Calls, Locked
  <2>6. SawOK(k, e)
    BY <2>2, <2>3 DEF SawOK
  <2>7. e \in SUBSET {"trust", "files"}
    BY WitnessGrows
  <2> HIDE DEF k, e
  <2> QED
    BY <2>1, <2>2, <2>3, <2>5, <2>6, <2>7, CallerMoves
<1> QED
  BY <1>1, <1>2 DEF Match

\* The second verification witnesses the files,
LEMMA AgainStep ==
    ASSUME ActivationIInv, NEW c \in Caller, Again(c)
    PROVE  ActivationIInv'
<1>1. CASE Quit(c)
  BY <1>1, QuitStep
<1>2. CASE /\ FilesHold(IF calls[c].kind = "rollback" THEN state.lkg.hash ELSE calls[c].cap.g.m)
           /\ Proceed(c, "final") /\ UNCHANGED <<state, lock, rest>>
  <2>1. /\ calls[c] \in Calls /\ calls[c].pc = "again" /\ CallOK(calls[c], state)
        /\ "again" \in Locked /\ "final" \in Locked /\ Decided(c)
    BY DEF ActivationIInv, ActivationTypeOK, Again, Holds, Locked, Decided
  <2>2. CallOK([calls[c] EXCEPT !.pc = "final"], state)
    BY <2>1 DEF CallOK, Calls, Locked
  <2>3. saw[c] \in SUBSET {"trust", "files"}
    BY DEF ActivationIInv, ActivationTypeOK
  <2>4. calls[c].kind # "rollback" => "files" \in Witnessed(c, saw[c])
    BY <1>2, <2>3, WitnessGrows DEF FilesHold
  <2>5. SawOK([calls[c] EXCEPT !.pc = "final"], IF Decided(c) THEN Witnessed(c, saw[c]) ELSE {})
    BY <2>1, <2>4 DEF SawOK, Calls
  <2> QED
    BY <1>2, <2>1, <2>2, <2>5, HolderProceeds
<1> QED
  BY <1>1, <1>2 DEF Again

\* and the last one the trust.
LEMMA FinalStep ==
    ASSUME ActivationIInv, NEW c \in Caller, Final(c)
    PROVE  ActivationIInv'
<1>1. CASE Quit(c)
  BY <1>1, QuitStep
<1>2. CASE /\ calls[c].kind = "rollback" \/ TrustHolds(calls[c].cap)
           /\ Proceed(c, "save") /\ UNCHANGED <<state, lock, rest>>
  <2>1. /\ calls[c] \in Calls /\ calls[c].pc = "final" /\ CallOK(calls[c], state)
        /\ "final" \in Locked /\ "save" \in Locked /\ Decided(c) /\ SawOK(calls[c], saw[c])
    BY DEF ActivationIInv, ActivationTypeOK, Final, Holds, Locked, Decided
  <2>2. CallOK([calls[c] EXCEPT !.pc = "save"], state)
    BY <2>1 DEF CallOK, Calls, Locked
  <2>3. saw[c] \in SUBSET {"trust", "files"}
    BY DEF ActivationIInv, ActivationTypeOK
  <2>4. calls[c].kind \in {"begin", "acknowledge"} =>
          "files" \in Witnessed(c, saw[c]) /\ "trust" \in Witnessed(c, saw[c])
    BY <1>2, <2>1, <2>3, WitnessGrows DEF SawOK
  <2>5. SawOK([calls[c] EXCEPT !.pc = "save"], IF Decided(c) THEN Witnessed(c, saw[c]) ELSE {})
    BY <2>1, <2>4 DEF SawOK, Calls
  <2> QED
    BY <1>2, <2>1, <2>2, <2>5, HolderProceeds
<1> QED
  BY <1>1, <1>2 DEF Final

\* What is saved is a later state, or the one there is; what it protects the
\* state there is protects too, or it is the generation of a begun activation.
LEMMA SavedState ==
    ASSUME ActivationIInv, NEW c \in Caller, Save(c)
    PROVE  /\ Fields(state')
           /\ state' = state \/ state'.revision = state.revision + 1
           /\ \A i \in Register!Protected(state') :
                \/ i \in Register!Protected(state)
                \/ calls[c].kind = "begin" /\ i = IdOf(calls[c].cap.g)
<1>1. calls[c] \in Calls /\ Fields(state)
  BY DEF ActivationIInv, ActivationTypeOK
<1> PICK r \in Nat : r = state.revision + 1
  BY <1>1 DEF Fields
<1>2. CASE calls[c].kind = "begin"
  <2>1. state' = [state EXCEPT !.revision = r, !.pending = IdOf(calls[c].cap.g),
                               !.op = calls[c].op]
    BY <1>2 DEF Save, Register!Begin
  <2>2. /\ Fields(state') /\ state'.revision = r
        /\ state'.active = state.active /\ state'.lkg = state.lkg
        /\ state'.pending = IdOf(calls[c].cap.g)
    BY <1>1, <2>1 DEF Fields
  <2> QED
    BY <1>2, <2>2 DEF Register!Protected
<1>3. CASE calls[c].kind = "acknowledge"
  <2>1. PICK h : state' = [state EXCEPT !.revision = r,
                     !.active = state.pending, !.lkg = state.active, !.hw = h,
                     !.pending = Absent, !.op = Absent]
    BY <1>3 DEF Save, Register!Acknowledge
  <2>2. /\ Fields(state') /\ state'.revision = r
        /\ state'.active = state.pending /\ state'.lkg = state.active
        /\ state'.pending = Absent
    BY <1>1, <2>1 DEF Fields
  <2> QED
    BY <2>2 DEF Register!Protected
<1>4. CASE calls[c].kind = "reject"
  <2>1. state' = [state EXCEPT !.revision = r, !.pending = Absent, !.op = Absent]
    BY <1>4 DEF Save, Register!Reject
  <2>2. /\ Fields(state') /\ state'.revision = r
        /\ state'.active = state.active /\ state'.lkg = state.lkg
        /\ state'.pending = Absent
    BY <1>1, <2>1 DEF Fields
  <2> QED
    BY <2>2 DEF Register!Protected
<1>5. CASE calls[c].kind = "rollback"
  <2>1. \/ state' = state
        \/ state' = [state EXCEPT !.revision = r, !.active = state.lkg]
    BY <1>5 DEF Save, Register!Rollback
  <2>2. CASE state' = state
    BY <1>1, <2>2
  <2>3. CASE state' = [state EXCEPT !.revision = r, !.active = state.lkg]
    <3>1. /\ Fields(state') /\ state'.revision = r
          /\ state'.active = state.lkg /\ state'.lkg = state.lkg
          /\ state'.pending = state.pending
      BY <1>1, <2>3 DEF Fields
    <3> QED
      BY <3>1 DEF Register!Protected
  <2> QED
    BY <2>1, <2>2, <2>3
<1> QED
  BY <1>1, <1>2, <1>3, <1>4, <1>5 DEF Calls, Kinds

\* A save leaves every other call with an older revision, or the state as it is.
LEMMA SaveStep ==
    ASSUME ActivationIInv, NEW c \in Caller, Save(c)
    PROVE  ActivationIInv'
<1>1. /\ calls[c].pc = "save" /\ lock = c /\ lock' = Absent /\ UNCHANGED root
      /\ calls' = [calls EXCEPT ![c] = Idle] /\ saw' = [saw EXCEPT ![c] = {}]
  BY DEF Save, Holds
<1>2. Idle \in Calls /\ Idle.pc = "idle" /\ Idle.kind = "begin"
  BY DEF Idle, Calls, CallPcs, Kinds
<1> HIDE DEF Idle
<1>3. ActivationTypeOK'
  BY <1>1, <1>2, SavedState DEF ActivationIInv, ActivationTypeOK
<1>4. /\ calls'[c] = Idle /\ saw'[c] = {}
      /\ \A x \in Caller \ {c} : calls'[x] = calls[x] /\ saw'[x] = saw[x]
  BY <1>1 DEF ActivationIInv, ActivationTypeOK
\* no other caller is past the lock
<1>5. \A x \in Caller \ {c} : calls[x].pc \notin Locked
  BY <1>1 DEF ActivationIInv
<1>6. \A x \in Caller : calls'[x].pc \notin Locked
  BY <1>2, <1>4, <1>5 DEF Locked
<1>7. ASSUME NEW x \in Caller PROVE (CallOK(calls[x], state) /\ SawOK(calls[x], saw[x]))'
  <2>1. CASE x = c
    BY <1>2, <1>4, <2>1 DEF CallOK, SawOK, Locked
  <2>2. CASE x # c
    <3>1. /\ calls'[x] = calls[x] /\ saw'[x] = saw[x] /\ calls[x] \in Calls
          /\ CallOK(calls[x], state) /\ SawOK(calls[x], saw[x]) /\ calls[x].pc \notin Locked
      BY <1>4, <1>5, <2>2 DEF ActivationIInv, ActivationTypeOK
    <3>2. CASE state' = state
      BY <3>1, <3>2
    <3>3. CASE state'.revision = state.revision + 1
      <4>1. state.revision \in Nat /\ calls[x].revision \in Nat
        BY <3>1 DEF ActivationIInv, ActivationTypeOK, Fields, Calls
      <4>2. calls[x].pc # "idle" => /\ calls[x].cap \in Capability
                                    /\ calls[x].revision < state'.revision
        BY <3>1, <3>3, <4>1 DEF CallOK
      <4>3. CallOK(calls[x], state')
        BY <3>1, <3>3, <4>1, <4>2 DEF CallOK, Locked
      <4> QED
        BY <3>1, <4>3
    <3> QED
      BY <3>2, <3>3, SavedState
  <2> QED
    BY <2>1, <2>2
<1>8. ActiveDescends'
  <2> SUFFICES ASSUME NEW i \in Register!Protected(state') PROVE i.hash \in FromCheckpoint
    BY DEF ActiveDescends
  <2>1. CASE i \in Register!Protected(state)
    BY <2>1 DEF ActivationIInv, ActiveDescends
  <2>2. CASE calls[c].kind = "begin" /\ i = IdOf(calls[c].cap.g)
    <3>1. /\ calls[c].cap \in Capability
          /\ Authorized(calls[c].cap, state) /\ calls[c].cap.g.guard \in Root
      BY <1>1, <2>2 DEF ActivationIInv, CallOK, Locked
    <3>2. calls[c].cap.g.m \in FromCheckpoint
      BY <3>1, AuthorizedDescends DEF ActivationIInv, ActiveDescends
    <3>3. i.hash = calls[c].cap.g.m
      BY <2>2 DEF IdOf, Identity
    <3> QED
      BY <3>2, <3>3
  <2> QED
    BY <2>1, <2>2, SavedState
<1> QED
  BY <1>3, <1>6, <1>7, <1>8 DEF ActivationIInv

\* Changes of the trust or of the files take no witness away.
LEMMA MeddleStep ==
    ASSUME ActivationIInv, Meddle
    PROVE  ActivationIInv'
<1>1. /\ UNCHANGED <<state, lock, calls>> /\ root' \in Root
      /\ saw' = [c \in Caller |-> IF Decided(c) THEN Witnessed(c, saw[c]) ELSE {}]
  BY DEF Meddle, ActivationIInv, ActivationTypeOK
<1>2. \A c \in Caller : saw[c] \in SUBSET {"trust", "files"}
  BY DEF ActivationIInv, ActivationTypeOK
<1>3. \A c \in Caller : /\ saw'[c] \in SUBSET {"trust", "files"}
                        /\ Decided(c) => saw[c] \subseteq saw'[c]
  BY <1>1, <1>2, WitnessGrows
<1>4. ActivationTypeOK'
  BY <1>1, <1>3 DEF ActivationIInv, ActivationTypeOK
<1>5. ASSUME NEW c \in Caller PROVE (CallOK(calls[c], state) /\ SawOK(calls[c], saw[c]))'
  <2>1. CallOK(calls[c], state) /\ SawOK(calls[c], saw[c])
    BY DEF ActivationIInv
  <2>2. SawOK(calls[c], saw'[c])
    BY <1>3, <2>1 DEF SawOK, Decided
  <2> QED
    BY <1>1, <2>1, <2>2
<1>6. ActiveDescends'
  BY <1>1 DEF ActivationIInv, ActiveDescends
<1>7. (\A c \in Caller : calls[c].pc \in Locked => lock = c)'
  BY <1>1 DEF ActivationIInv
<1> QED
  BY <1>4, <1>5, <1>6, <1>7 DEF ActivationIInv

\* Every call that is past the lock holds it, was validated for the state it will
\* replace and has witnessed what it has verified again.
THEOREM ActivationInvariant == ActivationSpec => []ActivationIInv
<1>1. ActivationIInv /\ [ActivationNext]_activationVars => ActivationIInv'
  <2> SUFFICES ASSUME ActivationIInv, [ActivationNext]_activationVars PROVE ActivationIInv'
    OBVIOUS
  <2>1. CASE UNCHANGED activationVars
    BY <2>1 DEF activationVars, ActivationIInv, ActivationTypeOK, ActiveDescends
  <2>2. ASSUME NEW c \in Caller, Die(c) PROVE ActivationIInv'
    BY <2>2, QuitStep DEF Die
  <2> QED
    BY <2>1, <2>2, CallStep, LoadStep, LockStep, TrustStep, FilesStep, MatchStep, AgainStep,
       FinalStep, SaveStep, MeddleStep DEF ActivationNext
<1> QED
  BY ActivationStart, <1>1, PTL DEF ActivationSpec

\* Whatever is saved was justified after the state it replaces was seen, for
\* any interleaving of the callers with changes of the trust and of the files.
THEOREM SavesJustified == ActivationSpec => []SaveJustified
<1>1. ActivationIInv => SaveJustified
  <2> SUFFICES ASSUME ActivationIInv, NEW c \in Caller, calls[c].pc = "save"
               PROVE  /\ calls[c].kind \in {"begin", "acknowledge"} => saw[c] = {"trust", "files"}
                      /\ calls[c].kind = "acknowledge" => Authorized(calls[c].cap, state)
    BY DEF SaveJustified
  <2>1. /\ CallOK(calls[c], state) /\ SawOK(calls[c], saw[c])
        /\ saw[c] \in SUBSET {"trust", "files"}
    BY DEF ActivationIInv, ActivationTypeOK
  <2> QED
    BY <2>1 DEF CallOK, SawOK, Locked
<1> QED
  BY ActivationInvariant, <1>1, PTL

\* The history of what is pending, active or kept starts at an installed
\* checkpoint, for lineages of any length and any set of documents.
THEOREM ActiveGenerationDescends == ActivationSpec => []ActiveDescends
<1>1. ActivationIInv => ActiveDescends
  BY DEF ActivationIInv
<1> QED
  BY ActivationInvariant, <1>1, PTL

---------------------------------------------------------------------------
(* The handoff to an appliance.                                            *)

\* The records that a restart needs.
Needed == {"intent", "stage", "files"}

\* Where a staging call is, and where any call is that writes a record.
StageSpots  == {"lease.sync", "intent.sync", "mkstage", "stage.sync", "copy", "verify", "publish",
                "published.sync", "complete", "cleanup"}
RecordSpots == {"tmp", "rename", "record.sync"}

\* What the file system holds of a lease.
LeaseStates == [ldir : BOOLEAN, rec : [Record -> {"none", "tmp", "final"}],
                place : {"none", "stage", "published"}, sealed : BOOLEAN,
                file : [File -> {"none", "own", "foreign", "forged"}]]

\* What the variables look like.  A removal never pins a file that is not the
\* call's own: a lease that another program wrote anew is not authenticated.
HandoffTypeOK ==
  /\ fs \in [Lease -> LeaseStates] /\ disk \in [Lease -> LeaseStates]
  /\ forged \subseteq Lease /\ handles \subseteq Lease /\ todo \subseteq Lease
  /\ cut \subseteq Lease /\ cur \in Lease /\ found \in Lease \union {0} /\ what \in Record
  /\ pin = "own" /\ tampers \in Nat
  /\ tampers = 0 => forged = {}

\* What fs and disk become at c.
At(new, old, c, l, r, p, s, f) ==
  /\ new \in [Lease -> LeaseStates]
  /\ \A t \in Lease \ {c} : new[t] = old[t]
  /\ new[c].ldir = l /\ new[c].rec = r /\ new[c].place = p /\ new[c].sealed = s
  /\ new[c].file = f

\* The assignments of the model, each as what it does to one lease: a record,
LEMMA SetRecord ==
  ASSUME NEW g \in [Lease -> LeaseStates], NEW c \in Lease, NEW r \in Record,
         NEW v \in {"none", "tmp", "final"}
  PROVE  At([g EXCEPT ![c].rec[r] = v], g, c, g[c].ldir, [g[c].rec EXCEPT ![r] = v], g[c].place,
            g[c].sealed, g[c].file)
BY DEF At, LeaseStates

\* all records,
LEMMA SetRecords ==
  ASSUME NEW g \in [Lease -> LeaseStates], NEW c \in Lease,
         NEW v \in [Record -> {"none", "tmp", "final"}]
  PROVE  At([g EXCEPT ![c].rec = v], g, c, g[c].ldir, v, g[c].place, g[c].sealed, g[c].file)
BY DEF At, LeaseStates

\* a file,
LEMMA SetFile ==
  ASSUME NEW g \in [Lease -> LeaseStates], NEW c \in Lease, NEW f \in File,
         NEW v \in {"none", "own", "foreign", "forged"}
  PROVE  At([g EXCEPT ![c].file[f] = v], g, c, g[c].ldir, g[c].rec, g[c].place,
            g[c].sealed, [g[c].file EXCEPT ![f] = v])
BY DEF At, LeaseStates

\* all files,
LEMMA SetFiles ==
  ASSUME NEW g \in [Lease -> LeaseStates], NEW c \in Lease,
         NEW v \in [File -> {"none", "own", "foreign", "forged"}]
  PROVE  At([g EXCEPT ![c].file = v], g, c, g[c].ldir, g[c].rec, g[c].place, g[c].sealed, v)
BY DEF At, LeaseStates

\* the mode,
LEMMA SetSealed ==
  ASSUME NEW g \in [Lease -> LeaseStates], NEW c \in Lease, NEW v \in BOOLEAN
  PROVE  At([g EXCEPT ![c].sealed = v], g, c, g[c].ldir, g[c].rec, g[c].place, v, g[c].file)
BY DEF At, LeaseStates

\* the name,
LEMMA SetPlace ==
  ASSUME NEW g \in [Lease -> LeaseStates], NEW c \in Lease, NEW v \in {"none", "stage", "published"}
  PROVE  At([g EXCEPT ![c].place = v], g, c, g[c].ldir, g[c].rec, v, g[c].sealed, g[c].file)
BY DEF At, LeaseStates

\* the name and the mode,
LEMMA SetPlaceSealed ==
  ASSUME NEW g \in [Lease -> LeaseStates], NEW c \in Lease,
         NEW v \in {"none", "stage", "published"},
         NEW s \in BOOLEAN
  PROVE  At([g EXCEPT ![c].place = v, ![c].sealed = s], g, c, g[c].ldir, g[c].rec, v, s, g[c].file)
<1> DEFINE h == [g EXCEPT ![c].place = v]
<1>1. At(h, g, c, g[c].ldir, g[c].rec, v, g[c].sealed, g[c].file)
  BY SetPlace
<1>2. [g EXCEPT ![c].place = v, ![c].sealed = s] = [h EXCEPT ![c].sealed = s]
  OBVIOUS
<1> HIDE DEF h
<1>3. At([h EXCEPT ![c].sealed = s], h, c, h[c].ldir, h[c].rec, h[c].place, s, h[c].file)
  BY <1>1, SetSealed DEF At
<1> QED
  BY <1>1, <1>2, <1>3 DEF At

\* the files and the mode,
LEMMA SetFilesSealed ==
  ASSUME NEW g \in [Lease -> LeaseStates], NEW c \in Lease,
         NEW v \in [File -> {"none", "own", "foreign", "forged"}], NEW s \in BOOLEAN
  PROVE  At([g EXCEPT ![c].file = v, ![c].sealed = s], g, c, g[c].ldir, g[c].rec, g[c].place, s, v)
BY DEF At, LeaseStates

\* the lease directory.
LEMMA SetDirectory ==
  ASSUME NEW g \in [Lease -> LeaseStates], NEW c \in Lease, NEW v \in BOOLEAN
  PROVE  At([g EXCEPT ![c].ldir = v], g, c, v, g[c].rec, g[c].place, g[c].sealed, g[c].file)
BY DEF At, LeaseStates

-----------------------------------------------------------------------------
\* A record that may be found after a power failure, and one that will be.
\* (x is what a lease shows, y what of it is durable.)
Exists(x, y, r)  == x.rec[r] # "none" \/ y.rec[r] # "none"
Durable(x, y, r) == x.rec[r] = "final" /\ y.rec[r] = "final"

\* The order in which a lease grows: a record is only begun when what it
\* stands on is durable, and a name is only given when its files are.  It holds
\* of every lease but one whose removal has begun.
WholeLease(x, y, honest) ==
  /\ y.ldir => x.ldir
  /\ y.place # "none" => x.place # "none"
  /\ Exists(x, y, "intent") => x.ldir /\ y.ldir
  /\ x.place # "none" \/ Exists(x, y, "stage") => Durable(x, y, "intent")
  /\ Exists(x, y, "stage") => x.place # "none" /\ y.place # "none"
  /\ Exists(x, y, "files") => Durable(x, y, "stage")
  /\ Exists(x, y, "published") \/ Exists(x, y, "retiring") => Durable(x, y, "files")
  /\ Exists(x, y, "files") /\ honest => \A f \in File : x.file[f] = "own" /\ y.file[f] = "own"
  /\ x.place = "published" \/ y.place = "published"
       => x.sealed /\ y.sealed /\ Durable(x, y, "files")
  /\ x.sealed \/ y.sealed => \A f \in File : x.file[f] # "none" /\ y.file[f] # "none"

\* What holds of every lease, whatever becomes of it: a published and sealed
\* handoff is durable, and so is what another program left.
LeaseOK(x, y) ==
  /\ x.place = "none" => ~ x.sealed /\ x.file = NoFile
  /\ ~ x.ldir => x.rec = NoRecord
  /\ \A f \in File : x.file[f] \in {"foreign", "forged"}
       => y.file[f] = x.file[f] /\ x.place # "none" /\ y.place # "none"
  /\ x.place = "published" /\ x.sealed
       => /\ y.file = x.file /\ (x.ldir => y.ldir)
          /\ \A r \in Needed : x.rec[r] = "final" => y.rec[r] = "final"

\* A power failure: z mixes what was seen and what was durable.
Mixed(x, y, z) ==
  /\ z.ldir \in {x.ldir, y.ldir} /\ z.place \in {x.place, y.place}
  /\ z.sealed => z.place # "none" /\ (x.sealed \/ y.sealed)
  /\ \A r \in Record : IF z.ldir THEN z.rec[r] \in {x.rec[r], y.rec[r]} ELSE z.rec[r] = "none"
  /\ \A f \in File : IF z.place # "none" THEN z.file[f] \in {x.file[f], y.file[f]}
                     ELSE z.file[f] = "none"
  /\ x.sealed /\ y.sealed /\ z.place # "none" => z.sealed

\* A power failure keeps that order,
LEMMA MixedWhole ==
  ASSUME NEW x \in LeaseStates, NEW y \in LeaseStates, NEW z \in LeaseStates,
         NEW honest \in BOOLEAN,
         WholeLease(x, y, honest), Mixed(x, y, z)
  PROVE  WholeLease(z, z, honest)
<1>1. /\ z.place # "none" => Durable(z, z, "intent")
      /\ z.rec["stage"] # "none" => Durable(z, z, "intent") /\ z.place # "none"
  BY DEF WholeLease, Mixed, Exists, Durable, LeaseStates, Record
<1>2. /\ z.rec["files"] # "none" => Durable(z, z, "stage")
      /\ z.rec["published"] # "none" => Durable(z, z, "files")
      /\ z.rec["retiring"] # "none" => Durable(z, z, "files")
  BY DEF WholeLease, Mixed, Exists, Durable, LeaseStates, Record
<1>3. z.rec["files"] # "none" /\ honest => \A f \in File : z.file[f] = "own"
  BY DEF WholeLease, Mixed, Exists, Durable, LeaseStates, Record
<1>4. z.place = "published" => z.sealed /\ Durable(z, z, "files")
  BY DEF WholeLease, Mixed, Exists, Durable, LeaseStates, Record
<1>5. z.sealed => \A f \in File : z.file[f] # "none"
  BY DEF WholeLease, Mixed, Exists, Durable, LeaseStates, Record
<1>6. z.rec["intent"] # "none" => z.ldir
  BY DEF Mixed, Record
<1> QED
  BY <1>1, <1>2, <1>3, <1>4, <1>5, <1>6 DEF WholeLease, Exists

\* and what holds of every lease.
LEMMA MixedLease ==
  ASSUME NEW x \in LeaseStates, NEW y \in LeaseStates, NEW z \in LeaseStates,
         LeaseOK(x, y), Mixed(x, y, z)
  PROVE  LeaseOK(z, z)
<1>1. z.place = "none" => z.file = NoFile
  BY DEF Mixed, LeaseStates, NoFile
<1>2. ~ z.ldir => z.rec = NoRecord
  BY DEF Mixed, LeaseStates, NoRecord
<1>3. ASSUME NEW f \in File, z.file[f] \in {"foreign", "forged"} PROVE z.place # "none"
  BY <1>3 DEF Mixed
<1> QED
  BY <1>1, <1>2, <1>3 DEF LeaseOK, Mixed

\* SyncDestination, for one lease.
Synced(x, y, z) ==
  /\ z.ldir = x.ldir /\ z.place = x.place
  /\ z.rec = IF x.ldir THEN y.rec ELSE NoRecord
  /\ z.sealed = (y.sealed /\ x.place # "none")
  /\ z.file = IF x.place = "none" THEN NoFile ELSE y.file

\* So does the sync of the destination, which makes no record durable.
LEMMA SyncedWhole ==
  ASSUME NEW x \in LeaseStates, NEW y \in LeaseStates, NEW z \in LeaseStates,
         NEW honest \in BOOLEAN,
         LeaseOK(x, y), WholeLease(x, y, honest), Synced(x, y, z)
  PROVE  WholeLease(x, z, honest)
<1>1. \A r \in Record : z.rec[r] = IF x.ldir THEN y.rec[r] ELSE "none"
  BY DEF Synced, NoRecord
<1>2. \A f \in File : z.file[f] = IF x.place = "none" THEN "none" ELSE y.file[f]
  BY DEF Synced, NoFile
<1>3. z.ldir = x.ldir /\ z.place = x.place /\ z.sealed = (y.sealed /\ x.place # "none")
  BY DEF Synced
<1>4. \A r \in Record : Exists(x, z, r) => Exists(x, y, r)
  BY <1>1 DEF Exists
<1>5. \A r \in Record : Durable(x, y, r) /\ x.ldir => Durable(x, z, r)
  BY <1>1 DEF Durable
<1>6. {"intent", "stage", "files", "published", "retiring"} = Record
  BY DEF Record
<1>7. /\ z.ldir => x.ldir
      /\ z.place # "none" => x.place # "none"
      /\ Exists(x, z, "intent") => x.ldir /\ z.ldir
      /\ Exists(x, z, "stage") => x.place # "none" /\ z.place # "none"
  BY <1>3, <1>4, <1>6 DEF WholeLease
<1>8. x.place # "none" \/ Exists(x, z, "stage") => Durable(x, z, "intent")
  BY <1>4, <1>5, <1>6 DEF WholeLease, Durable, Exists
<1>9. Durable(x, y, "stage") \/ Durable(x, y, "files") => x.ldir
  BY <1>6 DEF WholeLease, Durable, Exists
<1>10. /\ Exists(x, z, "files") => Durable(x, z, "stage")
       /\ Exists(x, z, "published") \/ Exists(x, z, "retiring") => Durable(x, z, "files")
  BY <1>4, <1>5, <1>6, <1>9 DEF WholeLease
<1>11. Exists(x, z, "files") /\ honest => \A f \in File : x.file[f] = "own" /\ z.file[f] = "own"
  BY <1>2, <1>4, <1>6, <1>7, <1>10 DEF WholeLease, Durable, Exists
<1>12. x.place = "published" \/ z.place = "published"
          => x.sealed /\ z.sealed /\ Durable(x, z, "files")
  BY <1>3, <1>5, <1>6, <1>9 DEF WholeLease
<1>13. x.sealed \/ z.sealed => \A f \in File : x.file[f] # "none" /\ z.file[f] # "none"
  BY <1>2, <1>3 DEF WholeLease, LeaseOK
<1> QED
  BY <1>7, <1>8, <1>10, <1>11, <1>12, <1>13 DEF WholeLease

\* The same of what holds of every lease.
LEMMA SyncedLease ==
  ASSUME NEW x \in LeaseStates, NEW y \in LeaseStates, NEW z \in LeaseStates,
         LeaseOK(x, y), Synced(x, y, z)
  PROVE  LeaseOK(x, z)
BY DEF LeaseOK, Synced, LeaseStates, NoRecord, NoFile, Needed, Record

-----------------------------------------------------------------------------
\* Which routine is at which place.
RoutineOK ==
  \/ routine = "none" /\ pc = "idle"
  \/ /\ routine = "reconcile"
     /\ \/ pc \in {"reconcile", "partial", "decide", "refuse"} \union Removing
        \/ pc \in RecordSpots /\ what = "published"
  \/ /\ routine = "stage"
     /\ \/ pc \in StageSpots \union Removing
        \/ pc \in RecordSpots /\ what \in Record \ {"retiring"}
  \/ /\ routine = "retire"
     /\ \/ pc \in {"retire", "retiring.sync", "retired"} \union Removing
        \/ pc \in RecordSpots /\ what = "retiring"

\* No removal of the lease has begun, or its interrupted removal is over:
\* the running call made it.
Settled(t) == /\ t \notin cut \/ (routine = "stage" /\ cur = t)
              /\ ~ (pc \in Removing /\ cur = t)

\* Every settled lease is whole, and what holds of all leases holds.
WholeOK == \A t \in Lease : Settled(t) => WholeLease(fs[t], disk[t], tampers = 0)
EachOK  == \A t \in Lease : LeaseOK(fs[t], disk[t])

\* The name of the lease and one of its records, seen and durable.
Both(t, p)  == fs[t].place = p /\ disk[t].place = p
Firm(t, r)  == Durable(fs[t], disk[t], r)

\* What the record that is being written stands on.
Ready(r) ==
  /\ r = "intent" => fs[cur].ldir /\ disk[cur].ldir /\ fs[cur].place = "none"
  /\ r = "stage"  => Both(cur, "stage") /\ Firm(cur, "intent")
  /\ r = "files"  => /\ Both(cur, "stage") /\ Firm(cur, "stage")
                     /\ tampers = 0 => \A f \in File : /\ fs[cur].file[f] = "own"
                                                       /\ disk[cur].file[f] = "own"
  /\ r = "published" => /\ fs[cur].place = "published" /\ fs[cur].sealed /\ Has(cur, "intent")
                        /\ routine = "stage" => disk[cur].place = "published"
  /\ r = "retiring"  => \A q \in Record \ {"retiring"} : Has(cur, q)

\* What the running call may rely on at the place where it is, be another
\* program at work or not.
SpotOK ==
  /\ pc = "lease.sync" => fs[cur].ldir /\ fs[cur].place = "none" /\ fs[cur].rec = NoRecord
  /\ pc \in {"intent.sync", "mkstage"} => fs[cur].place = "none" /\ Firm(cur, "intent")
  /\ pc = "stage.sync" => fs[cur].place = "stage"
  /\ pc \in {"copy", "verify", "publish"} => Both(cur, "stage") /\ Firm(cur, "stage")
  /\ pc \in {"verify", "publish"} => Firm(cur, "files")
  /\ pc = "publish" => fs[cur].sealed /\ disk[cur].sealed /\ fs[cur].file = disk[cur].file
  /\ pc \in {"published.sync", "complete"} => fs[cur].place = "published" /\ fs[cur].sealed
  /\ pc = "complete" => disk[cur].place = "published"
  /\ pc \in RecordSpots => Ready(what)
  /\ pc = "record.sync" => Has(cur, what)
  /\ pc \in {"decide", "partial", "complete"} => Has(cur, "intent")
  /\ pc = "retire" => fs[cur].rec["intent"] # "tmp"
  /\ pc \in {"retiring.sync", "retired"} => \A r \in Record : Has(cur, r)
  /\ routine = "retire" /\ pc \in {"rmfiles", "rmlease.sync"} => \A r \in Record : Has(cur, r)
  /\ pc = "rmfiles" => ~ fs[cur].sealed
  /\ pc = "rmlease.sync" => fs[cur].place = "none"
  /\ pc \in {"rmlease", "removed"} =>
       /\ cur \in handles \union {found} => fs[cur].place # "published"
       /\ cur \notin cut => Both(cur, "none")
  /\ pc = "removed" => ~ fs[cur].ldir

\* What a handle, or a recovered handoff, may rely on.
Returned(t) ==
  /\ fs[t].rec["intent"] # "tmp"
  /\ fs[t].place = "published" =>
       /\ Has(t, "intent")
       /\ tampers = 0 /\ ~ Has(t, "retiring") =>
            /\ fs[t].ldir /\ disk[t].ldir /\ disk[t].place = "published"
            /\ \A f \in File : disk[t].file[f] = "own"
            /\ \A r \in Needed : Firm(t, r)

\* Every handle and the recovered handoff may; a new lease has no handle.
ReturnedOK ==
  /\ \A t \in Lease : t \in handles \union {found} => Returned(t)
  /\ routine = "stage" => cur \notin handles

\* The lease may be found by a call, now or after a power failure.
Live(t) == fs[t].ldir \/ disk[t].ldir
\* At most one lease is live, unless a removal was interrupted; and a call
\* looks at every lease that stands before it makes another.
QueueOK ==
  /\ \A t, u \in Lease \ cut : Live(t) /\ Live(u) => t = u
  /\ found # 0 => /\ routine = "reconcile" /\ found \notin todo /\ fs[found].ldir
                  /\ pc # "reconcile" => cur # found
  /\ routine = "reconcile" =>
       /\ pc # "reconcile" => cur \notin todo
       /\ \A u \in Lease : fs[u].ldir => u \in todo \union {found} \union {cur}
       /\ pc = "reconcile" => (\A u \in Lease : fs[u].ldir => u \in todo \union {found})

\* The inductive invariant of the handoff.
HandoffIInv == /\ HandoffTypeOK /\ RoutineOK /\ WholeOK /\ EachOK /\ SpotOK /\ ReturnedOK /\ QueueOK

\* A step on one lease leaves the others as they are:
LEMMA EachFrame ==
  ASSUME EachOK, NEW c \in Lease, LeaseOK(fs'[c], disk'[c]),
         \A t \in Lease \ {c} : fs'[t] = fs[t] /\ disk'[t] = disk[t]
  PROVE  EachOK'
<1> SUFFICES ASSUME NEW t \in Lease PROVE LeaseOK(fs'[t], disk'[t])
  BY DEF EachOK
<1> QED
  BY DEF EachOK

\* their order,
LEMMA WholeFrame ==
  ASSUME WholeOK, NEW c \in Lease, tampers' = tampers,
         Settled(c)' => WholeLease(fs'[c], disk'[c], tampers = 0),
         \A t \in Lease \ {c} : /\ fs'[t] = fs[t] /\ disk'[t] = disk[t]
                                /\ Settled(t)' => Settled(t)
  PROVE  WholeOK'
<1> SUFFICES ASSUME NEW t \in Lease, Settled(t)' PROVE WholeLease(fs'[t], disk'[t], tampers = 0)
  BY DEF WholeOK
<1>1. CASE t = c
  BY <1>1
<1>2. CASE t # c
  <2>1. Settled(t) /\ fs'[t] = fs[t] /\ disk'[t] = disk[t]
    BY <1>2
  <2>2. WholeLease(fs[t], disk[t], tampers = 0)
    BY <2>1 DEF WholeOK
  <2> QED
    BY <2>1, <2>2
<1> QED
  BY <1>1, <1>2

\* what a handle knows of its own lease,
LEMMA ReturnedSame ==
  ASSUME NEW t \in Lease, Returned(t), fs'[t] = fs[t], disk'[t] = disk[t], tampers' = tampers
  PROVE  Returned(t)'
BY DEF Returned, Has, Firm, Durable

\* and of all.
LEMMA ReturnedFrame ==
  ASSUME ReturnedOK, NEW c \in Lease, tampers' = tampers,
         c \in handles' \union {found'} => Returned(c)',
         \A t \in Lease \ {c} : /\ fs'[t] = fs[t] /\ disk'[t] = disk[t]
                                /\ t \in handles' \union {found'} => t \in handles \union {found},
         routine' = "stage" => cur' \notin handles'
  PROVE  ReturnedOK'
<1> SUFFICES ASSUME NEW t \in Lease, t \in handles' \union {found'} PROVE Returned(t)'
  BY DEF ReturnedOK
<1>1. CASE t = c
  BY <1>1
<1>2. CASE t # c
  BY <1>2, ReturnedSame DEF ReturnedOK
<1> QED
  BY <1>1, <1>2

\* A step within a routine, on the lease it is at.
LEMMA LeaseStep ==
  ASSUME HandoffIInv,
         UNCHANGED <<routine, cur, todo, found, cut, forged, tampers, handles, pin>>,
         what' \in Record, fs' \in [Lease -> LeaseStates], disk' \in [Lease -> LeaseStates],
         \A t \in Lease \ {cur} : fs'[t] = fs[t] /\ disk'[t] = disk[t],
         fs'[cur].ldir => fs[cur].ldir, disk'[cur].ldir => Live(cur),
         pc # "reconcile", pc' # "reconcile", pc \in Removing => pc' \in Removing,
         RoutineOK', SpotOK', LeaseOK(fs'[cur], disk'[cur]),
         Settled(cur)' => WholeLease(fs'[cur], disk'[cur], tampers = 0),
         cur \in handles \union {found} => Returned(cur)'
  PROVE  HandoffIInv'
<1>1. HandoffTypeOK'
  BY DEF HandoffIInv, HandoffTypeOK
<1>2. cur \in Lease
  BY DEF HandoffIInv, HandoffTypeOK
<1>3. EachOK'
  BY <1>2, EachFrame DEF HandoffIInv
<1>4. \A t \in Lease \ {cur} : Settled(t)' => Settled(t)
  BY DEF Settled
<1>5. WholeOK'
  BY <1>2, <1>4, WholeFrame DEF HandoffIInv
<1>6. ReturnedOK'
  <2>1. ReturnedOK /\ (routine' = "stage" => cur' \notin handles')
    BY DEF HandoffIInv, ReturnedOK
  <2> QED
    BY <1>2, <2>1, ReturnedFrame
<1>7. QueueOK'
  <2>1. \A t \in Lease : (fs'[t].ldir => fs[t].ldir) /\ (Live(t)' => Live(t))
    BY DEF Live
  <2>2. found # 0 => /\ routine = "reconcile" /\ found \notin todo /\ fs[found].ldir /\ cur # found
                     /\ found \in Lease
    BY DEF HandoffIInv, QueueOK, HandoffTypeOK
  <2>3. found # 0 => fs'[found].ldir
    BY <2>2
  <2>4. (\A t, u \in Lease \ cut : Live(t) /\ Live(u) => t = u)'
    BY <2>1 DEF HandoffIInv, QueueOK
  <2>5. routine = "reconcile" => /\ cur \notin todo
                                 /\ \A u \in Lease : fs'[u].ldir
                                      => u \in todo \union {found} \union {cur}
    BY <2>1 DEF HandoffIInv, QueueOK
  <2> QED
    BY <2>2, <2>3, <2>4, <2>5 DEF QueueOK
<1> QED
  BY <1>1, <1>3, <1>5, <1>6, <1>7 DEF HandoffIInv

\* A call ends: what a removal leaves is cut.
LEMMA ReturnStep ==
  ASSUME HandoffIInv, NEW w, Return(w), UNCHANGED <<fs, disk, forged, tampers>>,
         cut \subseteq cut', cut' \subseteq Lease, pc \in Removing => cur \in cut',
         handles' \subseteq Lease,
         \A t \in handles' : t \in handles \union {found} \/ Returned(t)
  PROVE  HandoffIInv'
<1>1. HandoffTypeOK'
  <2>1. 1 \in Lease
    BY LeaseAssumption DEF Lease
  <2> QED
    BY <2>1 DEF HandoffIInv, HandoffTypeOK, Return, Record
<1>2. RoutineOK'
  BY DEF Return, RoutineOK
<1>3. EachOK'
  BY DEF HandoffIInv, EachOK
<1>4. WholeOK'
  <2> SUFFICES ASSUME NEW t \in Lease, Settled(t)' PROVE WholeLease(fs[t], disk[t], tampers = 0)
    BY DEF WholeOK
  <2>1. Settled(t)
    BY DEF Settled, Return
  <2> QED
    BY <2>1 DEF HandoffIInv, WholeOK
<1>5. SpotOK'
  BY DEF Return, SpotOK, RecordSpots, Removing
<1>6. ReturnedOK'
  <2> SUFFICES ASSUME NEW t \in Lease, t \in handles' \union {0} PROVE Returned(t)'
    BY DEF ReturnedOK, Return
  <2>1. t \in handles'
    BY LeaseAssumption DEF Lease
  <2>2. Returned(t)
    BY <2>1 DEF HandoffIInv, ReturnedOK
  <2> QED
    BY <2>2, ReturnedSame
<1>7. QueueOK'
  <2>1. \A t \in Lease : Live(t)' <=> Live(t)
    BY DEF Live
  <2> QED
    BY <2>1 DEF HandoffIInv, QueueOK, Return
<1> QED
  BY <1>1, <1>2, <1>3, <1>4, <1>5, <1>6, <1>7 DEF HandoffIInv

\* The destination is synced, and what the call knows stays.
LEMMA SyncedEach ==
  ASSUME HandoffTypeOK, SyncDestination
  PROVE  /\ disk' \in [Lease -> LeaseStates]
         /\ \A t \in Lease : Synced(fs[t], disk[t], disk'[t])
<1>1. \A t \in Lease : fs[t] \in LeaseStates /\ disk[t] \in LeaseStates
  BY DEF HandoffTypeOK
<1>2. /\ NoRecord \in [Record -> {"none", "tmp", "final"}]
      /\ NoFile \in [File -> {"none", "own", "foreign", "forged"}]
  BY DEF NoRecord, NoFile
<1> DEFINE new(t) == [disk[t] EXCEPT !.ldir = fs[t].ldir, !.place = fs[t].place,
                             !.rec = IF fs[t].ldir THEN @ ELSE NoRecord,
                             !.sealed = @ /\ fs[t].place # "none",
                             !.file = IF fs[t].place = "none" THEN NoFile ELSE @]
<1>3. ASSUME NEW t \in Lease PROVE new(t) \in LeaseStates /\ Synced(fs[t], disk[t], new(t))
  <2> DEFINE x == fs[t]  y == disk[t]
             r == IF x.ldir THEN y.rec ELSE NoRecord
             s == y.sealed /\ x.place # "none"
             f == IF x.place = "none" THEN NoFile ELSE y.file
  <2>1. /\ r \in [Record -> {"none", "tmp", "final"}]
        /\ s \in BOOLEAN
        /\ f \in [File -> {"none", "own", "foreign", "forged"}]
    BY <1>1, <1>2 DEF LeaseStates
  <2>2. new(t) = [y EXCEPT !.ldir = x.ldir, !.place = x.place, !.rec = r, !.sealed = s, !.file = f]
    OBVIOUS
  <2>3. x \in LeaseStates /\ y \in LeaseStates
    BY <1>1
  <2>4. Synced(x, y, new(t)) <=> /\ new(t).ldir = x.ldir /\ new(t).place = x.place
                                 /\ new(t).rec = r /\ new(t).sealed = s /\ new(t).file = f
    BY DEF Synced
  <2> HIDE DEF x, y, r, s, f
  <2>5. LET z == [y EXCEPT !.ldir = x.ldir, !.place = x.place, !.rec = r, !.sealed = s, !.file = f]
        IN  /\ z \in LeaseStates /\ z.ldir = x.ldir /\ z.place = x.place
            /\ z.rec = r /\ z.sealed = s /\ z.file = f
    BY <2>1, <2>3 DEF LeaseStates
  <2> HIDE DEF new
  <2>6. /\ new(t) \in LeaseStates /\ new(t).ldir = x.ldir /\ new(t).place = x.place
        /\ new(t).rec = r /\ new(t).sealed = s /\ new(t).file = f
    BY <2>2, <2>5
  <2> QED
    BY <2>4, <2>6 DEF x, y
<1>4. disk' = [t \in Lease |-> new(t)]
  BY DEF SyncDestination
<1> HIDE DEF new
<1> QED
  BY <1>3, <1>4

\* What the sync of the destination does to each part of the invariant.
LEMMA SyncedParts ==
  ASSUME HandoffIInv, SyncDestination, fs' = fs, tampers' = tampers
  PROVE  /\ disk' \in [Lease -> LeaseStates] /\ EachOK'
         /\ \A t \in Lease : /\ Settled(t) => WholeLease(fs[t], disk'[t], tampers = 0)
                             /\ Returned(t) => Returned(t)'
                             /\ Live(t)' => fs[t].ldir
                             /\ disk'[t].place = fs[t].place /\ disk'[t].ldir = fs[t].ldir
                             /\ fs[t].ldir => disk'[t].rec = disk[t].rec
<1>1. /\ disk' \in [Lease -> LeaseStates]
      /\ \A t \in Lease : Synced(fs[t], disk[t], disk'[t])
  BY SyncedEach DEF HandoffIInv
<1>2. \A t \in Lease : fs[t] \in LeaseStates /\ disk[t] \in LeaseStates /\ disk'[t] \in LeaseStates
  BY <1>1 DEF HandoffIInv, HandoffTypeOK
<1>3. \A t \in Lease : LeaseOK(fs[t], disk[t])
  BY DEF HandoffIInv, EachOK
<1>4. EachOK'
  BY <1>1, <1>2, <1>3, SyncedLease DEF EachOK
<1>5. ASSUME NEW t \in Lease, Settled(t) PROVE WholeLease(fs[t], disk'[t], tampers = 0)
  <2>1. WholeLease(fs[t], disk[t], tampers = 0)
    BY <1>5 DEF HandoffIInv, WholeOK
  <2> QED
    BY <1>1, <1>2, <1>3, <2>1, SyncedWhole
<1>6. ASSUME NEW t \in Lease, Returned(t) PROVE Returned(t)'
  <2>1. Synced(fs[t], disk[t], disk'[t])
    BY <1>1
  <2> QED
    BY <1>6, <2>1 DEF Returned, Has, Firm, Durable, Synced
<1>7. \A t \in Lease : /\ Live(t)' => fs[t].ldir
                       /\ disk'[t].place = fs[t].place /\ disk'[t].ldir = fs[t].ldir
                       /\ fs[t].ldir => disk'[t].rec = disk[t].rec
  BY <1>1 DEF Synced, Live
<1> QED
  BY <1>1, <1>4, <1>5, <1>6, <1>7

\* A step within a routine that syncs the destination.
LEMMA DestinationStep ==
  ASSUME HandoffIInv, SyncDestination,
         UNCHANGED <<fs, routine, cur, todo, found, cut, forged, tampers, handles, pin>>,
         what' \in Record, pc # "reconcile", pc' # "reconcile", pc \in Removing => pc' \in Removing,
         RoutineOK', SpotOK'
  PROVE  HandoffIInv'
<1>1. HandoffTypeOK'
  BY SyncedParts DEF HandoffIInv, HandoffTypeOK
<1>2. EachOK'
  BY SyncedParts
<1>3. WholeOK'
  <2> SUFFICES ASSUME NEW t \in Lease, Settled(t)' PROVE WholeLease(fs[t], disk'[t], tampers = 0)
    BY DEF WholeOK
  <2>1. Settled(t)
    BY DEF Settled
  <2> QED
    BY <2>1, SyncedParts
<1>4. ReturnedOK'
  BY SyncedParts DEF HandoffIInv, ReturnedOK
<1>5. QueueOK'
  <2>1. \A t \in Lease : Live(t)' => Live(t)
    BY SyncedParts DEF Live
  <2> QED
    BY <2>1 DEF HandoffIInv, QueueOK
<1> QED
  BY <1>1, <1>2, <1>3, <1>4, <1>5 DEF HandoffIInv

\* What the steps need to know of the lease that the call is at.
LEMMA AtLease ==
  ASSUME HandoffIInv
  PROVE  /\ cur \in Lease /\ fs[cur] \in LeaseStates /\ disk[cur] \in LeaseStates
         /\ LeaseOK(fs[cur], disk[cur])
         /\ cur \notin cut /\ pc \notin Removing => WholeLease(fs[cur], disk[cur], tampers = 0)
         /\ routine = "stage" /\ pc \notin Removing => WholeLease(fs[cur], disk[cur], tampers = 0)
         /\ fs \in [Lease -> LeaseStates] /\ disk \in [Lease -> LeaseStates]
         /\ cur \in handles \union {found} => Returned(cur)
         /\ routine = "stage" => cur \notin handles /\ found = 0
         /\ 0 \notin Lease
<1>1. cur \in Lease /\ 0 \notin Lease
  BY DEF HandoffIInv, HandoffTypeOK, Lease
<1>2. fs[cur] \in LeaseStates /\ disk[cur] \in LeaseStates
  BY <1>1 DEF HandoffIInv, HandoffTypeOK
<1>3. Settled(cur) => WholeLease(fs[cur], disk[cur], tampers = 0)
  BY <1>1 DEF HandoffIInv, WholeOK
<1> QED
  BY <1>1, <1>2, <1>3 DEF HandoffIInv, HandoffTypeOK, EachOK, Settled, ReturnedOK, QueueOK

-----------------------------------------------------------------------------
\* The steps of a removal keep the invariant: a file,
LEMMA RemoveFileStep ==
  ASSUME HandoffIInv, RemoveFile
  PROVE  HandoffIInv'
<1>1. /\ pc = "rmfiles" /\ disk' = disk
      /\ UNCHANGED <<pc, routine, cur, todo, found, what, cut, forged, tampers, handles, pin>>
  BY DEF RemoveFile, call, world, bounds
<1>2. PICK f \in File : fs[cur].file[f] = "own" /\ fs' = [fs EXCEPT ![cur].file[f] = "none"]
  BY DEF RemoveFile, HandoffIInv, HandoffTypeOK
<1>3. At(fs', fs, cur, fs[cur].ldir, fs[cur].rec, fs[cur].place, fs[cur].sealed,
         [fs[cur].file EXCEPT ![f] = "none"])
  BY <1>2, AtLease, SetFile
<1>4. ~ fs[cur].sealed /\ fs[cur].file \in [File -> {"none", "own", "foreign", "forged"}]
  BY <1>1, AtLease DEF HandoffIInv, SpotOK, LeaseStates
<1>5. LeaseOK(fs'[cur], disk'[cur])
  BY <1>1, <1>2, <1>3, <1>4, AtLease DEF LeaseOK, At, NoFile
<1>6. SpotOK'
  BY <1>1, <1>3 DEF HandoffIInv, SpotOK, At, Has, RecordSpots
<1>7. Returned(cur) => Returned(cur)'
  BY <1>1, <1>3 DEF Returned, At, Has, Firm, Durable
<1> QED
  BY <1>1, <1>3, <1>5, <1>6, <1>7, AtLease, LeaseStep
     DEF At, HandoffIInv, HandoffTypeOK, RoutineOK, Live, Settled, Removing

\* the directory of the files,
LEMMA RemoveHandoffStep ==
  ASSUME HandoffIInv, RemoveHandoff
  PROVE  HandoffIInv'
<1>1. /\ pc = "rmfiles" /\ pc' = "rmlease.sync" /\ fs[cur].file = NoFile
      /\ UNCHANGED <<routine, cur, todo, found, what, cut, forged, tampers, handles, pin>>
  BY DEF RemoveHandoff, Goto, Empty, world, bounds
<1>2. At(fs', fs, cur, fs[cur].ldir, fs[cur].rec, "none", FALSE, NoFile)
  BY <1>1, AtLease, SetPlaceSealed DEF RemoveHandoff
<1>3. At(disk', disk, cur, disk[cur].ldir, disk[cur].rec, disk[cur].place, FALSE, NoFile)
  <2>1. fs'[cur].file = NoFile /\ fs'[cur].sealed = FALSE
    BY <1>2 DEF At
  <2>2. NoFile \in [File -> {"none", "own", "foreign", "forged"}]
    BY DEF NoFile
  <2> QED
    BY <2>1, <2>2, AtLease, SetFilesSealed DEF RemoveHandoff, SyncStage
<1>4. LeaseOK(fs'[cur], disk'[cur])
  BY <1>2, <1>3, AtLease DEF LeaseOK, At, NoFile
<1>5. SpotOK'
  BY <1>1, <1>2 DEF HandoffIInv, SpotOK, At, Has, RecordSpots
<1>6. Returned(cur) => Returned(cur)'
  BY <1>1, <1>2 DEF Returned, At
<1> QED
  BY <1>1, <1>2, <1>3, <1>4, <1>5, <1>6, AtLease, LeaseStep
     DEF At, HandoffIInv, HandoffTypeOK, RoutineOK, RecordSpots, Live, Settled, Removing

\* the sync after it,
LEMMA SyncRemovalStep ==
  ASSUME HandoffIInv, SyncRemoval
  PROVE  HandoffIInv'
<1>1. /\ pc = "rmlease.sync" /\ SyncDestination
      /\ UNCHANGED <<fs, routine, cur, todo, found, what, cut, forged, tampers, handles, pin>>
  BY DEF SyncRemoval, world, bounds
<1>2. routine = "retire" => \A r \in Record : Has(cur, r)
  BY <1>1 DEF HandoffIInv, SpotOK
<1>3. pc' = "rmlease"
  BY <1>2 DEF SyncRemoval, Goto
<1>4. fs[cur].place = "none" /\ disk'[cur].place = "none"
  BY <1>1, AtLease, SyncedParts DEF HandoffIInv, SpotOK
<1>5. SpotOK'
  BY <1>1, <1>3, <1>4 DEF SpotOK, Both, RecordSpots
<1> QED
  BY <1>1, <1>3, <1>5, DestinationStep
     DEF HandoffIInv, HandoffTypeOK, RoutineOK, RecordSpots, Removing

\* the refusal to go on,
LEMMA StopStep ==
  ASSUME HandoffIInv, Stop
  PROVE  HandoffIInv'
<1>1. /\ Return("failed") /\ cut' = cut \union {cur}
      /\ UNCHANGED <<fs, disk, forged, tampers, handles>>
  BY DEF Stop, world, bounds
<1> QED
  BY <1>1, AtLease, ReturnStep DEF HandoffIInv, HandoffTypeOK

\* a record,
LEMMA RemoveRecordStep ==
  ASSUME HandoffIInv, RemoveRecord
  PROVE  HandoffIInv'
<1>1. /\ pc = "rmlease" /\ disk' = disk
      /\ UNCHANGED <<pc, routine, cur, todo, found, what, cut, forged, tampers, handles, pin>>
  BY DEF RemoveRecord, call, world, bounds
<1>2. PICK r \in Record : /\ fs[cur].rec[r] # "none"
                          /\ fs' = [fs EXCEPT ![cur].rec[r] = "none"]
  BY DEF RemoveRecord, Entries
<1>3. At(fs', fs, cur, fs[cur].ldir, [fs[cur].rec EXCEPT ![r] = "none"], fs[cur].place,
         fs[cur].sealed, fs[cur].file)
  BY <1>2, AtLease, SetRecord
<1>4. fs[cur].rec \in [Record -> {"none", "tmp", "final"}]
  BY AtLease DEF LeaseStates
<1>5. LeaseOK(fs'[cur], disk'[cur])
  BY <1>1, <1>2, <1>3, <1>4, AtLease DEF LeaseOK, At, NoRecord, Needed, Record
<1>6. SpotOK'
  BY <1>1, <1>3 DEF HandoffIInv, SpotOK, At, Has, Both, RecordSpots
<1>7. cur \in handles \union {found} => Returned(cur)'
  BY <1>1, <1>3, <1>4, AtLease DEF HandoffIInv, SpotOK, Returned, At, Record
<1> QED
  BY <1>1, <1>3, <1>5, <1>6, <1>7, AtLease, LeaseStep
     DEF At, HandoffIInv, HandoffTypeOK, RoutineOK, RecordSpots, Live, Settled, Removing

\* and the lease directory.
LEMMA RemoveLeaseStep ==
  ASSUME HandoffIInv, RemoveLease
  PROVE  HandoffIInv'
<1>1. /\ pc = "rmlease" /\ pc' = "removed" /\ Entries(cur) = {}
      /\ UNCHANGED <<routine, cur, todo, found, what, cut, forged, tampers, handles, pin>>
  BY DEF RemoveLease, Goto, world, bounds
<1>2. fs[cur].rec \in [Record -> {"none", "tmp", "final"}]
  BY AtLease DEF LeaseStates
<1>3. fs[cur].rec = NoRecord
  BY <1>1, <1>2 DEF Entries, NoRecord
<1>4. At(fs', fs, cur, FALSE, NoRecord, fs[cur].place, fs[cur].sealed, fs[cur].file)
  BY <1>3, AtLease, SetDirectory DEF RemoveLease
<1>5. At(disk', disk, cur, disk[cur].ldir, NoRecord, disk[cur].place, disk[cur].sealed,
         disk[cur].file)
  BY <1>2, <1>3, AtLease, SetRecords DEF RemoveLease, SyncLease
<1>6. LeaseOK(fs'[cur], disk'[cur])
  BY <1>4, <1>5, AtLease DEF LeaseOK, At, NoRecord, Needed, Record
<1>7. SpotOK'
  BY <1>1, <1>4, <1>5 DEF HandoffIInv, SpotOK, At, Both, RecordSpots
<1>8. cur \in handles \union {found} => Returned(cur)'
  BY <1>1, <1>4 DEF HandoffIInv, SpotOK, Returned, At, NoRecord, Record
<1> QED
  BY <1>1, <1>4, <1>5, <1>6, <1>7, <1>8, AtLease, LeaseStep
     DEF At, HandoffIInv, HandoffTypeOK, RoutineOK, RecordSpots, Live, Settled, Removing

\* A lease that is gone is a lease as good as new.
LEMMA RemovedStep ==
  ASSUME HandoffIInv, Removed
  PROVE  HandoffIInv'
<1>1. /\ pc = "removed" /\ SyncDestination /\ fs' = fs
      /\ forged' \subseteq forged /\ UNCHANGED tampers
      /\ cut' = IF fs[cur].place = "none" THEN cut \ {cur} ELSE cut
  BY DEF Removed, bounds
<1>2. /\ ~ fs[cur].ldir /\ fs[cur].rec = NoRecord
      /\ cur \in handles \union {found} => fs[cur].place # "published"
      /\ cur \notin cut => fs[cur].place = "none"
  BY <1>1, AtLease DEF HandoffIInv, SpotOK, Both, LeaseOK
<1>3. Synced(fs[cur], disk[cur], disk'[cur])
  BY <1>1, AtLease, SyncedEach DEF HandoffIInv
<1>4. fs[cur].place = "none" => WholeLease(fs[cur], disk'[cur], tampers = 0)
  <2> SUFFICES ASSUME fs[cur].place = "none" PROVE WholeLease(fs[cur], disk'[cur], tampers = 0)
    OBVIOUS
  <2>1. ~ fs[cur].sealed
    BY AtLease DEF LeaseOK
  <2>2. /\ ~ disk'[cur].ldir /\ disk'[cur].rec = NoRecord /\ disk'[cur].place = "none"
        /\ ~ disk'[cur].sealed
    BY <1>2, <1>3 DEF Synced
  <2>3. \A r \in {"intent", "stage", "files", "published", "retiring"} :
           ~ Exists(fs[cur], disk'[cur], r)
    BY <1>2, <2>2 DEF Exists, NoRecord, Record
  <2> QED
    BY <1>2, <2>1, <2>2, <2>3 DEF WholeLease
<1>5. HandoffTypeOK' /\ RoutineOK' /\ SpotOK' /\ (routine' = "stage" => cur' \notin handles')
      /\ pc' \notin Removing /\ routine' # "stage"
  <2>1. CASE routine = "reconcile"
    <3>1. /\ pc' = "reconcile"
          /\ UNCHANGED <<routine, cur, todo, found, what, pin, handles>>
      BY <2>1 DEF Removed, Goto
    <3>2. HandoffTypeOK'
      BY <1>1, <3>1, SyncedParts DEF HandoffIInv, HandoffTypeOK
    <3> QED
      BY <2>1, <3>1, <3>2 DEF RoutineOK, SpotOK, RecordSpots, Removing
  <2>2. CASE routine # "reconcile"
    <3>1. /\ pc' = "idle" /\ routine' = "none" /\ todo' = {} /\ found' = 0 /\ what' = "intent"
          /\ pin' = "own" /\ cur' = 1 /\ handles' \subseteq handles
      BY <2>2 DEF Removed, Return
    <3>2. 1 \in Lease
      BY LeaseAssumption DEF Lease
    <3>3. HandoffTypeOK'
      BY <1>1, <3>1, <3>2, SyncedParts DEF HandoffIInv, HandoffTypeOK, Record
    <3> QED
      BY <3>1, <3>3 DEF RoutineOK, SpotOK, RecordSpots, Removing
  <2> QED
    BY <2>1, <2>2
<1>6. WholeOK'
  <2> SUFFICES ASSUME NEW t \in Lease, t \notin cut' PROVE WholeLease(fs[t], disk'[t], tampers = 0)
    BY <1>1, <1>5 DEF WholeOK, Settled
  <2>1. CASE t = cur
    BY <1>1, <1>2, <1>4, <2>1
  <2>2. CASE t # cur
    <3>1. Settled(t)
      BY <1>1, <2>2 DEF Settled
    <3> QED
      BY <1>1, <3>1, SyncedParts
  <2> QED
    BY <2>1, <2>2
<1>7. ReturnedOK'
  <2>1. found' \in {0, found} /\ handles' \subseteq handles
    BY DEF Removed, Return
  <2> QED
    BY <1>1, <1>5, <2>1, SyncedParts, AtLease DEF HandoffIInv, ReturnedOK
<1>8. QueueOK'
  <2>1. \A t \in Lease : (Live(t)' => Live(t)) /\ (Live(t)' => t # cur)
    BY <1>1, <1>2, SyncedParts DEF Live
  <2>2. (\A t, u \in Lease \ cut : Live(t) /\ Live(u) => t = u)'
    <3> SUFFICES ASSUME NEW t \in Lease, NEW u \in Lease, t \notin cut', u \notin cut',
                        Live(t)', Live(u)'
                 PROVE  t = u
      OBVIOUS
    <3>1. t # cur /\ u # cur /\ Live(t) /\ Live(u)
      BY <2>1
    <3> QED
      BY <1>1, <3>1 DEF HandoffIInv, QueueOK
  <2>3. CASE routine = "reconcile"
    <3>1. /\ pc' = "reconcile"
          /\ UNCHANGED <<routine, cur, todo, found>>
      BY <2>3 DEF Removed, Goto
    <3>2. \A u \in Lease : fs[u].ldir => u \in todo \union {found}
      BY <1>2, <2>3 DEF HandoffIInv, QueueOK
    <3> QED
      BY <1>1, <2>2, <3>1, <3>2 DEF HandoffIInv, QueueOK
  <2>4. CASE routine # "reconcile"
    <3>1. routine' = "none" /\ found' = 0
      BY <2>4 DEF Removed, Return
    <3> QED
      BY <2>2, <3>1 DEF QueueOK
  <2> QED
    BY <2>3, <2>4
<1>9. EachOK'
  BY <1>1, SyncedParts
<1> QED
  BY <1>5, <1>6, <1>7, <1>8, <1>9 DEF HandoffIInv

-----------------------------------------------------------------------------
\* A step that changes no file.
LEMMA QuietStep ==
  ASSUME HandoffIInv, UNCHANGED <<fs, disk, forged, tampers, cut, pin, handles>>,
         cur' \in Lease, todo' \subseteq Lease, what' \in Record, found' \in {0, found},
         pc \notin Removing,
         routine' = "stage" => routine = "stage" /\ cur' = cur,
         RoutineOK', SpotOK', QueueOK'
  PROVE  HandoffIInv'
<1>1. HandoffTypeOK'
  BY DEF HandoffIInv, HandoffTypeOK
<1>2. EachOK'
  BY DEF HandoffIInv, EachOK
<1>3. WholeOK'
  <2> SUFFICES ASSUME NEW t \in Lease, Settled(t)' PROVE WholeLease(fs[t], disk[t], tampers = 0)
    BY DEF WholeOK
  <2>1. Settled(t)
    BY DEF Settled
  <2> QED
    BY <2>1 DEF HandoffIInv, WholeOK
<1>4. ReturnedOK'
  <2>1. routine' = "stage" => cur' \notin handles'
    BY DEF HandoffIInv, ReturnedOK
  <2> SUFFICES ASSUME NEW t \in Lease, t \in handles \union {found'} PROVE Returned(t)'
    BY <2>1 DEF ReturnedOK
  <2>2. Returned(t)
    BY AtLease DEF HandoffIInv, ReturnedOK
  <2> QED
    BY <2>2, ReturnedSame
<1> QED
  BY <1>1, <1>2, <1>3, <1>4 DEF HandoffIInv

\* The steps of the reconciliation: the call begins,
LEMMA StageStep ==
  ASSUME HandoffIInv, Stage
  PROVE  HandoffIInv'
<1>1. /\ pc = "idle" /\ pc' = "reconcile" /\ routine' = "reconcile"
      /\ todo' = {t \in Lease : fs[t].ldir}
      /\ UNCHANGED <<fs, disk, forged, tampers, cut, pin, handles, cur, found, what>>
  BY DEF Stage, Goto, world, bounds
<1>2. found = 0 /\ pc \notin Removing /\ cur \in Lease /\ what \in Record
  BY <1>1 DEF HandoffIInv, HandoffTypeOK, RoutineOK, QueueOK, StageSpots, RecordSpots, Removing
<1>3. RoutineOK' /\ SpotOK'
  BY <1>1 DEF RoutineOK, SpotOK, RecordSpots
<1>4. QueueOK'
  <2>1. \A t \in Lease : Live(t)' <=> Live(t)
    BY <1>1 DEF Live
  <2> QED
    BY <1>1, <1>2, <2>1 DEF HandoffIInv, QueueOK
<1> QED
  BY <1>1, <1>2, <1>3, <1>4, QuietStep

\* looks at a lease: without an intent it is not published, for a handle
\* or a recovery would know it,
LEMMA ExamineStep ==
  ASSUME HandoffIInv, Examine
  PROVE  HandoffIInv'
<1>1. PICK t \in todo :
        /\ pc = "reconcile" /\ todo' = todo \ {t} /\ cur' = t
        /\ \/ pc' = "partial" /\ Has(t, "intent")
           \/ pc' = "rmlease" /\ ~ Has(t, "intent")
           \/ pc' = "refuse"
        /\ UNCHANGED <<routine, found, what, pin>>
        /\ UNCHANGED <<fs, disk, forged, tampers, cut, handles>>
  BY DEF Examine, Goto, world, bounds
<1>2. /\ t \in Lease /\ todo' \subseteq Lease /\ what \in Record /\ routine = "reconcile"
      /\ pc \notin Removing
  BY <1>1 DEF HandoffIInv, HandoffTypeOK, RoutineOK, StageSpots, RecordSpots, Removing
<1>3. RoutineOK'
  BY <1>1, <1>2 DEF RoutineOK, RecordSpots, Removing
<1>4. ASSUME ~ Has(t, "intent")
      PROVE  /\ t \in handles \union {found} => fs[t].place # "published"
             /\ t \notin cut => Both(t, "none")
  <2>1. t \in handles \union {found} => Returned(t)
    BY <1>2 DEF HandoffIInv, ReturnedOK
  <2>2. t \notin cut => WholeLease(fs[t], disk[t], tampers = 0)
    BY <1>1, <1>2 DEF HandoffIInv, WholeOK, Settled
  <2> QED
    BY <1>4, <2>1, <2>2 DEF Returned, WholeLease, Both, Durable, Has
<1>5. SpotOK'
  BY <1>1, <1>2, <1>4 DEF SpotOK, RecordSpots, Has, Both
<1>6. QueueOK'
  <2>1. \A u \in Lease : Live(u)' <=> Live(u)
    BY <1>1 DEF Live
  <2> QED
    BY <1>1, <1>2, <2>1 DEF HandoffIInv, QueueOK
<1> QED
  BY <1>1, <1>2, <1>3, <1>5, <1>6, QuietStep

\* An unfinished record is removed.
LEMMA DropPartial ==
  ASSUME HandoffIInv, pc \in {"partial", "retire"}, pc' = pc,
         \E r \in Partial(cur) :
            /\ fs' = [fs EXCEPT ![cur].rec[r] = "none"]
            /\ disk' = [disk EXCEPT ![cur].rec = [fs[cur].rec EXCEPT ![r] = "none"]],
         UNCHANGED <<routine, cur, todo, found, what, cut, forged, tampers, handles, pin>>
  PROVE  HandoffIInv'
<1>1. PICK r \in Record \ {"intent"} :
        /\ fs[cur].rec[r] = "tmp" /\ fs' = [fs EXCEPT ![cur].rec[r] = "none"]
        /\ disk' = [disk EXCEPT ![cur].rec = [fs[cur].rec EXCEPT ![r] = "none"]]
  BY DEF Partial
<1>2. At(fs', fs, cur, fs[cur].ldir, [fs[cur].rec EXCEPT ![r] = "none"], fs[cur].place,
         fs[cur].sealed, fs[cur].file)
  BY <1>1, AtLease, SetRecord
<1>3. fs[cur].rec \in [Record -> {"none", "tmp", "final"}]
  BY AtLease DEF LeaseStates
<1>4. [fs[cur].rec EXCEPT ![r] = "none"] \in [Record -> {"none", "tmp", "final"}]
  BY <1>3
<1>5. At(disk', disk, cur, disk[cur].ldir, [fs[cur].rec EXCEPT ![r] = "none"], disk[cur].place,
         disk[cur].sealed, disk[cur].file)
  BY <1>1, <1>4, AtLease, SetRecords
<1>6. LeaseOK(fs'[cur], disk'[cur])
  BY <1>1, <1>2, <1>3, <1>5, AtLease DEF LeaseOK, At, NoRecord, Needed, Record
<1>7. WholeLease(fs[cur], disk[cur], tampers = 0)
        => WholeLease(fs'[cur], disk'[cur], tampers = 0)
  BY <1>1, <1>2, <1>3, <1>5, AtLease DEF WholeLease, Exists, Durable, At, Record
<1>8. SpotOK'
  BY <1>1, <1>2, <1>3 DEF HandoffIInv, SpotOK, At, Has, RecordSpots, Record
<1>9. Returned(cur) => Returned(cur)'
  BY <1>1, <1>2, <1>3, <1>5 DEF Returned, At, Has, Firm, Durable, Needed, Record
<1> QED
  BY <1>1, <1>2, <1>5, <1>6, <1>7, <1>8, <1>9, AtLease, LeaseStep
     DEF At, HandoffIInv, HandoffTypeOK, RoutineOK, RecordSpots, Live, Settled, Removing

\* all unfinished records are,
LEMMA FinishStep ==
  ASSUME HandoffIInv, Finish
  PROVE  HandoffIInv'
<1>1. /\ pc = "partial" /\ routine = "reconcile"
      /\ UNCHANGED <<routine, cur, todo, found, what, cut, forged, tampers, handles, pin>>
      /\ Has(cur, "intent")
  BY DEF Finish, world, bounds, HandoffIInv, SpotOK, RoutineOK, StageSpots, RecordSpots, Removing
<1>2. CASE Partial(cur) = {}
  <2>1. pc' = "decide" /\ UNCHANGED <<fs, disk>>
    BY <1>2 DEF Finish, Goto
  <2>2. SpotOK'
    BY <1>1, <2>1 DEF SpotOK, RecordSpots, Has
  <2> QED
    BY <1>1, <2>1, <2>2, AtLease, LeaseStep
       DEF HandoffIInv, HandoffTypeOK, RoutineOK, RecordSpots, Live, Settled, Removing, Returned,
           Has, Firm, Durable
<1>3. CASE Partial(cur) # {}
  <2>1. /\ pc' = pc
        /\ \E r \in Partial(cur) :
             /\ fs' = [fs EXCEPT ![cur].rec[r] = "none"]
             /\ disk' = [disk EXCEPT ![cur].rec = [fs[cur].rec EXCEPT ![r] = "none"]]
    BY <1>3 DEF Finish
  <2> QED
    BY <1>1, <2>1, DropPartial
<1> QED
  BY <1>2, <1>3

\* The lease that a restart recovers is as durable as one that was returned.
LEMMA RecoveredStep ==
  ASSUME HandoffIInv, pc = "decide", Recovered(cur), SyncDestination, found' = cur,
         pc' = "reconcile",
         UNCHANGED <<fs, routine, cur, todo, what, cut, forged, tampers, handles, pin>>
  PROVE  HandoffIInv'
<1>1. /\ routine = "reconcile" /\ Has(cur, "intent") /\ found = 0
      /\ cur \in Lease /\ 0 \notin Lease /\ fs[cur].ldir /\ cur \notin todo
  <2>1. Has(cur, "intent") /\ cur \in Lease /\ LeaseOK(fs[cur], disk[cur])
    BY AtLease DEF HandoffIInv, SpotOK
  <2>2. fs[cur].ldir
    BY <2>1 DEF Has, LeaseOK, NoRecord, Record
  <2> QED
    BY <2>1, <2>2, AtLease
       DEF HandoffIInv, RoutineOK, StageSpots, RecordSpots, Removing, Recovered, QueueOK
<1>2. /\ fs[cur].place = "published" /\ fs[cur].sealed
      /\ \A r \in Needed : Has(cur, r)
      /\ \A f \in File : fs[cur].file[f] = "own"
  <2>1. cur \in Named(cur)
    BY DEF Recovered, Published
  <2> QED
    BY <1>1, <2>1 DEF Recovered, Published, Named, Exact, Needed
<1>3. Synced(fs[cur], disk[cur], disk'[cur]) /\ LeaseOK(fs[cur], disk[cur])
  BY <1>1, SyncedEach, AtLease DEF HandoffIInv
<1>4. Returned(cur)'
  BY <1>1, <1>2, <1>3 DEF Returned, Synced, LeaseOK, Has, Firm, Durable
<1>5. HandoffTypeOK'
  BY SyncedParts, <1>1 DEF HandoffIInv, HandoffTypeOK
<1>6. RoutineOK' /\ SpotOK'
  BY <1>1 DEF RoutineOK, SpotOK, RecordSpots
<1>7. WholeOK'
  <2> SUFFICES ASSUME NEW t \in Lease, Settled(t)' PROVE WholeLease(fs[t], disk'[t], tampers = 0)
    BY DEF WholeOK
  <2>1. Settled(t)
    BY DEF Settled, Removing
  <2> QED
    BY <2>1, SyncedParts
<1>8. ReturnedOK'
  <2> SUFFICES ASSUME NEW t \in Lease, t \in handles \union {cur} PROVE Returned(t)'
    BY <1>1 DEF ReturnedOK
  <2>1. CASE t = cur
    BY <1>4, <2>1
  <2>2. CASE t # cur
    BY <2>2, SyncedParts DEF HandoffIInv, ReturnedOK
  <2> QED
    BY <2>1, <2>2
<1>9. QueueOK'
  <2>1. \A t \in Lease : Live(t)' => Live(t)
    BY SyncedParts DEF Live
  <2>2. \A u \in Lease : fs[u].ldir => u \in todo \union {cur}
    BY <1>1 DEF HandoffIInv, QueueOK
  <2> QED
    BY <1>1, <2>1, <2>2 DEF HandoffIInv, QueueOK
<1> QED
  BY <1>5, <1>6, <1>7, <1>8, <1>9, SyncedParts DEF HandoffIInv

\* A removal of the files of a handoff begins.
LEMMA UnsealStep ==
  ASSUME HandoffIInv, fs' = [fs EXCEPT ![cur].sealed = FALSE], disk' = disk, pc' = "rmfiles",
         UNCHANGED <<routine, cur, todo, found, what, cut, forged, tampers, handles, pin>>,
         routine # "none", pc # "reconcile",
         routine = "retire" => \A r \in Record : Has(cur, r)
  PROVE  HandoffIInv'
<1>1. At(fs', fs, cur, fs[cur].ldir, fs[cur].rec, fs[cur].place, FALSE, fs[cur].file)
  BY AtLease, SetSealed
<1>2. LeaseOK(fs'[cur], disk'[cur])
  BY <1>1, AtLease DEF LeaseOK, At
<1>3. SpotOK'
  BY <1>1 DEF SpotOK, At, Has, RecordSpots
<1>4. Returned(cur) => Returned(cur)'
  BY <1>1 DEF Returned, At, Has, Firm, Durable
<1> QED
  BY <1>1, <1>2, <1>3, <1>4, AtLease, LeaseStep
     DEF At, HandoffIInv, HandoffTypeOK, RoutineOK, RecordSpots, Live, Settled, Removing

\* and the reconciliation takes one of its branches.
LEMMA DecideStep ==
  ASSUME HandoffIInv, Decide
  PROVE  HandoffIInv'
<1>1. /\ pc = "decide" /\ routine = "reconcile" /\ Has(cur, "intent")
      /\ UNCHANGED <<routine, cur, todo, cut, forged, tampers, handles>>
      /\ pin = "own" /\ what \in Record /\ cur \in Lease /\ todo \subseteq Lease
  BY DEF Decide, world, bounds, HandoffIInv, SpotOK, RoutineOK, StageSpots, RecordSpots, Removing,
         HandoffTypeOK
<1>2. \/ /\ DropsStage(cur) \/ Superseded(cur)
         /\ pc' = "rmfiles" /\ fs' = [fs EXCEPT ![cur].sealed = FALSE]
         /\ pin' = Origin(cur) /\ UNCHANGED <<disk, what, found>>
      \/ /\ Published(cur) /\ ~ Has(cur, "published")
         /\ what' = "published" /\ pc' = "tmp" /\ UNCHANGED <<pin, fs, disk, found>>
      \/ /\ Recovered(cur)
         /\ SyncDestination /\ found' = cur /\ pc' = "reconcile" /\ UNCHANGED <<pin, fs, what>>
      \/ DropsLease(cur) /\ pc' = "rmlease" /\ UNCHANGED <<pin, fs, disk, what, found>>
      \/ pc' = "refuse" /\ UNCHANGED <<pin, fs, disk, what, found>>
  BY DEF Decide, Goto
<1>3. CASE /\ DropsStage(cur) \/ Superseded(cur)
           /\ pc' = "rmfiles" /\ fs' = [fs EXCEPT ![cur].sealed = FALSE]
           /\ pin' = Origin(cur) /\ UNCHANGED <<disk, what, found>>
  <2>1. cur \notin forged
    BY <1>3 DEF DropsStage, Superseded, Published, Authentic
  <2>2. pin' = pin
    BY <1>1, <1>3, <2>1 DEF Origin
  <2> QED
    BY <1>1, <1>3, <2>2, UnsealStep
<1>4. CASE /\ Published(cur) /\ ~ Has(cur, "published")
           /\ what' = "published" /\ pc' = "tmp" /\ UNCHANGED <<pin, fs, disk, found>>
  <2>1. cur \in Named(cur) /\ fs[cur].sealed
    BY <1>4 DEF Published
  <2>2. SpotOK'
    BY <1>1, <1>4, <2>1 DEF SpotOK, RecordSpots, Ready, Named, Has
  <2> QED
    BY <1>1, <1>4, <2>2, AtLease, LeaseStep
       DEF HandoffIInv, HandoffTypeOK, RoutineOK, RecordSpots, Live, Settled, Removing, Returned,
           Has, Firm, Durable, Record
<1>5. CASE /\ Recovered(cur)
           /\ SyncDestination /\ found' = cur /\ pc' = "reconcile" /\ UNCHANGED <<pin, fs, what>>
  BY <1>1, <1>5, RecoveredStep
<1>6. CASE DropsLease(cur) /\ pc' = "rmlease" /\ UNCHANGED <<pin, fs, disk, what, found>>
  <2>1. fs[cur].place = "none"
    <3>1. cur \notin Named(cur) /\ fs[cur].place # "stage"
      BY <1>6 DEF DropsLease, Staged
    <3> QED
      BY <1>1, <3>1, AtLease DEF Named, LeaseStates
  <2>2. cur \notin cut => Both(cur, "none")
    BY <1>1, <2>1, AtLease DEF WholeLease, Both, Removing
  <2>3. SpotOK'
    BY <1>1, <1>6, <2>1, <2>2 DEF SpotOK, RecordSpots, Both
  <2> QED
    BY <1>1, <1>6, <2>3, AtLease, LeaseStep
       DEF HandoffIInv, HandoffTypeOK, RoutineOK, RecordSpots, Live, Settled, Removing, Returned,
           Has, Firm, Durable
<1>7. CASE pc' = "refuse" /\ UNCHANGED <<pin, fs, disk, what, found>>
  <2>1. SpotOK'
    BY <1>1, <1>7 DEF SpotOK, RecordSpots
  <2> QED
    BY <1>1, <1>7, <2>1, AtLease, LeaseStep
       DEF HandoffIInv, HandoffTypeOK, RoutineOK, RecordSpots, Live, Settled, Removing, Returned,
           Has, Firm, Durable
<1> QED
  BY <1>2, <1>3, <1>4, <1>5, <1>6, <1>7

\* The call refuses,
LEMMA RefuseStep ==
  ASSUME HandoffIInv, Refuse
  PROVE  HandoffIInv'
<1>1. /\ pc = "refuse" /\ Return(why)
      /\ UNCHANGED <<fs, disk, cut, forged, tampers, handles>>
  BY DEF Refuse, world, bounds
<1> QED
  BY <1>1, ReturnStep DEF HandoffIInv, HandoffTypeOK, Removing

\* or returns what it recovered,
LEMMA AnswerStep ==
  ASSUME HandoffIInv, Answer
  PROVE  HandoffIInv'
<1>1. /\ pc = "reconcile" /\ found # 0 /\ Return("ok") /\ handles' = handles \union {found}
      /\ UNCHANGED <<fs, disk, cut, forged, tampers>>
  BY DEF Answer, world, bounds
<1> QED
  BY <1>1, ReturnStep DEF HandoffIInv, HandoffTypeOK, Removing

\* A new lease is made when no other one stands.
LEMMA NewLease ==
  ASSUME HandoffIInv, pc = "reconcile", todo = {}, found = 0, NEW t \in Lease,
         fs[t] = Gone, disk[t] = Gone, t \notin handles,
         cur' = t, fs' = [fs EXCEPT ![t].ldir = TRUE], routine' = "stage", pc' = "lease.sync",
         UNCHANGED <<disk, todo, found, what, cut, forged, tampers, handles, pin>>
  PROVE  HandoffIInv'
<1>1. At(fs', fs, t, TRUE, NoRecord, "none", FALSE, NoFile) /\ routine = "reconcile"
  <2>1. routine = "reconcile"
    BY DEF HandoffIInv, RoutineOK, StageSpots, RecordSpots, Removing
  <2>2. At(fs', fs, t, TRUE, fs[t].rec, fs[t].place, fs[t].sealed, fs[t].file)
    BY SetDirectory, AtLease
  <2>3. /\ fs[t].rec = NoRecord /\ fs[t].place = "none" /\ fs[t].sealed = FALSE
        /\ fs[t].file = NoFile
    BY DEF Gone
  <2> QED
    BY <2>1, <2>2, <2>3
<1>2. HandoffTypeOK'
  BY <1>1 DEF HandoffIInv, HandoffTypeOK, At
<1>3. RoutineOK' /\ SpotOK'
  BY <1>1 DEF RoutineOK, SpotOK, StageSpots, RecordSpots, At
<1>4. LeaseOK(fs'[t], disk'[t])
  BY <1>1 DEF LeaseOK, At, NoFile, Gone, NoRecord
<1>5. WholeLease(fs'[t], disk'[t], tampers = 0)
  <2>1. \A r \in {"intent", "stage", "files", "published", "retiring"} :
           ~ Exists(fs'[t], disk'[t], r)
    BY <1>1 DEF Exists, At, Gone, NoRecord, Record
  <2> QED
    BY <1>1, <2>1 DEF WholeLease, At, Gone
<1>6. EachOK'
  BY <1>1, <1>4, EachFrame DEF HandoffIInv, At
<1>7. WholeOK'
  <2>1. \A u \in Lease \ {t} : fs'[u] = fs[u] /\ disk'[u] = disk[u] /\ (Settled(u)' => Settled(u))
    BY <1>1 DEF At, Settled, Removing
  <2> QED
    BY <1>5, <2>1, WholeFrame DEF HandoffIInv
<1>8. ReturnedOK'
  BY <1>1, ReturnedFrame, AtLease DEF HandoffIInv, At
<1>9. QueueOK'
  <2>1. \A u \in Lease : ~ fs[u].ldir
    BY <1>1, AtLease DEF HandoffIInv, QueueOK
  <2>2. \A u \in Lease \ cut : ~ Live(u)
    BY <2>1 DEF HandoffIInv, WholeOK, WholeLease, Settled, Removing, Live
  <2>3. \A u \in Lease \ {t} : Live(u)' = Live(u)
    BY <1>1 DEF At, Live
  <2> QED
    BY <2>2, <2>3 DEF QueueOK
<1> QED
  BY <1>2, <1>3, <1>6, <1>7, <1>8, <1>9 DEF HandoffIInv

\* or makes a lease.
LEMMA MakeLeaseStep ==
  ASSUME HandoffIInv, MakeLease
  PROVE  HandoffIInv'
<1> DEFINE free == {t \in Lease : fs[t] = Gone /\ disk[t] = Gone /\ t \notin handles}
<1>1. /\ pc = "reconcile" /\ todo = {} /\ found = 0 /\ routine = "reconcile"
      /\ UNCHANGED <<disk, cut, forged, tampers, handles>>
      /\ what \in Record /\ cur \in Lease
  BY DEF MakeLease, world, bounds, HandoffIInv, HandoffTypeOK, RoutineOK, StageSpots, RecordSpots,
         Removing
<1>2. CASE \E u \in Lease : fs[u].place = "published" /\ job[u] = task
  <2>1. pc' = "refuse" /\ UNCHANGED <<routine, cur, todo, found, what, pin, fs>>
    BY <1>2 DEF MakeLease, Goto
  <2>2. RoutineOK' /\ SpotOK'
    BY <1>1, <2>1 DEF RoutineOK, SpotOK, RecordSpots
  <2>3. QueueOK'
    <3>1. \A u \in Lease : Live(u)' <=> Live(u)
      BY <1>1, <2>1 DEF Live
    <3> QED
      BY <1>1, <2>1, <3>1 DEF HandoffIInv, QueueOK
  <2> QED
    BY <1>1, <2>1, <2>2, <2>3, QuietStep DEF Removing
<1>3. CASE ~ (\E u \in Lease : fs[u].place = "published" /\ job[u] = task) /\ free = {}
  <2>1. Return("failed") /\ fs' = fs
    BY <1>3 DEF MakeLease
  <2> QED
    BY <1>1, <2>1, ReturnStep DEF HandoffIInv, HandoffTypeOK, Removing
<1>4. CASE ~ (\E u \in Lease : fs[u].place = "published" /\ job[u] = task) /\ free # {}
  <2> DEFINE t == CHOOSE u \in free : TRUE
  <2>1. t \in free
    BY <1>4
  <2>2. /\ cur' = t /\ fs' = [fs EXCEPT ![t].ldir = TRUE]
        /\ routine' = "stage" /\ pc' = "lease.sync"
        /\ UNCHANGED <<todo, found, what, pin>>
    BY <1>4 DEF MakeLease, Goto
  <2> HIDE DEF t
  <2> QED
    BY <1>1, <2>1, <2>2, NewLease
<1> QED
  BY <1>2, <1>3, <1>4

-----------------------------------------------------------------------------
\* Where only a staging call is.
LEMMA StagingSpot ==
  ASSUME HandoffIInv, pc \in StageSpots \/ (pc \in RecordSpots /\ what \in Needed)
  PROVE  /\ routine = "stage" /\ pc \notin Removing /\ found = 0 /\ cur \notin handles
         /\ Settled(cur) /\ WholeLease(fs[cur], disk[cur], tampers = 0)
<1>1. routine = "stage" /\ pc \notin Removing
  BY DEF HandoffIInv, RoutineOK, StageSpots, RecordSpots, Removing, Needed
<1> QED
  BY <1>1, AtLease DEF Settled

\* The directories that a staging call makes are synced.
LEMMA SyncMadeStep ==
  ASSUME HandoffIInv, SyncMade
  PROVE  HandoffIInv'
<1>1. /\ SyncDestination
      /\ UNCHANGED <<fs, routine, cur, todo, found, cut, forged, tampers, handles, pin>>
      /\ what \in Record /\ pc \in StageSpots
  BY DEF SyncMade, world, bounds, HandoffIInv, HandoffTypeOK, StageSpots
<1>2. routine = "stage" /\ WholeLease(fs[cur], disk'[cur], tampers = 0)
  BY <1>1, StagingSpot, SyncedParts, AtLease
<1>3. /\ disk'[cur].place = fs[cur].place /\ disk'[cur].ldir = fs[cur].ldir
      /\ fs[cur].ldir => disk'[cur].rec = disk[cur].rec
  BY <1>1, SyncedParts, AtLease
<1>4. CASE pc = "lease.sync"
  <2>1. pc' = "tmp" /\ what' = "intent"
    BY <1>4 DEF SyncMade, Goto
  <2>2. SpotOK'
    BY <1>1, <1>3, <1>4, <2>1 DEF HandoffIInv, SpotOK, RecordSpots, Ready
  <2> QED
    BY <1>1, <1>2, <1>4, <2>1, <2>2, DestinationStep DEF RoutineOK, RecordSpots, Removing, Record
<1>5. CASE pc = "stage.sync"
  <2>1. pc' = "tmp" /\ what' = "stage"
    BY <1>5 DEF SyncMade, Goto
  <2>2. fs[cur].place = "stage"
    BY <1>5 DEF HandoffIInv, SpotOK
  <2>3. SpotOK'
    BY <1>1, <1>2, <1>3, <2>1, <2>2 DEF SpotOK, RecordSpots, Ready, Both, Firm, WholeLease
  <2> QED
    BY <1>1, <1>2, <1>5, <2>1, <2>3, DestinationStep DEF RoutineOK, RecordSpots, Removing, Record
<1>6. CASE pc = "intent.sync"
  <2>1. pc' = "mkstage" /\ what' = what
    BY <1>6 DEF SyncMade, Goto
  <2>2. fs[cur].place = "none" /\ Firm(cur, "intent")
    BY <1>6 DEF HandoffIInv, SpotOK
  <2>3. fs[cur].ldir
    BY <2>2, AtLease DEF Firm, Durable, LeaseOK, NoRecord, Record
  <2>4. SpotOK'
    BY <1>1, <1>3, <2>1, <2>2, <2>3 DEF SpotOK, RecordSpots, Firm, Durable
  <2> QED
    BY <1>1, <1>2, <1>6, <2>1, <2>4, DestinationStep
       DEF RoutineOK, RecordSpots, StageSpots, Removing
<1> QED
  BY <1>4, <1>5, <1>6 DEF SyncMade

\* The record that may be written next keeps the order in which they become
\* durable.
LEMMA WriteRecord ==
  ASSUME HandoffIInv, pc \in RecordSpots, NEW v \in {"tmp", "final"},
         fs' = [fs EXCEPT ![cur].rec[what] = v], disk' = disk,
         v = "tmp" => fs[cur].rec[what] # "final",
         UNCHANGED <<routine, cur, todo, found, what, cut, forged, tampers, handles, pin>>,
         pc' \in {"rename", "record.sync"}, pc' = "record.sync" => v = "final"
  PROVE  HandoffIInv'
<1>1. Ready(what) /\ what \in Record /\ pc \notin Removing /\ pc # "reconcile"
  BY DEF HandoffIInv, HandoffTypeOK, SpotOK, RecordSpots, Removing
<1>2. At(fs', fs, cur, fs[cur].ldir, [fs[cur].rec EXCEPT ![what] = v], fs[cur].place,
         fs[cur].sealed, fs[cur].file)
  BY <1>1, AtLease, SetRecord
<1>3. fs[cur].rec \in [Record -> {"none", "tmp", "final"}]
  BY AtLease DEF LeaseStates
<1>4. /\ fs'[cur].rec[what] = v
      /\ \A r \in Record \ {what} : fs'[cur].rec[r] = fs[cur].rec[r]
      /\ fs'[cur].ldir = fs[cur].ldir /\ fs'[cur].place = fs[cur].place
      /\ fs'[cur].sealed = fs[cur].sealed /\ fs'[cur].file = fs[cur].file
  BY <1>1, <1>2, <1>3 DEF At
<1>5. fs[cur].ldir /\ (what \in Needed => fs[cur].place # "published")
  <2>1. fs[cur].rec # NoRecord => fs[cur].ldir
    BY AtLease DEF LeaseOK
  <2>2. \A r \in Record : fs[cur].rec[r] = "final" => fs[cur].ldir
    BY <2>1 DEF NoRecord
  <2> QED
    BY <1>1, <2>2 DEF Ready, Both, Firm, Durable, Has, Record, Needed
<1>6. LeaseOK(fs'[cur], disk'[cur])
  BY <1>1, <1>4, <1>5, AtLease DEF LeaseOK, Needed, Record
<1>7. WholeLease(fs[cur], disk[cur], tampers = 0)
        => WholeLease(fs'[cur], disk'[cur], tampers = 0)
  <2> SUFFICES ASSUME WholeLease(fs[cur], disk[cur], tampers = 0)
               PROVE  WholeLease(fs'[cur], disk[cur], tampers = 0)
    OBVIOUS
  <2> DEFINE x == fs[cur]  y == disk[cur]  z == fs'[cur]
  <2>1. \A r \in Record : (Exists(z, y, r) => Exists(x, y, r) \/ r = what)
                          /\ (Durable(x, y, r) => Durable(z, y, r))
    BY <1>4 DEF Exists, Durable
  <2>2. CASE what = "intent"
    BY <1>1, <1>4, <2>1, <2>2 DEF WholeLease, Ready, Record
  <2>3. CASE what = "stage"
    BY <1>1, <1>4, <2>1, <2>3 DEF WholeLease, Ready, Record, Both, Firm
  <2>4. CASE what = "files"
    BY <1>1, <1>4, <2>1, <2>4 DEF WholeLease, Ready, Record, Both, Firm
  <2>5. CASE what = "published"
    BY <1>1, <1>4, <2>1, <2>5 DEF WholeLease, Ready, Record
  <2>6. CASE what = "retiring"
    <3>1. Has(cur, "published")
      BY <1>1, <2>6 DEF Ready, Record
    <3>2. Exists(x, y, "published")
      BY <3>1 DEF Has, Exists
    <3> QED
      BY <1>4, <2>1, <2>6, <3>2 DEF WholeLease, Record
  <2> QED
    BY <1>1, <2>2, <2>3, <2>4, <2>5, <2>6 DEF Record
<1>8. Ready(what)'
  BY <1>1, <1>4 DEF Ready, Both, Firm, Durable, Has, Record
<1>9. SpotOK'
  BY <1>4, <1>8 DEF SpotOK, RecordSpots, Has
<1>10. cur \in handles \union {found} => Returned(cur)'
  <2>1. cur \in handles \union {found} => what \notin Needed /\ Returned(cur)
    BY <1>1, StagingSpot, AtLease
  <2> QED
    BY <1>1, <1>4, <2>1 DEF Returned, Has, Firm, Durable, Needed, Record
<1>11. RoutineOK' /\ pc' \notin Removing /\ pc' # "reconcile"
  BY DEF HandoffIInv, RoutineOK, StageSpots, RecordSpots, Removing
<1>12. Settled(cur)' => WholeLease(fs'[cur], disk'[cur], tampers = 0)
  BY <1>1, <1>7, AtLease DEF Settled
<1>13. /\ fs' \in [Lease -> LeaseStates] /\ disk' \in [Lease -> LeaseStates]
       /\ \A t \in Lease \ {cur} : fs'[t] = fs[t] /\ disk'[t] = disk[t]
       /\ fs'[cur].ldir => fs[cur].ldir
       /\ disk'[cur].ldir => Live(cur)
  BY <1>2, <1>4, AtLease DEF At, Live
<1> QED
  BY <1>1, <1>6, <1>9, <1>10, <1>11, <1>12, <1>13, LeaseStep

\* A record is created,
LEMMA CreateRecordStep ==
  ASSUME HandoffIInv, CreateRecord
  PROVE  HandoffIInv'
<1>1. /\ pc \in RecordSpots /\ fs[cur].rec[what] = "none" /\ disk' = disk
      /\ fs' = [fs EXCEPT ![cur].rec[what] = "tmp"] /\ pc' = "rename"
      /\ UNCHANGED <<routine, cur, todo, found, what, cut, forged, tampers, handles, pin>>
  BY DEF CreateRecord, Goto, world, bounds, RecordSpots
<1> QED
  BY <1>1, WriteRecord

\* named,
LEMMA RenameRecordStep ==
  ASSUME HandoffIInv, RenameRecord
  PROVE  HandoffIInv'
<1>1. /\ pc \in RecordSpots /\ disk' = disk
      /\ fs' = [fs EXCEPT ![cur].rec[what] = "final"] /\ pc' = "record.sync"
      /\ UNCHANGED <<routine, cur, todo, found, what, cut, forged, tampers, handles, pin>>
  BY DEF RenameRecord, Goto, world, bounds, RecordSpots
<1> QED
  BY <1>1, WriteRecord

\* and made durable; what stands on it may begin.
LEMMA SyncRecordStep ==
  ASSUME HandoffIInv, SyncRecord
  PROVE  HandoffIInv'
<1>1. /\ pc = "record.sync" /\ fs' = fs /\ disk' = [disk EXCEPT ![cur].rec = fs[cur].rec]
      /\ UNCHANGED <<routine, cur, todo, found, what, cut, forged, tampers, handles, pin>>
      /\ Ready(what) /\ Has(cur, what) /\ what \in Record
  BY DEF SyncRecord, SyncLease, world, bounds, HandoffIInv, HandoffTypeOK, SpotOK, RecordSpots
<1>2. fs[cur].rec \in [Record -> {"none", "tmp", "final"}]
  BY AtLease DEF LeaseStates
<1>3. At(disk', disk, cur, disk[cur].ldir, fs[cur].rec, disk[cur].place, disk[cur].sealed,
         disk[cur].file)
  BY <1>1, <1>2, AtLease, SetRecords
<1>4. /\ disk'[cur].rec = fs[cur].rec /\ disk'[cur].ldir = disk[cur].ldir
      /\ disk'[cur].place = disk[cur].place /\ disk'[cur].sealed = disk[cur].sealed
      /\ disk'[cur].file = disk[cur].file
  BY <1>3 DEF At
<1>5. LeaseOK(fs'[cur], disk'[cur])
  BY <1>1, <1>4, AtLease DEF LeaseOK
<1>6. WholeLease(fs[cur], disk[cur], tampers = 0)
        => WholeLease(fs'[cur], disk'[cur], tampers = 0)
  BY <1>1, <1>4 DEF WholeLease, Exists, Durable
<1>7. Returned(cur) => Returned(cur)'
  BY <1>1, <1>4 DEF Returned, Has, Firm, Durable
<1>8. \/ routine = "stage" /\ what = "intent" /\ pc' = "intent.sync"
      \/ routine = "stage" /\ what = "stage" /\ pc' = "copy"
      \/ routine = "stage" /\ what = "files" /\ pc' = "verify"
      \/ routine = "stage" /\ what = "published" /\ pc' = "complete"
      \/ routine = "reconcile" /\ what = "published" /\ pc' = "decide"
      \/ routine = "retire" /\ what = "retiring" /\ pc' = "retiring.sync"
  <2>1. \/ routine = "stage" /\ what \in Record \ {"retiring"}
        \/ routine = "reconcile" /\ what = "published"
        \/ routine = "retire" /\ what = "retiring"
    BY <1>1 DEF HandoffIInv, RoutineOK, StageSpots, RecordSpots, Removing
  <2> QED
    BY <2>1 DEF SyncRecord, Goto, Record
<1>9. SpotOK'
  BY <1>1, <1>4, <1>8 DEF SpotOK, RecordSpots, Ready, Has, Both, Firm, Durable, Record
<1>10. RoutineOK' /\ pc' \notin Removing /\ pc' # "reconcile"
  BY <1>1, <1>8 DEF RoutineOK, StageSpots, RecordSpots, Removing
<1>11. Settled(cur)' => WholeLease(fs'[cur], disk'[cur], tampers = 0)
  BY <1>1, <1>6, AtLease DEF Settled, Removing
<1>12. /\ fs' \in [Lease -> LeaseStates] /\ disk' \in [Lease -> LeaseStates]
       /\ \A t \in Lease \ {cur} : fs'[t] = fs[t] /\ disk'[t] = disk[t]
       /\ disk'[cur].ldir => Live(cur)
  BY <1>1, <1>3, <1>4, AtLease DEF At, Live
<1> QED
  BY <1>1, <1>5, <1>7, <1>9, <1>10, <1>11, <1>12, AtLease, LeaseStep DEF Removing

\* A step of a staging call on its own lease.
LEMMA StagingStep ==
  ASSUME HandoffIInv, pc \in StageSpots,
         UNCHANGED <<routine, cur, todo, found, cut, forged, tampers, handles, pin>>,
         fs' \in [Lease -> LeaseStates], disk' \in [Lease -> LeaseStates],
         \A t \in Lease \ {cur} : fs'[t] = fs[t] /\ disk'[t] = disk[t],
         fs'[cur].ldir = fs[cur].ldir, disk'[cur].ldir = disk[cur].ldir,
         \/ what' = what /\ pc' \in StageSpots
         \/ what' = "files" /\ pc' = "tmp",
         SpotOK', LeaseOK(fs'[cur], disk'[cur]), WholeLease(fs'[cur], disk'[cur], tampers = 0)
  PROVE  HandoffIInv'
<1>1. routine = "stage" /\ pc \notin Removing /\ found = 0 /\ cur \notin handles
  BY StagingSpot
<1>2. RoutineOK' /\ pc' \notin Removing /\ pc' # "reconcile" /\ pc # "reconcile" /\ what' \in Record
  BY <1>1 DEF HandoffIInv, HandoffTypeOK, RoutineOK, StageSpots, RecordSpots, Removing, Record
<1> QED
  BY <1>1, <1>2, AtLease, LeaseStep DEF Live

\* The stage,
LEMMA MakeStageStep ==
  ASSUME HandoffIInv, MakeStage
  PROVE  HandoffIInv'
<1>1. /\ pc = "mkstage" /\ pc' = "stage.sync" /\ disk' = disk
      /\ fs' = [fs EXCEPT ![cur].place = "stage"]
      /\ UNCHANGED <<routine, cur, todo, found, what, cut, forged, tampers, handles, pin>>
      /\ fs[cur].place = "none" /\ Firm(cur, "intent")
      /\ pc \in StageSpots /\ pc' \in StageSpots
  BY DEF MakeStage, Goto, world, bounds, HandoffIInv, SpotOK, StageSpots
<1>2. WholeLease(fs[cur], disk[cur], tampers = 0)
  BY <1>1, StagingSpot
<1>3. At(fs', fs, cur, fs[cur].ldir, fs[cur].rec, "stage", fs[cur].sealed, fs[cur].file)
  BY <1>1, AtLease, SetPlace
<1>4. ~ fs[cur].sealed /\ fs[cur].file = NoFile
  BY <1>1, AtLease DEF LeaseOK
<1>5. LeaseOK(fs'[cur], disk'[cur])
  BY <1>1, <1>3, <1>4, AtLease DEF LeaseOK, At, NoFile
<1>6. WholeLease(fs'[cur], disk'[cur], tampers = 0)
  BY <1>1, <1>2, <1>3 DEF WholeLease, At, Exists, Firm, Durable
<1>7. SpotOK'
  BY <1>1, <1>3 DEF SpotOK, At, RecordSpots
<1>9. /\ fs' \in [Lease -> LeaseStates] /\ disk' \in [Lease -> LeaseStates]
      /\ \A t \in Lease \ {cur} : fs'[t] = fs[t] /\ disk'[t] = disk[t]
      /\ fs'[cur].ldir = fs[cur].ldir /\ disk'[cur].ldir = disk[cur].ldir
  BY <1>1, <1>3, AtLease DEF At
<1> QED
  BY <1>1, <1>5, <1>6, <1>7, <1>9, StagingStep

\* its files,
LEMMA CopyStep ==
  ASSUME HandoffIInv, Copy
  PROVE  HandoffIInv'
<1>1. /\ pc = "copy" /\ disk' = disk /\ pc \in StageSpots
      /\ UNCHANGED <<pc, routine, cur, todo, found, what, cut, forged, tampers, handles, pin>>
      /\ Both(cur, "stage") /\ Firm(cur, "stage")
  BY DEF Copy, call, world, bounds, HandoffIInv, SpotOK, StageSpots
<1>2. PICK f \in File : fs[cur].file[f] = "none" /\ fs' = [fs EXCEPT ![cur].file[f] = "own"]
  BY DEF Copy
<1>3. WholeLease(fs[cur], disk[cur], tampers = 0)
  BY <1>1, StagingSpot
<1>4. At(fs', fs, cur, fs[cur].ldir, fs[cur].rec, fs[cur].place, fs[cur].sealed,
         [fs[cur].file EXCEPT ![f] = "own"])
  BY <1>2, AtLease, SetFile
<1>5. fs[cur].file \in [File -> {"none", "own", "foreign", "forged"}]
  BY AtLease DEF LeaseStates
<1>6. LeaseOK(fs'[cur], disk'[cur])
  BY <1>1, <1>4, <1>5, AtLease DEF LeaseOK, At, Both
<1>7. WholeLease(fs'[cur], disk'[cur], tampers = 0)
  BY <1>1, <1>2, <1>3, <1>4, <1>5 DEF WholeLease, At, Exists, Durable
<1>8. SpotOK'
  BY <1>1, <1>4 DEF SpotOK, At, RecordSpots, Both, Firm, Durable
<1>9. /\ fs' \in [Lease -> LeaseStates] /\ disk' \in [Lease -> LeaseStates]
      /\ \A t \in Lease \ {cur} : fs'[t] = fs[t] /\ disk'[t] = disk[t]
      /\ fs'[cur].ldir = fs[cur].ldir /\ disk'[cur].ldir = disk[cur].ldir
  BY <1>1, <1>4, AtLease DEF At
<1> QED
  BY <1>1, <1>6, <1>7, <1>8, <1>9, StagingStep

\* which are durable before the record that names them is begun,
LEMMA CopiedStep ==
  ASSUME HandoffIInv, Copied
  PROVE  HandoffIInv'
<1>1. /\ pc = "copy" /\ pc' = "tmp" /\ what' = "files" /\ fs' = fs /\ pc \in StageSpots
      /\ UNCHANGED <<routine, cur, todo, found, cut, forged, tampers, handles, pin>>
      /\ Both(cur, "stage") /\ Firm(cur, "stage")
      /\ \A f \in File : fs[cur].file[f] = "own"
      /\ disk' = [disk EXCEPT ![cur].file = fs[cur].file, ![cur].sealed = fs[cur].sealed]
  BY DEF Copied, SyncStage, Goto, Exact, world, bounds, HandoffIInv, SpotOK, StageSpots
<1>2. WholeLease(fs[cur], disk[cur], tampers = 0)
  BY <1>1, StagingSpot
<1>3. fs[cur].file \in [File -> {"none", "own", "foreign", "forged"}] /\ fs[cur].sealed \in BOOLEAN
  BY AtLease DEF LeaseStates
<1>4. At(disk', disk, cur, disk[cur].ldir, disk[cur].rec, disk[cur].place, fs[cur].sealed,
         fs[cur].file)
  <2>1. disk \in [Lease -> LeaseStates] /\ cur \in Lease
    BY AtLease
  <2> QED
    BY <1>1, <1>3, <2>1, SetFilesSealed
<1>5. LeaseOK(fs'[cur], disk'[cur])
  BY <1>1, <1>4, AtLease DEF LeaseOK, At, Both
<1>6. WholeLease(fs'[cur], disk'[cur], tampers = 0)
  BY <1>1, <1>2, <1>4 DEF WholeLease, At, Exists, Durable, Both
<1>7. SpotOK'
  BY <1>1, <1>4 DEF SpotOK, At, RecordSpots, Ready, Both, Firm, Durable
<1>9. /\ fs' \in [Lease -> LeaseStates] /\ disk' \in [Lease -> LeaseStates]
      /\ \A t \in Lease \ {cur} : fs'[t] = fs[t] /\ disk'[t] = disk[t]
      /\ fs'[cur].ldir = fs[cur].ldir /\ disk'[cur].ldir = disk[cur].ldir
  BY <1>1, <1>4, AtLease DEF At
<1> QED
  BY <1>1, <1>5, <1>6, <1>7, <1>9, StagingStep

\* the seal, before the name,
LEMMA SealStep ==
  ASSUME HandoffIInv, Seal
  PROVE  HandoffIInv'
<1>1. /\ pc = "verify" /\ pc' = "publish" /\ pc \in StageSpots /\ pc' \in StageSpots
      /\ UNCHANGED <<routine, cur, todo, found, what, cut, forged, tampers, handles, pin>>
      /\ Both(cur, "stage") /\ Firm(cur, "stage") /\ Firm(cur, "files")
      /\ \A f \in File : fs[cur].file[f] = "own"
      /\ fs' = [fs EXCEPT ![cur].sealed = TRUE]
      /\ disk' = [disk EXCEPT ![cur].file = fs'[cur].file, ![cur].sealed = fs'[cur].sealed]
  BY DEF Seal, SyncStage, Goto, Exact, world, bounds, HandoffIInv, SpotOK, StageSpots
<1>2. WholeLease(fs[cur], disk[cur], tampers = 0)
  BY <1>1, StagingSpot
<1>3. fs[cur].file \in [File -> {"none", "own", "foreign", "forged"}]
  BY AtLease DEF LeaseStates
<1>4. At(fs', fs, cur, fs[cur].ldir, fs[cur].rec, fs[cur].place, TRUE, fs[cur].file)
  BY <1>1, AtLease, SetSealed
<1>5. At(disk', disk, cur, disk[cur].ldir, disk[cur].rec, disk[cur].place, TRUE, fs[cur].file)
  <2>1. fs'[cur].file = fs[cur].file /\ fs'[cur].sealed = TRUE
    BY <1>4 DEF At
  <2> QED
    BY <1>1, <1>3, <2>1, AtLease, SetFilesSealed
<1>6. LeaseOK(fs'[cur], disk'[cur])
  BY <1>1, <1>4, <1>5, AtLease DEF LeaseOK, At, Both
<1>7. WholeLease(fs'[cur], disk'[cur], tampers = 0)
  BY <1>1, <1>2, <1>4, <1>5 DEF WholeLease, At, Exists, Durable, Both
<1>8. SpotOK'
  BY <1>1, <1>4, <1>5 DEF SpotOK, At, RecordSpots, Both, Firm, Durable
<1>9. /\ fs' \in [Lease -> LeaseStates] /\ disk' \in [Lease -> LeaseStates]
      /\ \A t \in Lease \ {cur} : fs'[t] = fs[t] /\ disk'[t] = disk[t]
      /\ fs'[cur].ldir = fs[cur].ldir /\ disk'[cur].ldir = disk[cur].ldir
  BY <1>1, <1>4, <1>5, AtLease DEF At
<1> QED
  BY <1>1, <1>6, <1>7, <1>8, <1>9, StagingStep

\* the name,
LEMMA PublishStep ==
  ASSUME HandoffIInv, Publish
  PROVE  HandoffIInv'
<1>1. /\ pc = "publish" /\ pc' = "published.sync" /\ pc \in StageSpots /\ pc' \in StageSpots
      /\ UNCHANGED <<routine, cur, todo, found, what, cut, forged, tampers, handles, pin>>
      /\ Firm(cur, "stage") /\ Firm(cur, "files")
      /\ fs[cur].sealed /\ disk[cur].sealed /\ fs[cur].file = disk[cur].file
      /\ Both(cur, "stage")
      /\ fs' = [fs EXCEPT ![cur].place = "published"] /\ disk' = disk
  BY DEF Publish, Goto, world, bounds, HandoffIInv, SpotOK, StageSpots
<1>2. WholeLease(fs[cur], disk[cur], tampers = 0)
  BY <1>1, StagingSpot
<1>3. At(fs', fs, cur, fs[cur].ldir, fs[cur].rec, "published", fs[cur].sealed, fs[cur].file)
  BY <1>1, AtLease, SetPlace
<1>4. Firm(cur, "intent") /\ fs[cur].ldir /\ disk[cur].ldir
  BY <1>1, <1>2 DEF WholeLease, Both, Firm, Durable, Exists
<1>5. LeaseOK(fs'[cur], disk'[cur])
  BY <1>1, <1>3, <1>4, AtLease DEF LeaseOK, At, Both, Firm, Durable, Needed
<1>6. WholeLease(fs'[cur], disk'[cur], tampers = 0)
  BY <1>1, <1>2, <1>3 DEF WholeLease, At, Exists, Firm, Durable, Both
<1>7. SpotOK'
  BY <1>1, <1>3 DEF SpotOK, At, RecordSpots
<1>9. /\ fs' \in [Lease -> LeaseStates] /\ disk' \in [Lease -> LeaseStates]
      /\ \A t \in Lease \ {cur} : fs'[t] = fs[t] /\ disk'[t] = disk[t]
      /\ fs'[cur].ldir = fs[cur].ldir /\ disk'[cur].ldir = disk[cur].ldir
  BY <1>1, <1>3, AtLease DEF At
<1> QED
  BY <1>1, <1>5, <1>6, <1>7, <1>9, StagingStep

\* its sync,
LEMMA SyncPublishedStep ==
  ASSUME HandoffIInv, SyncPublished
  PROVE  HandoffIInv'
<1>1. /\ pc = "published.sync" /\ pc' = "tmp" /\ what' = "published" /\ SyncDestination
      /\ UNCHANGED <<fs, routine, cur, todo, found, cut, forged, tampers, handles, pin>>
      /\ fs[cur].place = "published" /\ fs[cur].sealed /\ pc \in StageSpots
  BY DEF SyncPublished, Goto, world, bounds, HandoffIInv, SpotOK, StageSpots
<1>2. routine = "stage" /\ WholeLease(fs[cur], disk[cur], tampers = 0)
  BY <1>1, StagingSpot
<1>3. disk'[cur].place = "published"
  BY <1>1, SyncedParts, AtLease
<1>4. SpotOK'
  BY <1>1, <1>2, <1>3 DEF SpotOK, RecordSpots, Ready, Has, WholeLease, Durable
<1> QED
  BY <1>1, <1>2, <1>4, DestinationStep DEF RoutineOK, RecordSpots, Removing, Record

\* and the answer: all that the handle relies on is durable.
LEMMA CompleteStep ==
  ASSUME HandoffIInv, Complete
  PROVE  HandoffIInv'
<1>1. /\ pc = "complete" /\ pc \in StageSpots /\ SyncDestination /\ Return("ok")
      /\ UNCHANGED <<fs, cut, forged, tampers>> /\ handles' = handles \union {cur}
      /\ fs[cur].place = "published"
      /\ PublishedLease(cur)
  BY DEF Complete, world, bounds, HandoffIInv, SpotOK, StageSpots
<1>2. /\ pc' = "idle" /\ routine' = "none" /\ todo' = {} /\ found' = 0 /\ what' = "intent"
      /\ pin' = "own" /\ cur' = 1 /\ 1 \in Lease
  BY <1>1, LeaseAssumption DEF Return, Lease
<1>3. /\ WholeLease(fs[cur], disk'[cur], tampers = 0) /\ pc \notin Removing
      /\ disk'[cur].place = "published" /\ cur \in Lease
  BY <1>1, StagingSpot, SyncedParts, AtLease
<1>4. Has(cur, "published")
  BY <1>1, AtLease DEF PublishedLease, Entries, Partial, Has, Record, LeaseStates
<1>5. PICK c \in Lease : c = cur
  BY <1>3
<1>6. Returned(c)'
  BY <1>1, <1>3, <1>4, <1>5 DEF Returned, WholeLease, Exists, Has, Firm, Durable, Needed
<1>7. HandoffTypeOK'
  BY <1>1, <1>2, <1>3, SyncedParts DEF HandoffIInv, HandoffTypeOK, Record
<1>8. RoutineOK' /\ SpotOK' /\ EachOK'
  BY <1>1, <1>2, SyncedParts DEF RoutineOK, SpotOK, RecordSpots, Removing
<1>9. WholeOK'
  <2> SUFFICES ASSUME NEW t \in Lease, Settled(t)' PROVE WholeLease(fs[t], disk'[t], tampers = 0)
    BY <1>1 DEF WholeOK
  <2>1. Settled(t)
    BY <1>1, <1>2, <1>3 DEF Settled
  <2> QED
    BY <1>1, <2>1, SyncedParts
<1>10. ReturnedOK'
  <2> SUFFICES ASSUME NEW t \in Lease, t \in handles \union {cur} PROVE Returned(t)'
    BY <1>1, <1>2, AtLease DEF ReturnedOK
  <2> QED
    BY <1>1, <1>5, <1>6, SyncedParts DEF HandoffIInv, ReturnedOK
<1>11. QueueOK'
  <2>1. \A t \in Lease : Live(t)' => Live(t)
    BY <1>1, SyncedParts DEF Live
  <2> QED
    BY <1>1, <1>2, <2>1 DEF HandoffIInv, QueueOK
<1> QED
  BY <1>7, <1>8, <1>9, <1>10, <1>11 DEF HandoffIInv

-----------------------------------------------------------------------------
\* A staging call that fails cleans up,
LEMMA CleanupStep ==
  ASSUME HandoffIInv, Cleanup
  PROVE  HandoffIInv'
<1>1. /\ pc = "cleanup" /\ pc \in StageSpots
      /\ UNCHANGED <<disk, cut, forged, tampers, handles>>
  BY DEF Cleanup, world, bounds, StageSpots
<1>2. /\ routine = "stage" /\ pc \notin Removing /\ found = 0 /\ cur \notin handles
      /\ WholeLease(fs[cur], disk[cur], tampers = 0) /\ cur \in Lease /\ 0 \notin Lease
  BY <1>1, StagingSpot, AtLease
<1>3. CASE /\ fs[cur].place = "none" /\ pc' = "rmlease"
           /\ UNCHANGED <<routine, cur, todo, found, what, pin, fs>>
  <2>1. Both(cur, "none")
    BY <1>2, <1>3 DEF WholeLease, Both
  <2>2. SpotOK'
    BY <1>1, <1>2, <1>3, <2>1 DEF SpotOK, RecordSpots, Both
  <2> QED
    BY <1>1, <1>2, <1>3, <2>2, AtLease, LeaseStep
       DEF HandoffIInv, HandoffTypeOK, RoutineOK, RecordSpots, Live, Settled, Removing
<1>4. CASE /\ pc' = "rmfiles" /\ fs' = [fs EXCEPT ![cur].sealed = FALSE]
           /\ UNCHANGED <<routine, cur, todo, found, what, pin>>
  BY <1>1, <1>2, <1>4, UnsealStep
<1>5. CASE Return("failed") /\ fs' = fs
  BY <1>1, <1>2, <1>5, ReturnStep DEF HandoffIInv, HandoffTypeOK
<1> QED
  BY <1>3, <1>4, <1>5 DEF Cleanup, Goto

\* and fails when a check does.
LEMMA MismatchStep ==
  ASSUME HandoffIInv, Mismatch
  PROVE  HandoffIInv'
<1>1. /\ pc \in StageSpots /\ pc' = "cleanup" /\ pc' \in StageSpots
      /\ UNCHANGED <<fs, disk, routine, cur, todo, found, what, cut, forged, tampers, handles, pin>>
  BY DEF Mismatch, Goto, world, bounds, StageSpots
<1>2. WholeLease(fs[cur], disk[cur], tampers = 0)
  BY <1>1, StagingSpot
<1>3. SpotOK'
  BY <1>1 DEF SpotOK, RecordSpots
<1> QED
  BY <1>1, <1>2, <1>3, AtLease, StagingStep

\* The steps of a retirement: it begins,
LEMMA RetireStep ==
  ASSUME HandoffIInv, Retire
  PROVE  HandoffIInv'
<1>1. PICK t \in handles :
        /\ pc = "idle" /\ pc' = "retire" /\ routine' = "retire" /\ cur' = t
        /\ UNCHANGED <<fs, disk, forged, tampers, cut, pin, handles, todo, found, what>>
  BY DEF Retire, Goto, world, bounds
<1>2. /\ found = 0 /\ pc \notin Removing /\ t \in Lease /\ what \in Record /\ todo \subseteq Lease
  BY <1>1 DEF HandoffIInv, HandoffTypeOK, RoutineOK, QueueOK, StageSpots, RecordSpots, Removing
<1>3. RoutineOK' /\ SpotOK'
  BY <1>1, <1>2 DEF HandoffIInv, ReturnedOK, Returned, RoutineOK, SpotOK, RecordSpots, Removing
<1>4. QueueOK'
  <2>1. \A u \in Lease : Live(u)' <=> Live(u)
    BY <1>1 DEF Live
  <2> QED
    BY <1>1, <1>2, <2>1 DEF HandoffIInv, QueueOK
<1> QED
  BY <1>1, <1>2, <1>3, <1>4, QuietStep

\* Only a retirement is at these places.
LEMMA RetiringSpot ==
  ASSUME HandoffIInv, pc \in {"retire", "retiring.sync", "retired"}
  PROVE  routine = "retire" /\ found = 0 /\ what \in Record /\ cur \in Lease /\ pc \notin Removing
BY DEF HandoffIInv, HandoffTypeOK, RoutineOK, QueueOK, StageSpots, RecordSpots, Removing

\* finishes or drops what is unfinished and marks the lease,
LEMMA MarkRetiringStep ==
  ASSUME HandoffIInv, MarkRetiring
  PROVE  HandoffIInv'
<1>1. /\ pc = "retire" /\ UNCHANGED <<forged, tampers, handles, cut>>
      /\ fs[cur].rec["intent"] # "tmp"
  BY DEF MarkRetiring, world, bounds, HandoffIInv, SpotOK
<1>2. routine = "retire" /\ found = 0 /\ what \in Record /\ cur \in Lease /\ pc \notin Removing
  BY <1>1, RetiringSpot
<1>3. CASE Partial(cur) # {}
  <2>1. /\ pc' = pc
        /\ \E r \in Partial(cur) :
             /\ fs' = [fs EXCEPT ![cur].rec[r] = "none"]
             /\ disk' = [disk EXCEPT ![cur].rec = [fs[cur].rec EXCEPT ![r] = "none"]]
        /\ UNCHANGED <<routine, cur, todo, found, what, pin>>
    BY <1>3 DEF MarkRetiring
  <2> QED
    BY <1>1, <2>1, DropPartial
<1>4. CASE Partial(cur) = {}
  <2>1. fs[cur].rec \in [Record -> {"none", "tmp", "final"}]
    BY AtLease DEF LeaseStates
  <2>2. \A r \in Entries(cur) : Has(cur, r)
    BY <1>1, <1>4, <2>1 DEF Entries, Partial, Has
  <2>3. UNCHANGED <<fs, disk>>
    BY <1>4 DEF MarkRetiring
  <2>4. CASE PublishedLease(cur)
    <3>1. what' = "retiring" /\ pc' = "tmp" /\ UNCHANGED <<routine, cur, todo, found, pin>>
      BY <1>4, <2>4 DEF MarkRetiring, Goto
    <3>2. \A q \in Record \ {"retiring"} : Has(cur, q)
      BY <2>2, <2>4 DEF PublishedLease
    <3>3. SpotOK'
      BY <1>2, <2>3, <3>1, <3>2 DEF SpotOK, RecordSpots, Ready, Has
    <3> QED
      BY <1>1, <1>2, <2>3, <3>1, <3>3, AtLease, LeaseStep
         DEF HandoffIInv, HandoffTypeOK, RoutineOK, RecordSpots, Live, Settled, Removing, Returned,
             Has, Firm, Durable, Record
  <2>5. CASE ~ PublishedLease(cur) /\ Entries(cur) = Record /\ cur \notin forged
    <3>1. pc' = "retired" /\ UNCHANGED <<routine, cur, todo, found, what, pin>>
      BY <1>4, <2>5 DEF MarkRetiring, Goto
    <3>2. SpotOK'
      BY <1>2, <2>2, <2>3, <2>5, <3>1 DEF SpotOK, RecordSpots, Has
    <3> QED
      BY <1>1, <1>2, <2>3, <3>1, <3>2, AtLease, LeaseStep
         DEF HandoffIInv, HandoffTypeOK, RoutineOK, RecordSpots, Live, Settled, Removing, Returned,
             Has, Firm, Durable
  <2>6. CASE ~ PublishedLease(cur) /\ ~ (Entries(cur) = Record /\ cur \notin forged)
    <3>1. Return("failed")
      BY <1>4, <2>6 DEF MarkRetiring
    <3> QED
      BY <1>1, <1>2, <2>3, <3>1, ReturnStep DEF HandoffIInv, HandoffTypeOK
  <2> QED
    BY <2>4, <2>5, <2>6
<1> QED
  BY <1>3, <1>4

\* syncs the mark,
LEMMA SyncRetiringStep ==
  ASSUME HandoffIInv, SyncRetiring
  PROVE  HandoffIInv'
<1>1. /\ pc = "retiring.sync" /\ pc' = "retired" /\ SyncDestination
      /\ UNCHANGED <<fs, routine, cur, todo, found, what, cut, forged, tampers, handles, pin>>
  BY DEF SyncRetiring, Goto, world, bounds
<1>2. routine = "retire" /\ what \in Record /\ pc \notin Removing
  BY <1>1, RetiringSpot
<1>3. SpotOK'
  BY <1>1, <1>2 DEF HandoffIInv, SpotOK, RecordSpots, Has
<1> QED
  BY <1>1, <1>2, <1>3, DestinationStep DEF RoutineOK, Removing

\* and begins the removal.
LEMMA RemoveRetiredStep ==
  ASSUME HandoffIInv, RemoveRetired
  PROVE  HandoffIInv'
<1>1. /\ pc = "retired" /\ UNCHANGED <<disk, cut, forged, tampers, handles>>
      /\ \A r \in Record : Has(cur, r)
  BY DEF RemoveRetired, world, bounds, HandoffIInv, SpotOK
<1>2. routine = "retire" /\ found = 0 /\ what \in Record /\ cur \in Lease /\ pc \notin Removing
  BY <1>1, RetiringSpot
<1>3. CASE /\ fs[cur].place = "none" /\ pc' = "rmlease"
           /\ UNCHANGED <<routine, cur, todo, found, what, pin, fs>>
  <2>1. cur \in cut
    BY <1>1, <1>2, <1>3 DEF HandoffIInv, WholeOK, Settled, WholeLease, Exists, Has, Record
  <2>2. SpotOK'
    BY <1>1, <1>2, <1>3, <2>1 DEF SpotOK, RecordSpots, Has
  <2> QED
    BY <1>1, <1>2, <1>3, <2>2, AtLease, LeaseStep
       DEF HandoffIInv, HandoffTypeOK, RoutineOK, RecordSpots, Live, Settled, Removing, Returned,
           Has, Firm, Durable
<1>4. CASE /\ pc' = "rmfiles" /\ fs' = [fs EXCEPT ![cur].sealed = FALSE]
           /\ UNCHANGED <<routine, cur, todo, found, what, pin>>
  BY <1>1, <1>2, <1>4, UnsealStep
<1>5. CASE Return("failed") /\ fs' = fs
  BY <1>1, <1>2, <1>5, ReturnStep DEF HandoffIInv, HandoffTypeOK
<1> QED
  BY <1>1, <1>3, <1>4, <1>5 DEF RemoveRetired, Goto

-----------------------------------------------------------------------------
\* A step that fails keeps the invariant,
LEMMA FailStep ==
  ASSUME HandoffIInv, Fail
  PROVE  HandoffIInv'
<1>1. UNCHANGED <<fs, disk, forged, tampers, handles>>
  BY DEF Fail
<1>2. CASE routine = "stage" /\ pc \notin Removing \union {"cleanup", "stop"}
  <2>1. /\ pc' = "cleanup" /\ UNCHANGED <<routine, cur, todo, found, what, pin, cut>>
    BY <1>2 DEF Fail, Goto
  <2>2. /\ RoutineOK' /\ pc # "reconcile" /\ what \in Record
    BY <1>2, <2>1 DEF HandoffIInv, HandoffTypeOK, RoutineOK, StageSpots, RecordSpots, Removing
  <2>3. SpotOK'
    BY <2>1 DEF SpotOK, RecordSpots
  <2>4. /\ WholeLease(fs[cur], disk[cur], tampers = 0)
        /\ cur \notin handles /\ found = 0 /\ 0 \notin Lease /\ cur \in Lease
    BY <1>2, AtLease
  <2> QED
    BY <1>1, <1>2, <2>1, <2>2, <2>3, <2>4, AtLease, LeaseStep DEF Live, Removing
<1>3. CASE ~ (routine = "stage" /\ pc \notin Removing \union {"cleanup", "stop"})
  <2>1. Return("failed") /\ cut' = IF pc \in Removing THEN cut \union {cur} ELSE cut
    BY <1>3 DEF Fail
  <2> QED
    BY <1>1, <2>1, AtLease, ReturnStep DEF HandoffIInv, HandoffTypeOK
<1> QED
  BY <1>2, <1>3

\* A power failure leaves of each lease a mixture of what was seen and what
\* was durable.
LEMMA AfterMixed ==
  ASSUME HandoffTypeOK, NEW kept
  PROVE  /\ After(kept) \in [Lease -> LeaseStates]
         /\ \A t \in Lease : Mixed(fs[t], disk[t], After(kept)[t])
<1> SUFFICES ASSUME NEW t \in Lease
             PROVE  After(kept)[t] \in LeaseStates /\ Mixed(fs[t], disk[t], After(kept)[t])
  BY DEF After
<1> DEFINE x == fs[t]
           y == disk[t]
           l == IF <<t, "ldir">> \in kept THEN x.ldir ELSE y.ldir
           p == IF <<t, "place">> \in kept THEN x.place ELSE y.place
           s == p # "none" /\ (IF <<t, "sealed">> \in kept THEN x.sealed ELSE y.sealed)
           r == [q \in Record |-> IF ~ l THEN "none"
                                  ELSE IF <<t, q>> \in kept THEN x.rec[q] ELSE y.rec[q]]
           f == [g \in File |-> IF p = "none" THEN "none"
                                ELSE IF <<t, g>> \in kept THEN x.file[g] ELSE y.file[g]]
<1>1. After(kept)[t] = [ldir |-> l, place |-> p, sealed |-> s, rec |-> r, file |-> f]
  BY DEF After
<1>2. x \in LeaseStates /\ y \in LeaseStates
  BY DEF HandoffTypeOK
<1>3. /\ l \in BOOLEAN /\ l \in {x.ldir, y.ldir}
      /\ p \in {"none", "stage", "published"} /\ p \in {x.place, y.place}
  BY <1>2 DEF LeaseStates
<1> HIDE DEF l, p
<1>4. /\ s \in BOOLEAN
      /\ s => p # "none" /\ (x.sealed \/ y.sealed)
      /\ x.sealed /\ y.sealed /\ p # "none" => s
  BY <1>2 DEF LeaseStates
<1> HIDE DEF s
<1>5. /\ r \in [Record -> {"none", "tmp", "final"}]
      /\ \A q \in Record : IF l THEN r[q] \in {x.rec[q], y.rec[q]} ELSE r[q] = "none"
  <2>1. /\ x.rec \in [Record -> {"none", "tmp", "final"}]
        /\ y.rec \in [Record -> {"none", "tmp", "final"}]
    BY <1>2 DEF LeaseStates
  <2> HIDE DEF x, y
  <2>2. ASSUME NEW q \in Record
        PROVE  /\ r[q] = IF ~ l THEN "none" ELSE IF <<t, q>> \in kept THEN x.rec[q] ELSE y.rec[q]
               /\ r[q] \in {"none", "tmp", "final"}
    BY <2>1
  <2> QED
    BY <2>2
<1> HIDE DEF r
<1>6. /\ f \in [File -> {"none", "own", "foreign", "forged"}]
      /\ \A g \in File : IF p # "none" THEN f[g] \in {x.file[g], y.file[g]} ELSE f[g] = "none"
  <2>1. /\ x.file \in [File -> {"none", "own", "foreign", "forged"}]
        /\ y.file \in [File -> {"none", "own", "foreign", "forged"}]
    BY <1>2 DEF LeaseStates
  <2> HIDE DEF x, y
  <2>2. ASSUME NEW g \in File
        PROVE  /\ f[g] = IF p = "none" THEN "none"
                         ELSE IF <<t, g>> \in kept THEN x.file[g] ELSE y.file[g]
               /\ f[g] \in {"none", "own", "foreign", "forged"}
    BY <2>1
  <2> QED
    BY <2>2
<1> HIDE DEF f
<1>7. [ldir |-> l, place |-> p, sealed |-> s, rec |-> r, file |-> f] \in LeaseStates
  BY <1>3, <1>4, <1>5, <1>6 DEF LeaseStates
<1> QED
  BY <1>1, <1>3, <1>4, <1>5, <1>6, <1>7 DEF Mixed

\* so do a kill and a power failure,
LEMMA CrashStep ==
  ASSUME HandoffIInv, Crash
  PROVE  HandoffIInv'
<1>1. /\ Return("none") /\ handles' = {} /\ UNCHANGED <<forged, tampers>>
      /\ cut' = IF pc \in Removing THEN cut \union {cur} ELSE cut
  BY DEF Crash
<1>2. CASE UNCHANGED <<fs, disk>>
  BY <1>1, <1>2, AtLease, ReturnStep DEF HandoffIInv, HandoffTypeOK
<1>3. CASE ~ UNCHANGED <<fs, disk>>
  <2>1. PICK kept : fs' = After(kept) /\ disk' = After(kept)
    BY <1>3 DEF Crash
  <2>2. /\ fs' \in [Lease -> LeaseStates] /\ disk' = fs'
        /\ \A t \in Lease : Mixed(fs[t], disk[t], fs'[t])
    BY <2>1, AfterMixed DEF HandoffIInv
  <2>3. \A t \in Lease : /\ fs[t] \in LeaseStates /\ disk[t] \in LeaseStates
                         /\ fs'[t] \in LeaseStates
                         /\ LeaseOK(fs[t], disk[t])
    BY <2>2 DEF HandoffIInv, HandoffTypeOK, EachOK
  <2>4. HandoffTypeOK'
    <3>1. 1 \in Lease
      BY LeaseAssumption DEF Lease
    <3> QED
      BY <1>1, <2>2, <3>1, AtLease DEF HandoffIInv, HandoffTypeOK, Return, Record
  <2>5. RoutineOK' /\ SpotOK'
    BY <1>1 DEF Return, RoutineOK, SpotOK, RecordSpots, Removing
  <2>6. EachOK'
    BY <2>2, <2>3, MixedLease DEF EachOK
  <2>7. WholeOK'
    <3> SUFFICES ASSUME NEW t \in Lease, Settled(t)' PROVE WholeLease(fs'[t], fs'[t], tampers = 0)
      BY <1>1, <2>2 DEF WholeOK
    <3>1. Settled(t)
      BY <1>1 DEF Settled, Return
    <3>2. WholeLease(fs[t], disk[t], tampers = 0)
      BY <3>1 DEF HandoffIInv, WholeOK
    <3>3. (tampers = 0) \in BOOLEAN
      OBVIOUS
    <3> QED
      BY <2>2, <2>3, <3>2, <3>3, MixedWhole
  <2>8. ReturnedOK'
    BY <1>1, AtLease DEF ReturnedOK, Return
  <2>9. QueueOK'
    <3>1. \A t \in Lease : Live(t)' => Live(t)
      BY <2>2 DEF Live, Mixed
    <3> QED
      BY <1>1, <3>1 DEF HandoffIInv, QueueOK, Return
  <2> QED
    BY <2>4, <2>5, <2>6, <2>7, <2>8, <2>9 DEF HandoffIInv
<1> QED
  BY <1>2, <1>3

\* a change of the pending operation,
LEMMA ChangeStep ==
  ASSUME HandoffIInv, Change
  PROVE  HandoffIInv'
<1>1. /\ UNCHANGED <<fs, disk, forged, handles, cut, tampers>>
      /\ UNCHANGED <<pc, routine, cur, todo, found, what, pin>>
  BY DEF Change, call
<1>2. HandoffTypeOK' /\ RoutineOK'
  BY <1>1 DEF HandoffIInv, HandoffTypeOK, RoutineOK
<1>3. WholeOK' /\ EachOK'
  BY <1>1 DEF HandoffIInv, WholeOK, EachOK, Settled
<1>4. SpotOK'
  BY <1>1 DEF HandoffIInv, SpotOK, Has, Both, Firm, Ready
<1>5. ReturnedOK'
  BY <1>1, ReturnedSame DEF HandoffIInv, ReturnedOK
<1>6. QueueOK'
  BY <1>1 DEF HandoffIInv, QueueOK, Live
<1> QED
  BY <1>2, <1>3, <1>4, <1>5, <1>6 DEF HandoffIInv

\* and a change by another program, which is durable at once.
LEMMA TamperStep ==
  ASSUME HandoffIInv, Tamper
  PROVE  HandoffIInv'
<1>1. /\ tampers' = tampers + 1 /\ tampers \in Nat
      /\ UNCHANGED <<handles, cut, pc, routine, cur, todo, found, what, pin>>
  BY DEF Tamper, call, HandoffIInv, HandoffTypeOK
<1>2. PICK t \in Lease :
        /\ fs[t].place # "none" /\ disk[t].place # "none"
        /\ \/ /\ \E f \in File :
                   /\ fs' = [fs EXCEPT ![t].file[f] = "foreign"]
                   /\ disk' = [disk EXCEPT ![t].file[f] = "foreign"]
              /\ UNCHANGED forged
           \/ /\ fs' = [fs EXCEPT ![t].file = [f \in File |-> "forged"]]
              /\ disk' = [disk EXCEPT ![t].file = [f \in File |-> "forged"]]
              /\ forged' = forged \union {t}
  BY DEF Tamper
<1>3. /\ fs[t] \in LeaseStates /\ disk[t] \in LeaseStates
      /\ fs \in [Lease -> LeaseStates] /\ disk \in [Lease -> LeaseStates]
      /\ fs[t].file \in [File -> {"none", "own", "foreign", "forged"}]
      /\ disk[t].file \in [File -> {"none", "own", "foreign", "forged"}]
  BY AtLease DEF LeaseStates
<1>4. PICK v, w :
        /\ At(fs', fs, t, fs[t].ldir, fs[t].rec, fs[t].place, fs[t].sealed, v)
        /\ At(disk', disk, t, disk[t].ldir, disk[t].rec, disk[t].place, disk[t].sealed, w)
        /\ \A f \in File : \/ v[f] = fs[t].file[f] /\ w[f] = disk[t].file[f]
                           \/ v[f] = w[f] /\ w[f] \in {"foreign", "forged"}
        /\ fs[t].file = disk[t].file => v = w
  <2>1. CASE \E f \in File : /\ fs' = [fs EXCEPT ![t].file[f] = "foreign"]
                             /\ disk' = [disk EXCEPT ![t].file[f] = "foreign"]
    <3>1. PICK f \in File : /\ fs' = [fs EXCEPT ![t].file[f] = "foreign"]
                            /\ disk' = [disk EXCEPT ![t].file[f] = "foreign"]
      BY <2>1
    <3> DEFINE one == [fs[t].file EXCEPT ![f] = "foreign"]
               two == [disk[t].file EXCEPT ![f] = "foreign"]
    <3>2. At(fs', fs, t, fs[t].ldir, fs[t].rec, fs[t].place, fs[t].sealed, one)
      BY <1>3, <3>1, SetFile
    <3>3. At(disk', disk, t, disk[t].ldir, disk[t].rec, disk[t].place, disk[t].sealed, two)
      BY <1>3, <3>1, SetFile
    <3>4. \A g \in File : \/ one[g] = fs[t].file[g] /\ two[g] = disk[t].file[g]
                          \/ one[g] = two[g] /\ two[g] \in {"foreign", "forged"}
      BY <1>3
    <3>5. fs[t].file = disk[t].file => one = two
      OBVIOUS
    <3> HIDE DEF one, two
    <3> QED
      BY <3>2, <3>3, <3>4, <3>5
  <2>2. CASE /\ fs' = [fs EXCEPT ![t].file = [f \in File |-> "forged"]]
             /\ disk' = [disk EXCEPT ![t].file = [f \in File |-> "forged"]]
    <3> DEFINE all == [f \in File |-> "forged"]
    <3>1. /\ all \in [File -> {"none", "own", "foreign", "forged"}]
          /\ \A f \in File : all[f] = "forged"
      OBVIOUS
    <3>4. fs' = [fs EXCEPT ![t].file = all] /\ disk' = [disk EXCEPT ![t].file = all]
      BY <2>2
    <3> HIDE DEF all
    <3>2. At(fs', fs, t, fs[t].ldir, fs[t].rec, fs[t].place, fs[t].sealed, all)
      BY <1>3, <3>1, <3>4, SetFiles
    <3>3. At(disk', disk, t, disk[t].ldir, disk[t].rec, disk[t].place, disk[t].sealed, all)
      BY <1>3, <3>1, <3>4, SetFiles
    <3> QED
      BY <3>1, <3>2, <3>3
  <2> QED
    BY <1>2, <2>1, <2>2
<1>5. /\ fs' \in [Lease -> LeaseStates] /\ disk' \in [Lease -> LeaseStates]
      /\ \A u \in Lease : /\ fs'[u].ldir = fs[u].ldir /\ disk'[u].ldir = disk[u].ldir
                          /\ fs'[u].rec = fs[u].rec /\ disk'[u].rec = disk[u].rec
                          /\ fs'[u].place = fs[u].place /\ disk'[u].place = disk[u].place
                          /\ fs'[u].sealed = fs[u].sealed /\ disk'[u].sealed = disk[u].sealed
                          /\ fs[u].file = disk[u].file => fs'[u].file = disk'[u].file
      /\ \A u \in Lease \ {t} : fs'[u] = fs[u] /\ disk'[u] = disk[u]
  BY <1>3, <1>4 DEF At
<1>6. \A f \in File : \/ fs'[t].file[f] = fs[t].file[f] /\ disk'[t].file[f] = disk[t].file[f]
                      \/ /\ fs'[t].file[f] = disk'[t].file[f]
                         /\ fs'[t].file[f] \in {"foreign", "forged"}
  BY <1>4 DEF At
<1>7. HandoffTypeOK'
  BY <1>1, <1>2, <1>5 DEF HandoffIInv, HandoffTypeOK
<1>8. RoutineOK'
  BY <1>1 DEF HandoffIInv, RoutineOK
<1>9. WholeOK'
  <2> SUFFICES ASSUME NEW u \in Lease, Settled(u)'
               PROVE  WholeLease(fs'[u], disk'[u], FALSE)
    <3>1. (tampers' = 0) = FALSE
      BY <1>1
    <3> QED
      BY <3>1 DEF WholeOK
  <2>1. WholeLease(fs[u], disk[u], tampers = 0)
    BY <1>1 DEF HandoffIInv, WholeOK, Settled
  <2>2. CASE u = t
    BY <1>5, <1>6, <2>1, <2>2 DEF WholeLease, Exists, Durable
  <2>3. CASE u # t
    BY <1>5, <2>1, <2>3 DEF WholeLease
  <2> QED
    BY <2>2, <2>3
<1>10. EachOK'
  <2>1. LeaseOK(fs[t], disk[t])
    BY DEF HandoffIInv, EachOK
  <2> DEFINE x == fs[t]  y == disk[t]  a == fs'[t]  b == disk'[t]
  <2>3. /\ a.ldir = x.ldir /\ b.ldir = y.ldir /\ a.rec = x.rec /\ b.rec = y.rec
        /\ a.place = x.place /\ b.place = y.place /\ a.sealed = x.sealed
        /\ x.file = y.file => a.file = b.file
        /\ x.place # "none" /\ y.place # "none"
        /\ \A f \in File : \/ a.file[f] = x.file[f] /\ b.file[f] = y.file[f]
                           \/ b.file[f] = a.file[f]
    BY <1>2, <1>5, <1>6
  <2> HIDE DEF x, y, a, b
  <2>4. LeaseOK(x, y) => LeaseOK(a, b)
    BY <2>3 DEF LeaseOK
  <2>2. LeaseOK(fs'[t], disk'[t])
    BY <2>1, <2>4 DEF x, y, a, b
  <2> QED
    BY <1>5, <2>2, EachFrame DEF HandoffIInv
<1>11. SpotOK'
  <2>1. cur \in Lease /\ tampers' # 0
    BY <1>1, AtLease
  <2>2. /\ fs'[cur].ldir = fs[cur].ldir /\ disk'[cur].ldir = disk[cur].ldir
        /\ fs'[cur].rec = fs[cur].rec /\ disk'[cur].rec = disk[cur].rec
        /\ fs'[cur].place = fs[cur].place /\ disk'[cur].place = disk[cur].place
        /\ fs'[cur].sealed = fs[cur].sealed /\ disk'[cur].sealed = disk[cur].sealed
        /\ fs[cur].file = disk[cur].file => fs'[cur].file = disk'[cur].file
    BY <1>5, <2>1
  <2>3. pc \in RecordSpots => Ready(what)'
    BY <1>1, <2>1, <2>2 DEF HandoffIInv, SpotOK, Ready, Both, Firm, Durable, Has
  <2> QED
    BY <1>1, <2>1, <2>2, <2>3 DEF HandoffIInv, SpotOK, Both, Firm, Durable, Has
<1>12. ReturnedOK'
  <2> SUFFICES ASSUME NEW u \in Lease, Returned(u) PROVE Returned(u)'
    BY <1>1 DEF HandoffIInv, ReturnedOK
  <2> QED
    BY <1>1, <1>5 DEF Returned, Has
<1>13. QueueOK'
  <2>1. \A u \in Lease : (Live(u)' <=> Live(u)) /\ fs'[u].ldir = fs[u].ldir
    BY <1>5 DEF Live
  <2>2. found # 0 => found \in Lease
    BY DEF HandoffIInv, HandoffTypeOK
  <2> QED
    BY <1>1, <2>1, <2>2 DEF HandoffIInv, QueueOK
<1> QED
  BY <1>7, <1>8, <1>9, <1>10, <1>11, <1>12, <1>13 DEF HandoffIInv

-----------------------------------------------------------------------------
\* The invariant holds of an empty destination,
LEMMA HandoffStarts ==
  ASSUME HandoffInit
  PROVE  HandoffIInv
<1>1. /\ fs = [t \in Lease |-> Gone] /\ disk = fs /\ forged = {} /\ handles = {}
      /\ pc = "idle" /\ routine = "none" /\ cur = 1 /\ todo = {} /\ found = 0
      /\ what = "intent" /\ pin = "own" /\ cut = {} /\ tampers = 0
  BY DEF HandoffInit
<1>2. Gone \in LeaseStates /\ 1 \in Lease
  BY LeaseAssumption DEF Gone, LeaseStates, NoRecord, NoFile, Lease
<1>3. HandoffTypeOK
  BY <1>1, <1>2 DEF HandoffTypeOK, Record
<1>4. /\ ~ Gone.ldir /\ Gone.rec = NoRecord /\ Gone.place = "none" /\ ~ Gone.sealed
      /\ Gone.file = NoFile
      /\ \A r \in Record : NoRecord[r] = "none"
      /\ \A f \in File : NoFile[f] = "none"
  BY DEF Gone, NoRecord, NoFile
<1>5. WholeLease(Gone, Gone, TRUE) /\ LeaseOK(Gone, Gone)
  BY <1>4 DEF WholeLease, LeaseOK, Exists, Durable, Record
<1>6. RoutineOK /\ SpotOK
  BY <1>1 DEF RoutineOK, SpotOK, RecordSpots
<1>7. WholeOK /\ EachOK
  BY <1>1, <1>5 DEF WholeOK, EachOK
<1>8. ReturnedOK /\ QueueOK
  BY <1>1, <1>4, AtLease DEF ReturnedOK, QueueOK, Live, Lease
<1> QED
  BY <1>3, <1>6, <1>7, <1>8 DEF HandoffIInv

\* when nothing happens,
LEMMA HandoffStutters ==
  ASSUME HandoffIInv, UNCHANGED handoffVars
  PROVE  HandoffIInv'
<1>1. /\ UNCHANGED <<fs, disk, forged, handles, cut, tampers>>
      /\ UNCHANGED <<pc, routine, cur, todo, found, what, pin>>
  BY DEF handoffVars, call, bounds
<1>2. HandoffTypeOK' /\ RoutineOK'
  BY <1>1 DEF HandoffIInv, HandoffTypeOK, RoutineOK
<1>3. WholeOK' /\ EachOK'
  BY <1>1 DEF HandoffIInv, WholeOK, EachOK, Settled
<1>4. SpotOK'
  BY <1>1 DEF HandoffIInv, SpotOK, Has, Both, Firm, Ready
<1>5. ReturnedOK'
  BY <1>1, ReturnedSame DEF HandoffIInv, ReturnedOK
<1>6. QueueOK'
  BY <1>1 DEF HandoffIInv, QueueOK, Live
<1> QED
  BY <1>2, <1>3, <1>4, <1>5, <1>6 DEF HandoffIInv

\* and after every step.
LEMMA HandoffSteps ==
  ASSUME HandoffIInv, [HandoffNext]_handoffVars
  PROVE  HandoffIInv'
BY StageStep, ExamineStep, FinishStep, DecideStep, RefuseStep,
   RemoveFileStep, RemoveHandoffStep, SyncRemovalStep, StopStep, RemoveRecordStep, RemoveLeaseStep,
   RemovedStep, AnswerStep, MakeLeaseStep, SyncMadeStep, CreateRecordStep, RenameRecordStep,
   SyncRecordStep, MakeStageStep, CopyStep, CopiedStep, SealStep, PublishStep, SyncPublishedStep,
   CompleteStep, CleanupStep, MismatchStep, RetireStep, MarkRetiringStep, SyncRetiringStep,
   RemoveRetiredStep, FailStep, CrashStep, ChangeStep, TamperStep, HandoffStutters
   DEF HandoffNext

\* The inductive invariant: for every set of operations, every number of leases,
\* of errors, kills, power failures and changes by another program.
THEOREM HandoffInvariant == HandoffSpec => []HandoffIInv
<1>1. HandoffInit => HandoffIInv
  BY HandoffStarts
<1>2. HandoffIInv /\ [HandoffNext]_handoffVars => HandoffIInv'
  BY HandoffSteps
<1> QED
  BY <1>1, <1>2, PTL DEF HandoffSpec

\* What the invariant says of every handoff that a guest or a caller finds.
LEMMA WholeInvariant ==
  ASSUME HandoffIInv
  PROVE  HandoffWhole
<1>1. ASSUME NEW t \in Lease \ cut, fs[t].place = "published", fs[t].sealed, NEW f \in File
      PROVE  fs[t].file[f] # "none"
  <2>1. CASE Settled(t)
    BY <1>1, <2>1 DEF HandoffIInv, WholeOK, WholeLease
  <2>2. CASE ~ Settled(t)
    <3>1. pc \in Removing /\ cur = t
      BY <1>1, <2>2 DEF Settled
    <3> QED
      BY <1>1, <3>1 DEF HandoffIInv, SpotOK, Both, Removing
  <2> QED
    BY <2>1, <2>2
<1>2. SealedComplete
  BY <1>1 DEF SealedComplete
<1>3. ASSUME tampers = 0, NEW t \in handles, fs[t].place = "published", ~ Has(t, "retiring")
      PROVE  /\ disk[t].ldir /\ disk[t].place = "published"
             /\ \A f \in File : disk[t].file[f] = "own"
             /\ \A r \in {"intent", "stage", "files"} : disk[t].rec[r] = "final"
  <2>1. t \in Lease
    BY DEF HandoffIInv, HandoffTypeOK
  <2>2. Returned(t)
    BY <2>1 DEF HandoffIInv, ReturnedOK
  <2> QED
    BY <1>3, <2>2 DEF Returned, Firm, Durable, Needed
<1>4. ReturnedDurable
  BY <1>3 DEF ReturnedDurable
<1> QED
  BY <1>2, <1>4 DEF HandoffWhole

\* A sealed handoff under its published name has every file, and what a call
\* returned survives the power: whatever fails, is killed or tampered with.
THEOREM HandoffsWhole == HandoffSpec => []HandoffWhole
<1>1. HandoffIInv => HandoffWhole
  BY WholeInvariant
<1> QED
  BY <1>1, HandoffInvariant, PTL

-----------------------------------------------------------------------------
\* No interrupted removal, and no other program: every lease is whole, and
\* there is at most one.
LEMMA OneLease ==
  ASSUME HandoffIInv, tampers = 0, cut = {}, pc \notin Removing
  PROVE  /\ \A t \in Lease : WholeLease(fs[t], disk[t], TRUE)
         /\ \A t \in Lease : fs[t].place # "none" => fs[t].ldir
         /\ \A t, u \in Lease : Live(t) /\ Live(u) => t = u
         /\ forged = {}
<1>1. \A t \in Lease : Settled(t)
  BY DEF Settled
<1>2. \A t \in Lease : WholeLease(fs[t], disk[t], TRUE)
  <2>1. (tampers = 0) = TRUE
    OBVIOUS
  <2> QED
    BY <1>1, <2>1 DEF HandoffIInv, WholeOK
<1>3. ASSUME NEW t \in Lease, fs[t].place # "none" PROVE fs[t].ldir
  <2>1. fs[t].rec["intent"] = "final"
    BY <1>2, <1>3 DEF WholeLease, Durable
  <2> QED
    BY <2>1 DEF HandoffIInv, EachOK, LeaseOK, NoRecord, Record
<1> QED
  BY <1>2, <1>3 DEF HandoffIInv, QueueOK, HandoffTypeOK

\* A lease without an intent holds no other record.
LEMMA ExamineNotAmbiguous ==
  ASSUME HandoffIInv, Examine, tampers = 0, cut = {}
  PROVE  pc' # "refuse"
<1>1. PICK t \in todo :
        \/ pc' = "partial" \/ pc' = "rmlease"
        \/ ~ Has(t, "intent") /\ Entries(t) \notin {{}, {"intent"}}
  BY DEF Examine, Goto
<1>2. t \in Lease /\ pc = "reconcile"
  BY DEF HandoffIInv, HandoffTypeOK, Examine
<1>3. WholeLease(fs[t], disk[t], TRUE)
  BY <1>2, OneLease DEF Removing
<1>4. ~ Has(t, "intent") => \A r \in Record \ {"intent"} : fs[t].rec[r] = "none"
  BY <1>3 DEF WholeLease, Exists, Durable, Has, Record
<1>5. ~ Has(t, "intent") => Entries(t) \in {{}, {"intent"}}
  BY <1>4 DEF Entries
<1> QED
  BY <1>1, <1>5

\* A published name has a lease.
LEMMA MakeLeaseNotUnleased ==
  ASSUME HandoffIInv, MakeLease, tampers = 0, cut = {}
  PROVE  pc' # "refuse"
<1>1. ASSUME NEW u \in Lease, fs[u].place = "published" PROVE FALSE
  <2>1. pc = "reconcile" /\ routine = "reconcile" /\ todo = {} /\ found = 0 /\ u # 0
    BY AtLease DEF MakeLease, HandoffIInv, RoutineOK, StageSpots, RecordSpots, Removing
  <2>2. fs[u].ldir
    BY <1>1, <2>1, OneLease DEF Removing
  <2> QED
    BY <2>1, <2>2 DEF HandoffIInv, QueueOK
<1> QED
  BY <1>1 DEF MakeLease, Return, Goto

\* What the reconciliation of a lease with an intent refuses.
LEMMA DecideRefuses ==
  ASSUME HandoffIInv, pc = "decide", tampers = 0, cut = {},
         ~ (DropsStage(cur) \/ Superseded(cur) \/ Recovered(cur) \/ DropsLease(cur)
            \/ (Published(cur) /\ ~ Has(cur, "published"))),
         Authentic(cur)
  PROVE  \/ Staged(cur) /\ ~ Has(cur, "files") /\ ~ Empty(cur)
         \/ /\ ~ (Staged(cur) /\ ~ Has(cur, "files"))
            /\ \/ Staged(cur) /\ Has(cur, "published")
               \/ Has(cur, "retiring") /\ ~ Has(cur, "published")
<1>1. /\ cur \in Lease /\ fs[cur] \in LeaseStates /\ WholeLease(fs[cur], disk[cur], TRUE)
      /\ Has(cur, "intent") /\ fs[cur].ldir /\ forged = {} /\ routine = "reconcile"
  <2>1. /\ cur \in Lease /\ fs[cur] \in LeaseStates
        /\ LeaseOK(fs[cur], disk[cur]) /\ Has(cur, "intent")
    BY AtLease DEF HandoffIInv, SpotOK
  <2>2. fs[cur].ldir
    BY <2>1 DEF Has, LeaseOK, NoRecord, Record
  <2> QED
    BY <2>1, <2>2, OneLease DEF HandoffIInv, RoutineOK, StageSpots, RecordSpots, Removing
<1>2. Named(cur) = IF fs[cur].place = "published" THEN {cur} ELSE {}
  <2>1. \A u \in Named(cur) : u = cur
    BY <1>1, OneLease DEF Named, Live, Removing
  <2> QED
    BY <1>1, <2>1 DEF Named
<1>3. found = 0
  BY <1>1, OneLease DEF HandoffIInv, HandoffTypeOK, QueueOK, Live, Removing
<1>4. /\ Has(cur, "published") \/ Has(cur, "retiring") => Has(cur, "files")
      /\ Has(cur, "files") => /\ Has(cur, "stage") /\ fs[cur].place # "none"
                              /\ Exact(cur) /\ Receipted(cur)
      /\ fs[cur].place = "published" => fs[cur].sealed /\ Has(cur, "files")
  BY <1>1 DEF WholeLease, Exists, Durable, Has, Exact, Receipted, Origin
<1>5. ASSUME Staged(cur), ~ Has(cur, "files") PROVE ~ Empty(cur)
  BY <1>2, <1>4, <1>5 DEF DropsStage, Coherent, Staged
<1>6. ASSUME Staged(cur), Has(cur, "files")
      PROVE  \/ Has(cur, "published")
             \/ Has(cur, "retiring") /\ ~ Has(cur, "published")
  BY <1>2, <1>4, <1>6 DEF DropsStage, Coherent, Staged
<1>7. ASSUME ~ Staged(cur) PROVE Has(cur, "retiring") /\ ~ Has(cur, "published")
  <2>1. CASE fs[cur].place = "none"
    BY <1>2, <1>4, <1>7, <2>1 DEF DropsLease, Coherent, Staged
  <2>2. CASE fs[cur].place = "published"
    BY <1>2, <1>3, <1>4, <1>7, <2>2 DEF Published, Superseded, Recovered, Coherent, Staged
  <2> QED
    BY <1>1, <1>7, <2>1, <2>2 DEF Staged, LeaseStates
<1> QED
  BY <1>5, <1>6, <1>7

\* Only three steps refuse.
LEMMA RecoveryStep ==
  ASSUME HandoffIInv, RestartRecovers, [HandoffNext]_handoffVars
  PROVE  RestartRecovers'
<1> SUFFICES ASSUME pc' = "refuse", tampers' = 0, cut' = {}
             PROVE  \/ why' = "recovery-required" /\ job'[cur'].gen # task'.gen
                    \/ /\ why' = "recovery-required"
                       /\ Staged(cur)' /\ ~ Has(cur, "files")' /\ ~ Empty(cur)'
                    \/ why' = "inconsistent" /\ Staged(cur)' /\ Has(cur, "published")'
                    \/ why' = "inconsistent" /\ Has(cur, "retiring")' /\ ~ Has(cur, "published")'
  BY DEF RestartRecovers
<1>1. CASE Examine
  <2>1. tampers = 0 /\ cut = {}
    BY <1>1 DEF Examine, world, bounds
  <2> QED
    BY <1>1, <2>1, ExamineNotAmbiguous
<1>2. CASE MakeLease
  <2>1. tampers = 0 /\ cut = {}
    BY <1>2 DEF MakeLease, world, bounds
  <2> QED
    BY <1>2, <2>1, MakeLeaseNotUnleased
<1>3. CASE Decide
  <2>1. /\ tampers = 0 /\ cut = {} /\ pc = "decide"
        /\ UNCHANGED <<fs, job, cur, task>>
        /\ ~ (DropsStage(cur) \/ Superseded(cur) \/ Recovered(cur) \/ DropsLease(cur)
              \/ (Published(cur) /\ ~ Has(cur, "published")))
        /\ why' = IF ~ Authentic(cur) \/ (Staged(cur) /\ ~ Has(cur, "files"))
                  THEN "recovery-required" ELSE "inconsistent"
    BY <1>3 DEF Decide, Goto, world, bounds
  <2>2. CASE ~ Authentic(cur)
    <3>1. forged = {}
      BY <2>1 DEF HandoffIInv, HandoffTypeOK
    <3>2. job[cur].gen # task.gen
      BY <2>2, <3>1 DEF Authentic
    <3> QED
      BY <2>1, <2>2, <3>2
  <2>3. CASE Authentic(cur)
    <3>1. /\ Staged(cur)' = Staged(cur) /\ Empty(cur)' = Empty(cur)
          /\ \A r \in {"files", "published", "retiring"} : Has(cur, r)' = Has(cur, r)
      BY <2>1 DEF Staged, Empty, Has
    <3> QED
      BY <2>1, <2>3, <3>1, DecideRefuses
  <2> QED
    BY <2>2, <2>3
<1>4. CASE Change \/ UNCHANGED handoffVars
  <2>1. UNCHANGED <<fs, job, cur, task, why, pc, tampers, cut>>
    BY <1>4 DEF Change, handoffVars, call, bounds
  <2> QED
    BY <2>1 DEF RestartRecovers, Staged, Has, Empty
<1>5. CASE Tamper
  BY <1>5 DEF Tamper, HandoffIInv, HandoffTypeOK
<1>6. CASE \/ Stage \/ Finish \/ Refuse \/ RemoveFile \/ RemoveHandoff \/ SyncRemoval \/ Stop
           \/ RemoveRecord \/ RemoveLease \/ Removed \/ Answer
  BY <1>6 DEF Stage, Finish, Refuse, RemoveFile, RemoveHandoff, SyncRemoval, Stop,
              RemoveRecord, RemoveLease, Removed, Answer, Goto, Return, call
<1>7. CASE \/ SyncMade \/ CreateRecord \/ RenameRecord \/ MakeStage \/ Copy \/ Copied \/ Seal
           \/ Publish \/ SyncPublished \/ Complete
  BY <1>7 DEF SyncMade, CreateRecord, RenameRecord, MakeStage, Copy, Copied, Seal,
              Publish, SyncPublished, Complete, Goto, Return, call
<1>8. CASE SyncRecord
  <2>1. what \in Record
    BY DEF HandoffIInv, HandoffTypeOK
  <2> QED
    BY <1>8, <2>1 DEF SyncRecord, Goto, Record
<1>9. CASE \/ Cleanup \/ Mismatch \/ Retire \/ MarkRetiring \/ SyncRetiring \/ RemoveRetired
           \/ Fail \/ Crash
  BY <1>9 DEF Cleanup, Mismatch, Retire, MarkRetiring, SyncRetiring, RemoveRetired, Fail, Crash,
              Goto, Return
<1> QED
  BY <1>1, <1>2, <1>3, <1>4, <1>5, <1>6, <1>7, <1>8, <1>9 DEF HandoffNext

\* A restart refuses nothing but the five cases that RestartRecovers names,
\* however many calls failed, were killed or lost the power before it.
THEOREM RestartsRecover == HandoffSpec => []RestartRecovers
<1>1. HandoffInit => RestartRecovers
  BY DEF HandoffInit, RestartRecovers
<1>2. HandoffIInv /\ RestartRecovers /\ [HandoffNext]_handoffVars => RestartRecovers'
  BY RecoveryStep
<1> QED
  BY <1>1, <1>2, HandoffInvariant, PTL DEF HandoffSpec

-----------------------------------------------------------------------------
\* A step loses no foreign file.
Keeps == \A t \in Lease, f \in File :
           fs[t].file[f] \in {"foreign", "forged"} => fs'[t].file[f] \in {"foreign", "forged"}

\* A step that changes no file of any lease.
LEMMA SameFiles ==
  ASSUME HandoffIInv,
         \/ UNCHANGED fs
         \/ \E r \in Record, v \in {"none", "tmp", "final"} : fs' = [fs EXCEPT ![cur].rec[r] = v]
         \/ \E v \in {"stage", "published"} : fs' = [fs EXCEPT ![cur].place = v]
         \/ \E v \in BOOLEAN : fs' = [fs EXCEPT ![cur].sealed = v]
         \/ \E c \in Lease, v \in BOOLEAN : fs' = [fs EXCEPT ![c].ldir = v]
         \/ fs' = [fs EXCEPT ![cur].place = "none", ![cur].sealed = FALSE]
  PROVE  Keeps
<1>1. cur \in Lease /\ fs \in [Lease -> LeaseStates]
  BY AtLease
<1>2. CASE UNCHANGED fs
  BY <1>2 DEF Keeps
<1>3. ASSUME NEW r \in Record, NEW v \in {"none", "tmp", "final"},
             fs' = [fs EXCEPT ![cur].rec[r] = v]
      PROVE  Keeps
  BY <1>1, <1>3, SetRecord DEF At, Keeps
<1>4. ASSUME NEW v \in {"stage", "published"}, fs' = [fs EXCEPT ![cur].place = v] PROVE Keeps
  BY <1>1, <1>4, SetPlace DEF At, Keeps
<1>5. ASSUME NEW v \in BOOLEAN, fs' = [fs EXCEPT ![cur].sealed = v] PROVE Keeps
  BY <1>1, <1>5, SetSealed DEF At, Keeps
<1>6. ASSUME NEW c \in Lease, NEW v \in BOOLEAN, fs' = [fs EXCEPT ![c].ldir = v] PROVE Keeps
  BY <1>1, <1>6, SetDirectory DEF At, Keeps
<1>7. CASE fs' = [fs EXCEPT ![cur].place = "none", ![cur].sealed = FALSE]
  BY <1>1, <1>7, SetPlaceSealed DEF At, Keeps
<1> QED
  BY <1>2, <1>3, <1>4, <1>5, <1>6, <1>7

\* No step of a call, and no power failure, removes a foreign file.
LEMMA ForeignStep ==
  ASSUME HandoffIInv, [HandoffNext]_handoffVars
  PROVE  Keeps
<1>1. /\ cur \in Lease /\ fs \in [Lease -> LeaseStates] /\ pin = "own" /\ what \in Record
      /\ \A t \in Lease : fs[t].file \in [File -> {"none", "own", "foreign", "forged"}]
      /\ \A t \in Lease : LeaseOK(fs[t], disk[t])
  BY AtLease DEF HandoffIInv, HandoffTypeOK, EachOK, LeaseStates
<1>2. CASE \/ Stage \/ Examine \/ Refuse \/ SyncRemoval \/ Stop \/ Removed \/ Answer \/ SyncMade
           \/ SyncRecord \/ Copied \/ SyncPublished \/ Complete \/ Mismatch \/ Retire
           \/ SyncRetiring \/ Fail \/ Change \/ UNCHANGED handoffVars
  <2>1. UNCHANGED fs
    BY <1>2 DEF Stage, Examine, Refuse, SyncRemoval, Stop, Removed, Answer, SyncMade,
       SyncRecord, Copied, SyncPublished, Complete, Mismatch, Retire, SyncRetiring, Fail, Change,
       handoffVars
  <2> QED
    BY <2>1, SameFiles
<1>3. CASE Finish \/ MarkRetiring \/ RemoveRecord \/ CreateRecord \/ RenameRecord
  <2>1. \/ UNCHANGED fs
        \/ \E r \in Record, v \in {"none", "tmp", "final"} : fs' = [fs EXCEPT ![cur].rec[r] = v]
    BY <1>1, <1>3 DEF Finish, MarkRetiring, RemoveRecord, CreateRecord, RenameRecord, Partial,
       Entries
  <2> QED
    BY <2>1, SameFiles
<1>4. CASE MakeStage \/ Publish
  <2>1. \E v \in {"stage", "published"} : fs' = [fs EXCEPT ![cur].place = v]
    BY <1>4 DEF MakeStage, Publish
  <2> QED
    BY <2>1, SameFiles
<1>5. CASE Decide \/ Seal \/ Cleanup \/ RemoveRetired
  <2>1. \/ UNCHANGED fs
        \/ \E v \in BOOLEAN : fs' = [fs EXCEPT ![cur].sealed = v]
    BY <1>5 DEF Decide, Seal, Cleanup, RemoveRetired
  <2> QED
    BY <2>1, SameFiles
<1>6. CASE RemoveLease
  <2>1. fs' = [fs EXCEPT ![cur].ldir = FALSE]
    BY <1>6 DEF RemoveLease
  <2> QED
    BY <1>1, <2>1, SameFiles
<1>7. CASE MakeLease
  <2>1. \/ UNCHANGED fs
        \/ \E t \in Lease : fs' = [fs EXCEPT ![t].ldir = TRUE]
    BY <1>7 DEF MakeLease
  <2> QED
    BY <2>1, SameFiles
<1>8. CASE RemoveHandoff
  <2>1. fs' = [fs EXCEPT ![cur].place = "none", ![cur].sealed = FALSE]
    BY <1>8 DEF RemoveHandoff
  <2> QED
    BY <2>1, SameFiles
<1>9. CASE RemoveFile
  <2>1. PICK f \in File : fs[cur].file[f] = "own" /\ fs' = [fs EXCEPT ![cur].file[f] = "none"]
    BY <1>1, <1>9 DEF RemoveFile
  <2>2. At(fs', fs, cur, fs[cur].ldir, fs[cur].rec, fs[cur].place, fs[cur].sealed,
           [fs[cur].file EXCEPT ![f] = "none"])
    BY <1>1, <2>1, SetFile
  <2> QED
    BY <1>1, <2>1, <2>2 DEF Keeps, At
<1>10. CASE Copy
  <2>1. PICK f \in File : fs[cur].file[f] = "none" /\ fs' = [fs EXCEPT ![cur].file[f] = "own"]
    BY <1>10 DEF Copy
  <2>2. At(fs', fs, cur, fs[cur].ldir, fs[cur].rec, fs[cur].place, fs[cur].sealed,
           [fs[cur].file EXCEPT ![f] = "own"])
    BY <1>1, <2>1, SetFile
  <2> QED
    BY <1>1, <2>1, <2>2 DEF Keeps, At
<1>11. CASE Crash
  <2>1. \/ UNCHANGED fs
        \/ \A t \in Lease : Mixed(fs[t], disk[t], fs'[t])
    BY <1>11, AfterMixed DEF Crash, HandoffIInv
  <2>2. CASE \A t \in Lease : Mixed(fs[t], disk[t], fs'[t])
    BY <1>1, <2>2 DEF LeaseOK, Mixed, Keeps
  <2> QED
    BY <2>1, <2>2, SameFiles
<1>12. CASE Tamper
  <2>1. PICK t \in Lease : \/ \E f \in File : fs' = [fs EXCEPT ![t].file[f] = "foreign"]
                           \/ fs' = [fs EXCEPT ![t].file = [f \in File |-> "forged"]]
    BY <1>12 DEF Tamper
  <2>2. ASSUME NEW f \in File, fs' = [fs EXCEPT ![t].file[f] = "foreign"] PROVE Keeps
    <3>1. At(fs', fs, t, fs[t].ldir, fs[t].rec, fs[t].place, fs[t].sealed,
             [fs[t].file EXCEPT ![f] = "foreign"])
      BY <1>1, <2>2, SetFile
    <3> QED
      BY <1>1, <3>1 DEF Keeps, At
  <2>3. CASE fs' = [fs EXCEPT ![t].file = [f \in File |-> "forged"]]
    <3>1. \A f \in File : fs'[t].file[f] = "forged"
      BY <1>1, <2>3 DEF LeaseStates
    <3>2. \A u \in Lease \ {t} : fs'[u] = fs[u]
      BY <1>1, <2>3
    <3> QED
      BY <3>1, <3>2 DEF Keeps
  <2> QED
    BY <2>1, <2>2, <2>3
<1> QED
  BY <1>2, <1>3, <1>4, <1>5, <1>6, <1>7, <1>8, <1>9, <1>10, <1>11, <1>12 DEF HandoffNext

\* What another program put into a handoff is never removed or overwritten by a
\* call, in any number of changes by that program.
THEOREM ForeignFilesKept == HandoffSpec => ForeignKept
<1>1. HandoffIInv /\ [HandoffNext]_handoffVars =>
        [\A t \in Lease, f \in File :
           fs[t].file[f] \in {"foreign", "forged"}
             => fs'[t].file[f] \in {"foreign", "forged"}]_handoffVars
  BY ForeignStep DEF Keeps
<1> QED
  BY <1>1, HandoffInvariant, PTL DEF HandoffSpec, ForeignKept
==============================================================================
