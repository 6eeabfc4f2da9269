---------------------------- MODULE OutputProofs ----------------------------
(***************************************************************************)
(* Theorems about OutputPublication, for every set of file identities and  *)
(* every bound on faults, power losses and outside changes; and, in the    *)
(* second half, about OutputReservation.                                   *)
(***************************************************************************)
EXTENDS OutputPublication, OutputReservation, WellFoundedInduction, TLAPS

(***************************************************************************)
(* The inductive invariant.                                                *)
(***************************************************************************)

\* Which steps each location of an attempt can be at.
StepsOK ==
  /\ pc = "idle" => step = 0
  /\ pc \in {"create", "fill"} => step \in 0..4
  /\ pc \in {"stage", "write", "sync", "seal", "unlink", "cleanup"}
       => step \in 1..2
  /\ pc \in {"publish", "rename", "syncfile", "syncdir", "check"}
       => step \in 3..4
  /\ pc = "accept" => step = 4
  /\ pc \in {"pairimage", "pairmanifest", "paircheck"} => step = 8

\* A record or receipt is absent, torn or complete; the attempt that writes it
\* finds it as it left it.
RootOK ==
  /\ \A n \in RootName : \A r \in rdisk[n] :
       r = Absent \/ r = Torn \/ r.state = "full"
  /\ pc = "fill" => root[step] = Torn
  /\ pc \in {"flush", "flushroot"} => IsFull(NameOf(step))
  /\ step \in 5..8 => \A n \in 1..4 : IsFull(n)

DurablyExact(k, i) == i \in Inode /\ \A f \in idisk[i] : f.data = k
Held(k) == DurablyExact(k, cap[k].file)

\* What a running attempt knows about the artifacts it holds.
CapOK ==
  /\ step \in 2..8 => Held("image")
  /\ step \in 3..8 => Held("manifest")
  /\ pc \in {"seal", "create", "fill", "flush", "flushroot"} /\ step \in 1..2
       => Held(KindOf(step))
  /\ pc \in {"write", "sync"} =>
       /\ cap[KindOf(step)].file \in Inode
       /\ inode[cap[KindOf(step)].file].data
            = IF pc = "write" THEN "partial" ELSE KindOf(step)

\* What it knows about the names of the artifact it publishes.
NamesOK ==
  LET k == KindOf(step)
  IN /\ pc = "rename" => /\ dir[k].stage = cap[k].file
                         /\ step = 4 => IsFull(3)
     /\ pc \in {"syncfile", "syncdir", "check"} => dir[k].stage = None
     /\ pc = "check" => disk[k] = {dir[k]}
     /\ pc \in {"create", "fill"} /\ step \in 3..4 =>
          disk[k] = {[stage |-> None, final |-> cap[k].file]}

\* What a receipt certifies, whichever of its values survives.
ReceiptsOK ==
  \A n \in 1..4 : \A r \in rdisk[n] : r.state = "full" =>
    /\ DurablyExact(KindOf(n), r.id.file)
    /\ n \in 3..4 =>
         \A p \in disk[KindOf(n)] : p = [stage |-> None, final |-> r.id.file]

\* A manifest that may be visible is exact beside a durably published image.
OrderOK ==
  \A p \in disk["manifest"] : p.final # None =>
    /\ DurablyExact("manifest", p.final)
    /\ \A q \in disk["image"] :
         q.stage = None /\ DurablyExact("image", q.final)

\* Receipts made durable by the acceptance so far.
NoLoss(n) == \A r \in rdisk[n] : r.state = "full"
AcceptOK ==
  /\ pc \in {"flush", "flushroot"} /\ step \in 5..8 =>
       \A n \in 1..(step - 5) : NoLoss(n)
  /\ pc = "flushroot" /\ step \in 5..8 => Torn \notin rdisk[step - 4]
  /\ pc \in {"pairimage", "pairmanifest", "paircheck"} \/ complete =>
       \A n \in 1..4 : NoLoss(n)

IInv == /\ TypeOK
        /\ StepsOK
        /\ RootOK
        /\ AcceptOK
        /\ Untouched => CapOK /\ NamesOK /\ ReceiptsOK /\ OrderOK

(***************************************************************************)
(* Types.                                                                  *)
(***************************************************************************)

\* The files, and the names, have their types and a possible durable value.
FilesTyped == /\ inode \in [Inode -> FileState]
              /\ idisk \in [Inode -> SUBSET FileState]
              /\ \A i \in Inode : inode[i] \in idisk[i]
PairsTyped == /\ dir \in [Kind -> Pair] /\ disk \in [Kind -> SUBSET Pair]
              /\ \A k \in Kind : dir[k] \in disk[k]

\* A write to a file, through a descriptor that may be empty, keeps the types.
LEMMA SetFileType ==
  ASSUME TypeOK, NEW i \in Inode \union {None}, NEW d \in Data, SetFile(i, d)
  PROVE  FilesTyped'
  <1>1. CASE i \in Inode
    <2>1. Changed(i, d) \in FileState
      BY <1>1 DEF TypeOK, FileState, Changed
    <2> QED BY <1>1, <2>1 DEF TypeOK, FilesTyped, SetFile
  <1>2. CASE i = None
    <2>1. inode' = inode /\ idisk' = idisk
      BY <1>2, NoneAssumption DEF SetFile, TypeOK
    <2> QED BY <2>1 DEF TypeOK, FilesTyped
  <1> QED BY <1>1, <1>2

\* So does the creation of a file,
LEMMA NewFileType ==
  ASSUME TypeOK, NEW i \in Inode, NEW d \in Data, NewFile(i, d)
  PROVE  FilesTyped'
  <1>1. Changed(i, d) \in FileState
    BY DEF TypeOK, FileState, Changed
  <1> QED BY <1>1 DEF TypeOK, FilesTyped, NewFile

\* the sync of one,
LEMMA SyncFileType ==
  ASSUME TypeOK, NEW i \in Inode \union {None}, SyncFile(i)
  PROVE  FilesTyped'
  <1>1. CASE i \in Inode
    BY <1>1 DEF TypeOK, FilesTyped, SyncFile
  <1>2. CASE i = None
    <2>1. inode' = inode /\ idisk' = idisk
      BY <1>2, NoneAssumption DEF SyncFile, TypeOK
    <2> QED BY <2>1 DEF TypeOK, FilesTyped
  <1> QED BY <1>1, <1>2

\* and a change of the names of one kind.
LEMMA SetPairType ==
  ASSUME TypeOK, NEW k \in Kind, NEW p \in Pair, SetPair(k, p)
  PROVE  PairsTyped'
  BY DEF TypeOK, PairsTyped, SetPair

\* Every step keeps the types.  A write or sync through the descriptor of the
\* attempt, and the three changes of another program, need the lemmas above.
LEMMA TypeStep == IInv /\ [Next]_vars => TypeOK'
  <1> SUFFICES ASSUME IInv, [Next]_vars PROVE TypeOK'
    OBVIOUS
  <1> USE NoneAssumption DEF dirVars, fileVars, rootVars, capVars, histVars,
     budget, Pair, Identity, NoIdentity, FileState, RootFile, RootName, Kind,
     Slot, Data, Step, Pc, Empty, Absent, Torn, Goto, KindOf, IInv, TypeOK,
     StepsOK, RootOK, IsFull, NameOf
  <1>1. CASE Acquire
    BY <1>1, SMTT(20) DEF Acquire
  <1>2. CASE Reopen
    BY <1>2, SMTT(20) DEF Reopen
  <1>3. CASE CreateRootFile
    BY <1>3, SMTT(20) DEF CreateRootFile, SetRoot
  <1>4. CASE FillRootFile
    BY <1>4, SMTT(20) DEF FillRootFile, SetRoot, Full
  <1>5. CASE FlushRootFile
    BY <1>5, SMTT(20) DEF FlushRootFile
  <1>6. CASE FlushRoot
    BY <1>6, SMTT(20) DEF FlushRoot, Advance
  <1>7. CASE AdoptStaged
    BY <1>7, SMTT(20) DEF AdoptStaged, Advance, IdentityOf, ExactArtifact,
       Candidate, Exact, StagedReceipt
  <1>8. CASE CreateStage
    BY <1>8, SMTT(20) DEF CreateStage, SetPair, NewFile, Changed, Fresh
  <1>9. CASE WriteStage
    <2>1. /\ cap[KindOf(step)].file \in Inode \union {None}
          /\ KindOf(step) \in Data
      BY <1>9 DEF Pc
    <2>2. FilesTyped'
      BY <1>9, <2>1, SetFileType DEF WriteStage
    <2> QED
      BY <1>9, <2>2 DEF FilesTyped, WriteStage
  <1>10. CASE SyncStage
    <2>1. /\ cap[KindOf(step)].file \in Inode \union {None}
          /\ KindOf(step) \in Data
      BY <1>10 DEF Pc
    <2>2. FilesTyped'
      BY <1>10, <2>1, SyncFileType DEF SyncStage
    <2> QED
      BY <1>10, <2>2 DEF FilesTyped, SyncStage
  <1>11. CASE SealStage
    BY <1>11, SMTT(20) DEF SealStage, StageIntact, Exact, IdentityOf
  <1>12. CASE FinishCleanup
    BY <1>12, SMTT(20) DEF FinishCleanup, SyncDir, Stop
  <1>13. CASE SkipPublished
    BY <1>13, SMTT(20) DEF SkipPublished, Advance
  <1>14. CASE BeginRename
    BY <1>14, SMTT(20) DEF BeginRename, RenameReady
  <1>15. CASE RenameNoReplace
    <2> DEFINE k == KindOf(step)
               i == dir[k].stage
    <2>1. /\ k \in Kind /\ i \in Inode /\ inode[i].data \in Data
          /\ [stage |-> None, final |-> i] \in Pair
      BY <1>15 DEF RenameNoReplace
    <2>2. SetPair(k, [stage |-> None, final |-> i]) /\ SetFile(i, inode[i].data)
      BY <1>15 DEF RenameNoReplace
    <2>3. FilesTyped' /\ PairsTyped'
      <3> HIDE DEF k, i
      <3> QED
        BY <2>1, <2>2, SetFileType, SetPairType
    <2> QED
      BY <1>15, <2>3, SMTT(20) DEF RenameNoReplace, FilesTyped, PairsTyped
  <1>16. CASE AlreadyRenamed
    BY <1>16, SMTT(20) DEF AlreadyRenamed
  <1>17. CASE SyncPublishedFile
    <2>1. /\ cap[KindOf(step)].file \in Inode \union {None}
          /\ KindOf(step) \in Data
      BY <1>17 DEF Pc
    <2>2. FilesTyped'
      BY <1>17, <2>1, SyncFileType DEF SyncPublishedFile
    <2> QED
      BY <1>17, <2>2 DEF FilesTyped, SyncPublishedFile
  <1>18. CASE SyncOutputDir
    BY <1>18, SMTT(20) DEF SyncOutputDir, SyncDir
  <1>19. CASE CheckPublished
    BY <1>19, SMTT(20) DEF CheckPublished, FinalIntact, Exact, IdentityOf
  <1>20. CASE AcceptChain
    BY <1>20, SMTT(20) DEF AcceptChain
  <1>21. CASE HashImage
    BY <1>21, SMTT(20) DEF HashImage, Observe, Exact, IdentityOf, PairExact
  <1>22. CASE HashManifest
    BY <1>22, SMTT(20) DEF HashManifest, Observe, Exact, IdentityOf, PairExact
  <1>23. CASE Complete
    BY <1>23, SMTT(20) DEF Complete, Stop
  <1>24. CASE Refuse
    BY <1>24, SMTT(20) DEF Refuse, Stop
  <1>25. CASE AbortStage
    BY <1>25, SMTT(20) DEF AbortStage
  <1>26. CASE UnlinkStage
    BY <1>26, SMTT(20) DEF UnlinkStage, SetPair
  <1>27. CASE Fail
    BY <1>27, SMTT(20) DEF Fail, Stop
  <1>28. CASE PowerLoss
    <2>1. dir' \in [Kind -> Pair] /\ disk' = [k \in Kind |-> {dir'[k]}]
      BY <1>28 DEF PowerLoss
    <2>2. /\ inode' \in [Inode -> FileState]
          /\ idisk' = [i \in Inode |-> {inode'[i]}]
      <3>1. PICK f \in [Inode -> UNION {idisk[i] : i \in Inode}] :
              (\A i \in Inode : f[i] \in idisk[i]) /\ inode' = f
        BY <1>28 DEF PowerLoss
      <3> QED
        BY <1>28, <3>1 DEF PowerLoss
    <2>3. /\ root' \in [RootName -> RootFile]
          /\ rdisk' = [n \in RootName |-> {root'[n]}]
      <3>1. PICK t \in rdisk[0] \X rdisk[1] \X rdisk[2] \X rdisk[3]
                         \X rdisk[4] :
              root' = [n \in RootName |-> t[n + 1]]
        BY <1>28 DEF PowerLoss
      <3>2. \A n \in RootName : t[n + 1] \in rdisk[n]
        OBVIOUS
      <3>3. \A n \in RootName : rdisk[n] \subseteq RootFile
        OBVIOUS
      <3>4. rdisk' = [n \in RootName |-> {root'[n]}]
        BY <1>28 DEF PowerLoss
      <3> HIDE DEF RootFile, RootName
      <3> QED
        BY <3>1, <3>2, <3>3, <3>4
    <2>4. /\ pc' \in Pc /\ step' \in Step /\ losses' \in Nat
          /\ cap' \in [Kind -> Identity \union {NoIdentity}]
          /\ seen' \in [Kind -> Identity \union {NoIdentity}]
          /\ UNCHANGED <<own, witness, complete, faults, tampers>>
      BY <1>28 DEF PowerLoss, Stop
    <2> QED
      BY <2>1, <2>2, <2>3, <2>4
  <1>29. CASE External
    <2>1. PICK k \in Kind, s \in Slot :
            Place(k, s) \/ Remove(k, s) \/ Rewrite(k, s)
      BY <1>29 DEF External
    <2>2. \A i \in Inode \union {None} : [dir[k] EXCEPT ![s] = i] \in Pair
      OBVIOUS
    <2>3. CASE Place(k, s)
      <3>1. PICK i \in Fresh, d \in {"foreign", k} :
              /\ SetPair(k, [dir[k] EXCEPT ![s] = i])
              /\ NewFile(i, d)
              /\ own' = own \ {i}
        BY <2>3 DEF Place
      <3>2. i \in Inode /\ d \in Data
        BY DEF Fresh
      <3>3. FilesTyped' /\ PairsTyped'
        BY <2>2, <3>1, <3>2, NewFileType, SetPairType
      <3> QED
        BY <2>3, <3>1, <3>3 DEF Place, Tamper, FilesTyped, PairsTyped
    <2>4. CASE Remove(k, s)
      <3>1. PairsTyped'
        BY <2>2, <2>4, SetPairType DEF Remove
      <3> QED
        BY <2>4, <3>1 DEF Remove, Tamper, PairsTyped
    <2>5. CASE Rewrite(k, s)
      <3>1. FilesTyped'
        BY <2>5, SetFileType DEF Rewrite
      <3> QED
        BY <2>5, <3>1 DEF Rewrite, Tamper, FilesTyped
    <2> QED
      BY <2>1, <2>3, <2>4, <2>5
  <1>30. CASE UNCHANGED vars
    BY <1>30 DEF vars
  <1> QED
    BY <1>1, <1>2, <1>3, <1>4, <1>5, <1>6, <1>7, <1>8, <1>9, <1>10, <1>11,
       <1>12, <1>13, <1>14, <1>15, <1>16, <1>17, <1>18, <1>19, <1>20, <1>21,
       <1>22, <1>23, <1>24, <1>25, <1>26, <1>27, <1>28, <1>29, <1>30 DEF Next,
       Attempt

(***************************************************************************)
(* Control and the receipts, whatever other programs do.                   *)
(***************************************************************************)

\* Every step keeps the locations and step numbers together.
LEMMA StepsStep == IInv /\ [Next]_vars => StepsOK'
  <1> SUFFICES ASSUME IInv, [Next]_vars PROVE StepsOK'
    OBVIOUS
  <1> USE NoneAssumption DEF dirVars, fileVars, rootVars, capVars, histVars,
     budget, Pair, Identity, NoIdentity, FileState, RootFile, RootName, Kind,
     Slot, Data, Step, Pc, Empty, Absent, Torn, Goto, KindOf, IInv, TypeOK,
     StepsOK
  <1>1. CASE Acquire
    BY <1>1, SMTT(20) DEF Acquire
  <1>2. CASE Reopen
    BY <1>2, SMTT(20) DEF Reopen
  <1>3. CASE CreateRootFile
    BY <1>3, SMTT(20) DEF CreateRootFile, SetRoot
  <1>4. CASE FillRootFile
    BY <1>4, SMTT(20) DEF FillRootFile, SetRoot, Full
  <1>5. CASE FlushRootFile
    BY <1>5, SMTT(20) DEF FlushRootFile
  <1>6. CASE FlushRoot
    BY <1>6, SMTT(20) DEF FlushRoot, Advance
  <1>7. CASE AdoptStaged
    BY <1>7, SMTT(20) DEF AdoptStaged, Advance, IdentityOf, ExactArtifact,
       Candidate, Exact, StagedReceipt
  <1>8. CASE CreateStage
    BY <1>8, SMTT(20) DEF CreateStage, SetPair, NewFile, Changed, Fresh
  <1>9. CASE WriteStage
    BY <1>9, SMTT(20) DEF WriteStage, SetFile, Changed
  <1>10. CASE SyncStage
    BY <1>10, SMTT(20) DEF SyncStage, SyncFile
  <1>11. CASE SealStage
    BY <1>11, SMTT(20) DEF SealStage, StageIntact, Exact, IdentityOf
  <1>12. CASE FinishCleanup
    BY <1>12, SMTT(20) DEF FinishCleanup, SyncDir, Stop
  <1>13. CASE SkipPublished
    BY <1>13, SMTT(20) DEF SkipPublished, Advance
  <1>14. CASE BeginRename
    BY <1>14, SMTT(20) DEF BeginRename, RenameReady
  <1>15. CASE RenameNoReplace
    BY <1>15, SMTT(20) DEF RenameNoReplace, SetPair, SetFile, Changed
  <1>16. CASE AlreadyRenamed
    BY <1>16, SMTT(20) DEF AlreadyRenamed
  <1>17. CASE SyncPublishedFile
    BY <1>17, SMTT(20) DEF SyncPublishedFile, SyncFile
  <1>18. CASE SyncOutputDir
    BY <1>18, SMTT(20) DEF SyncOutputDir, SyncDir
  <1>19. CASE CheckPublished
    BY <1>19, SMTT(20) DEF CheckPublished, FinalIntact, Exact, IdentityOf
  <1>20. CASE AcceptChain
    BY <1>20, SMTT(20) DEF AcceptChain
  <1>21. CASE HashImage
    BY <1>21, SMTT(20) DEF HashImage, Observe, Exact, IdentityOf, PairExact
  <1>22. CASE HashManifest
    BY <1>22, SMTT(20) DEF HashManifest, Observe, Exact, IdentityOf, PairExact
  <1>23. CASE Complete
    BY <1>23, SMTT(20) DEF Complete, Stop
  <1>24. CASE Refuse
    BY <1>24, SMTT(20) DEF Refuse, Stop
  <1>25. CASE AbortStage
    BY <1>25, SMTT(20) DEF AbortStage
  <1>26. CASE UnlinkStage
    BY <1>26, SMTT(20) DEF UnlinkStage, SetPair
  <1>27. CASE Fail
    BY <1>27, SMTT(20) DEF Fail, Stop
  <1>28. CASE PowerLoss
    BY <1>28, SMTT(20) DEF PowerLoss, Stop
  <1>29. CASE External
    BY <1>29, SMTT(20) DEF External, Place, Remove, Rewrite, Tamper, SetPair,
       SetFile, NewFile, Changed, Fresh
  <1>30. CASE UNCHANGED vars
    BY <1>30 DEF vars
  <1> QED
    BY <1>1, <1>2, <1>3, <1>4, <1>5, <1>6, <1>7, <1>8, <1>9, <1>10, <1>11,
       <1>12, <1>13, <1>14, <1>15, <1>16, <1>17, <1>18, <1>19, <1>20, <1>21,
       <1>22, <1>23, <1>24, <1>25, <1>26, <1>27, <1>28, <1>29, <1>30 DEF Next,
       Attempt

\* Every step keeps what is known of the record and the receipts.
LEMMA RootStep == IInv /\ [Next]_vars => RootOK'
  <1> SUFFICES ASSUME IInv, [Next]_vars PROVE RootOK'
    OBVIOUS
  <1> USE NoneAssumption DEF dirVars, fileVars, rootVars, capVars, histVars,
     budget, Pair, Identity, NoIdentity, FileState, RootFile, RootName, Kind,
     Slot, Data, Step, Pc, Empty, Absent, Torn, Goto, KindOf, IInv, TypeOK,
     StepsOK, RootOK, IsFull, NameOf, Full, ChainVerified, PredecessorVerified
  <1>1. CASE Acquire
    BY <1>1, SMTT(20) DEF Acquire
  <1>2. CASE Reopen
    BY <1>2, SMTT(20) DEF Reopen
  <1>3. CASE CreateRootFile
    BY <1>3, SMTT(20) DEF CreateRootFile, SetRoot
  <1>4. CASE FillRootFile
    BY <1>4, SMTT(20) DEF FillRootFile, SetRoot
  <1>5. CASE FlushRootFile
    BY <1>5, SMTT(20) DEF FlushRootFile
  <1>6. CASE FlushRoot
    BY <1>6, SMTT(20) DEF FlushRoot, Advance
  <1>7. CASE AdoptStaged
    BY <1>7, SMTT(20) DEF AdoptStaged, Advance, IdentityOf, ExactArtifact,
       Candidate, Exact, StagedReceipt
  <1>8. CASE CreateStage
    BY <1>8, SMTT(20) DEF CreateStage, SetPair, NewFile, Changed, Fresh
  <1>9. CASE WriteStage
    BY <1>9, SMTT(20) DEF WriteStage, SetFile, Changed
  <1>10. CASE SyncStage
    BY <1>10, SMTT(20) DEF SyncStage, SyncFile
  <1>11. CASE SealStage
    BY <1>11, SMTT(20) DEF SealStage, StageIntact, Exact, IdentityOf
  <1>12. CASE FinishCleanup
    BY <1>12, SMTT(20) DEF FinishCleanup, SyncDir, Stop
  <1>13. CASE SkipPublished
    BY <1>13, SMTT(20) DEF SkipPublished, Advance
  <1>14. CASE BeginRename
    BY <1>14, SMTT(20) DEF BeginRename, RenameReady
  <1>15. CASE RenameNoReplace
    BY <1>15, SMTT(20) DEF RenameNoReplace, SetPair, SetFile, Changed
  <1>16. CASE AlreadyRenamed
    BY <1>16, SMTT(20) DEF AlreadyRenamed
  <1>17. CASE SyncPublishedFile
    BY <1>17, SMTT(20) DEF SyncPublishedFile, SyncFile
  <1>18. CASE SyncOutputDir
    BY <1>18, SMTT(20) DEF SyncOutputDir, SyncDir
  <1>19. CASE CheckPublished
    BY <1>19, SMTT(20) DEF CheckPublished, FinalIntact, Exact, IdentityOf
  <1>20. CASE AcceptChain
    BY <1>20, SMTT(20) DEF AcceptChain
  <1>21. CASE HashImage
    BY <1>21, SMTT(20) DEF HashImage, Observe, Exact, IdentityOf, PairExact
  <1>22. CASE HashManifest
    BY <1>22, SMTT(20) DEF HashManifest, Observe, Exact, IdentityOf, PairExact
  <1>23. CASE Complete
    BY <1>23, SMTT(20) DEF Complete, Stop
  <1>24. CASE Refuse
    BY <1>24, SMTT(20) DEF Refuse, Stop
  <1>25. CASE AbortStage
    BY <1>25, SMTT(20) DEF AbortStage
  <1>26. CASE UnlinkStage
    BY <1>26, SMTT(20) DEF UnlinkStage, SetPair
  <1>27. CASE Fail
    BY <1>27, SMTT(20) DEF Fail, Stop
  <1>28. CASE PowerLoss
    BY <1>28, SMTT(20) DEF PowerLoss, Stop
  <1>29. CASE External
    BY <1>29, SMTT(20) DEF External, Place, Remove, Rewrite, Tamper, SetPair,
       SetFile, NewFile, Changed, Fresh
  <1>30. CASE UNCHANGED vars
    BY <1>30 DEF vars
  <1> QED
    BY <1>1, <1>2, <1>3, <1>4, <1>5, <1>6, <1>7, <1>8, <1>9, <1>10, <1>11,
       <1>12, <1>13, <1>14, <1>15, <1>16, <1>17, <1>18, <1>19, <1>20, <1>21,
       <1>22, <1>23, <1>24, <1>25, <1>26, <1>27, <1>28, <1>29, <1>30 DEF Next,
       Attempt

\* Every step keeps what the acceptance has made durable.
LEMMA AcceptStep == IInv /\ [Next]_vars => AcceptOK'
  <1> SUFFICES ASSUME IInv, [Next]_vars PROVE AcceptOK'
    OBVIOUS
  <1> USE NoneAssumption DEF dirVars, fileVars, rootVars, capVars, histVars,
     budget, Pair, Identity, NoIdentity, FileState, RootFile, RootName, Kind,
     Slot, Data, Step, Pc, Empty, Absent, Torn, Goto, KindOf, IInv, TypeOK,
     StepsOK, RootOK, AcceptOK, NoLoss, IsFull, NameOf, Full, ChainVerified,
     PredecessorVerified
  <1>1. CASE Acquire
    BY <1>1, SMTT(20) DEF Acquire
  <1>2. CASE Reopen
    BY <1>2, SMTT(20) DEF Reopen
  <1>3. CASE CreateRootFile
    BY <1>3, SMTT(20) DEF CreateRootFile, SetRoot
  <1>4. CASE FillRootFile
    BY <1>4, SMTT(20) DEF FillRootFile, SetRoot
  <1>5. CASE FlushRootFile
    BY <1>5, SMTT(20) DEF FlushRootFile
  <1>6. CASE FlushRoot
    BY <1>6, SMTT(20) DEF FlushRoot, Advance
  <1>7. CASE AdoptStaged
    BY <1>7, SMTT(20) DEF AdoptStaged, Advance, IdentityOf, ExactArtifact,
       Candidate, Exact, StagedReceipt
  <1>8. CASE CreateStage
    BY <1>8, SMTT(20) DEF CreateStage, SetPair, NewFile, Changed, Fresh
  <1>9. CASE WriteStage
    BY <1>9, SMTT(20) DEF WriteStage, SetFile, Changed
  <1>10. CASE SyncStage
    BY <1>10, SMTT(20) DEF SyncStage, SyncFile
  <1>11. CASE SealStage
    BY <1>11, SMTT(20) DEF SealStage, StageIntact, Exact, IdentityOf
  <1>12. CASE FinishCleanup
    BY <1>12, SMTT(20) DEF FinishCleanup, SyncDir, Stop
  <1>13. CASE SkipPublished
    BY <1>13, SMTT(20) DEF SkipPublished, Advance
  <1>14. CASE BeginRename
    BY <1>14, SMTT(20) DEF BeginRename, RenameReady
  <1>15. CASE RenameNoReplace
    BY <1>15, SMTT(20) DEF RenameNoReplace, SetPair, SetFile, Changed
  <1>16. CASE AlreadyRenamed
    BY <1>16, SMTT(20) DEF AlreadyRenamed
  <1>17. CASE SyncPublishedFile
    BY <1>17, SMTT(20) DEF SyncPublishedFile, SyncFile
  <1>18. CASE SyncOutputDir
    BY <1>18, SMTT(20) DEF SyncOutputDir, SyncDir
  <1>19. CASE CheckPublished
    BY <1>19, SMTT(20) DEF CheckPublished, FinalIntact, Exact, IdentityOf
  <1>20. CASE AcceptChain
    BY <1>20, SMTT(20) DEF AcceptChain
  <1>21. CASE HashImage
    BY <1>21, SMTT(20) DEF HashImage, Observe, Exact, IdentityOf, PairExact
  <1>22. CASE HashManifest
    BY <1>22, SMTT(20) DEF HashManifest, Observe, Exact, IdentityOf, PairExact
  <1>23. CASE Complete
    BY <1>23, SMTT(20) DEF Complete, Stop
  <1>24. CASE Refuse
    BY <1>24, SMTT(20) DEF Refuse, Stop
  <1>25. CASE AbortStage
    BY <1>25, SMTT(20) DEF AbortStage
  <1>26. CASE UnlinkStage
    BY <1>26, SMTT(20) DEF UnlinkStage, SetPair
  <1>27. CASE Fail
    BY <1>27, SMTT(20) DEF Fail, Stop
  <1>28. CASE PowerLoss
    BY <1>28, SMTT(20) DEF PowerLoss, Stop
  <1>29. CASE External
    BY <1>29, SMTT(20) DEF External, Place, Remove, Rewrite, Tamper, SetPair,
       SetFile, NewFile, Changed, Fresh
  <1>30. CASE UNCHANGED vars
    BY <1>30 DEF vars
  <1> QED
    BY <1>1, <1>2, <1>3, <1>4, <1>5, <1>6, <1>7, <1>8, <1>9, <1>10, <1>11,
       <1>12, <1>13, <1>14, <1>15, <1>16, <1>17, <1>18, <1>19, <1>20, <1>21,
       <1>22, <1>23, <1>24, <1>25, <1>26, <1>27, <1>28, <1>29, <1>30 DEF Next,
       Attempt

(***************************************************************************)
(* The artifacts, while no other program writes to the directory.          *)
(***************************************************************************)

\* Creating a stage disturbs nothing that is certified, because the new file is
\* one that nothing refers to.
LEMMA CreateStageStep ==
  ASSUME IInv, Untouched, CreateStage PROVE CapOK' /\ ReceiptsOK' /\ OrderOK'
  <1> DEFINE k == KindOf(step)
  <1>1. PICK i \in Fresh :
          /\ SetPair(k, [stage |-> i, final |-> None])
          /\ NewFile(i, "partial")
          /\ cap' = [cap EXCEPT ![k] = [file |-> i, ver |-> inode[i].ver + 1]]
    BY DEF CreateStage
  <1>2. /\ i \in Inode
        /\ \A j \in Kind : cap[j].file # i
        /\ \A j \in Kind : \A p \in disk[j] : p.final # i /\ p.stage # i
        /\ \A n \in RootName : \A r \in rdisk[n] : r.id.file # i
    BY <1>1 DEF Fresh, InUse, Slot
  <1>3. /\ pc = "stage" /\ pc' = "write" /\ step' = step /\ step \in 1..2
        /\ k \in Kind /\ dir[k] = Empty /\ dir[k] \in disk[k]
        /\ UNCHANGED <<root, rdisk>>
    BY DEF CreateStage, Goto, rootVars, IInv, StepsOK, KindOf, Kind, TypeOK
  <1>0. /\ \A j \in Inode \ {i} : idisk'[j] = idisk[j]
        /\ inode'[i].data = "partial"
        /\ disk' = [disk EXCEPT ![k] = @ \union {[stage |-> i, final |-> None]}]
    BY <1>1, <1>2 DEF NewFile, Changed, IInv, TypeOK, SetPair
  <1>11. \A j \in Inode \ {i}, x \in Kind :
           DurablyExact(x, j) => DurablyExact(x, j)'
    BY <1>0, <1>2 DEF DurablyExact, IInv, TypeOK
  <1>4. CapOK'
    BY <1>0, <1>1, <1>11, <1>2, <1>3 DEF IInv, TypeOK, CapOK, Held,
       DurablyExact, KindOf, Kind, Step
  <1>5. ReceiptsOK'
    <2> SUFFICES ASSUME NEW n \in 1..4, NEW r \in rdisk[n], r.state = "full"
                 PROVE  /\ DurablyExact(KindOf(n), r.id.file)'
                        /\ n \in 3..4 =>
                             \A p \in disk'[KindOf(n)] :
                               p = [stage |-> None, final |-> r.id.file]
      BY <1>3 DEF ReceiptsOK, DurablyExact
    <2>1. /\ DurablyExact(KindOf(n), r.id.file)
          /\ n \in 3..4 =>
               \A p \in disk[KindOf(n)] :
                 p = [stage |-> None, final |-> r.id.file]
      BY DEF ReceiptsOK, IInv
    <2>2. KindOf(n) \in Kind /\ r.id.file \in Inode \ {i} /\ r.id.file # None
      BY <1>2, <2>1, NoneAssumption DEF KindOf, Kind, DurablyExact, RootName
    <2>3. DurablyExact(KindOf(n), r.id.file)'
      BY <1>11, <2>1, <2>2
    <2>4. n \in 3..4 => KindOf(n) # k
      BY <1>3, <2>1, <2>2 DEF Empty
    <2> QED BY <1>0, <2>1, <2>2, <2>3, <2>4 DEF IInv, TypeOK
  <1>6. OrderOK'
    <2>1. \A p \in disk'["manifest"] : p.final # None => p \in disk["manifest"]
      BY <1>0, <1>3 DEF IInv, TypeOK, Kind
    <2>2. \A p \in disk["manifest"] :
            p.final # None => disk'["image"] = disk["image"]
      BY <1>0, <1>3, NoneAssumption DEF IInv, TypeOK, OrderOK, Kind, Empty,
         DurablyExact
    <2> QED
     BY <1>11, <1>2, <2>1, <2>2 DEF IInv, OrderOK, DurablyExact, Kind
  <1> QED BY <1>4, <1>5, <1>6

\* The rename of an artifact that is held durably exact keeps it so under either
\* name; for the manifest, receipt 3 says that the image is already there.
LEMMA RenameStep ==
  ASSUME IInv, Untouched, RenameNoReplace PROVE CapOK' /\ OrderOK'
  <1>0. PICK k \in Kind, i \in Inode : k = KindOf(step) /\ i = dir[k].stage
    BY NoneAssumption DEF RenameNoReplace, IInv, TypeOK, KindOf, Kind, Pair
  <1>1. /\ pc = "rename" /\ pc' = "syncfile" /\ step' = step /\ step \in 3..4
        /\ dir[k] \in disk[k] /\ rdisk' = rdisk /\ root' = root /\ cap' = cap
        /\ i = cap[k].file
        /\ disk' = [disk EXCEPT ![k] = @ \union {[stage |-> None, final |-> i]}]
        /\ step = 4 => IsFull(3)
    BY <1>0, NoneAssumption DEF RenameNoReplace, Goto, SetPair, rootVars,
       capVars, IInv, StepsOK, KindOf, Kind, TypeOK, Pair, NamesOK
  <1>2. /\ inode[i] \in FileState /\ inode[i] \in idisk[i]
        /\ \A f \in idisk[i] : f.data = k
    BY <1>0, <1>1 DEF IInv, TypeOK, CapOK, Held, DurablyExact, KindOf
  <1>3. /\ \A j \in Inode \ {i} : idisk'[j] = idisk[j]
        /\ \A f \in idisk'[i] : f.data = k
    BY <1>0, <1>1, <1>2 DEF RenameNoReplace, SetFile, Changed, IInv, TypeOK,
       FileState
  <1>4. \A j \in Inode, x \in Kind : DurablyExact(x, j) => DurablyExact(x, j)'
    BY <1>0, <1>1, <1>2, <1>3 DEF DurablyExact, IInv, TypeOK
  <1>5. CapOK'
    <2>1. step' \in 3..4 /\ pc' = "syncfile" /\ \A x \in Kind : Held(x)
      BY <1>1 DEF IInv, CapOK, Kind
    <2>2. \A x \in Kind : Held(x)'
      BY <1>1, <1>4, <2>1 DEF Held, DurablyExact
    <2> QED BY <2>1, <2>2 DEF CapOK, Kind, KindOf
  <1>7. DurablyExact(k, i)'
    BY <1>0, <1>1, <1>3 DEF DurablyExact
  <1>8. CASE step = 3
    <2>1. disk'["manifest"] = disk["manifest"] /\ k = "image"
      BY <1>0, <1>1, <1>8 DEF KindOf, IInv, TypeOK, Kind
    <2>2. \A p \in disk["manifest"] : p.final = None
      BY <1>0, <1>1, <2>1, NoneAssumption DEF IInv, OrderOK
    <2> QED BY <2>1, <2>2, <1>5 DEF OrderOK
  <1>9. CASE step = 4
    <2>1. \A q \in disk["image"] :
            q.stage = None /\ DurablyExact("image", q.final)
      <3>1. IsFull(3) /\ root[3] \in rdisk[3]
        BY <1>1, <1>9 DEF IInv, TypeOK, RootName
      <3> QED BY <3>1 DEF IInv, ReceiptsOK, KindOf, IsFull
    <2>2. disk'["image"] = disk["image"] /\ k = "manifest"
      BY <1>0, <1>1, <1>9 DEF KindOf, IInv, TypeOK, Kind
    <2>3. \A q \in disk'["image"] :
            q.stage = None /\ DurablyExact("image", q.final)'
      BY <1>4, <2>1, <2>2 DEF Kind, DurablyExact
    <2>5. disk'["manifest"] =
            disk["manifest"] \union {[stage |-> None, final |-> i]}
      BY <1>1, <2>2 DEF IInv, TypeOK, Kind
    <2>4. \A p \in disk'["manifest"] :
            p.final # None => DurablyExact("manifest", p.final)'
      BY <1>1, <1>4, <1>7, <2>2, <2>5 DEF IInv, OrderOK, DurablyExact, Kind
    <2> QED BY <2>3, <2>4, <1>5 DEF OrderOK
  <1> QED BY <1>1, <1>5, <1>8, <1>9

\* Every step keeps what the attempt knows of its artifacts.
LEMMA CapStep == IInv /\ [Next]_vars => (Untouched => CapOK)'
  <1> SUFFICES ASSUME IInv, [Next]_vars PROVE (Untouched => CapOK)'
    OBVIOUS
  <1> USE NoneAssumption DEF dirVars, fileVars, rootVars, capVars, histVars,
     budget, Pair, Identity, NoIdentity, FileState, RootFile, RootName, Kind,
     Slot, Data, Step, Pc, Empty, Absent, Torn, Goto, KindOf, IInv, TypeOK,
     StepsOK, RootOK, CapOK, NamesOK, ReceiptsOK, OrderOK, Held, DurablyExact,
     Untouched, IsFull, NameOf, Full, StagedReceipt
  <1>1. CASE Acquire
    BY <1>1, SMTT(20) DEF Acquire
  <1>2. CASE Reopen
    BY <1>2, SMTT(20) DEF Reopen
  <1>3. CASE CreateRootFile
    BY <1>3, SMTT(20) DEF CreateRootFile, SetRoot
  <1>4. CASE FillRootFile
    BY <1>4, SMTT(20) DEF FillRootFile, SetRoot
  <1>5. CASE FlushRootFile
    BY <1>5, SMTT(20) DEF FlushRootFile
  <1>6. CASE FlushRoot
    BY <1>6, SMTT(20) DEF FlushRoot, Advance
  <1>7. CASE AdoptStaged
    <2> SUFFICES ASSUME Untouched PROVE CapOK'
      BY <1>7 DEF AdoptStaged
    <2>1. PICK k \in Kind : k = KindOf(step) /\ step = StagedReceipt(k)
      BY <1>7 DEF AdoptStaged
    <2>2. Candidate(k) \in Inode /\ DurablyExact(k, Candidate(k))
      BY <1>7, <2>1 DEF AdoptStaged, ExactArtifact, Candidate
    <2>3. Held(k)' /\ \A x \in Kind \ {k} : Held(x) => Held(x)'
      BY <1>7, <2>1, <2>2 DEF AdoptStaged, IdentityOf
    <2>4. \/ step = 1 /\ step' = 2 /\ pc' = "stage"
          \/ step = 2 /\ step' = 3 /\ pc' = "publish"
      BY <1>7 DEF AdoptStaged, Advance
    <2> QED
      BY <2>1, <2>3, <2>4
  <1>8. CASE CreateStage
    BY <1>8, CreateStageStep DEF CreateStage
  <1>9. CASE WriteStage
    BY <1>9, SMTT(20) DEF WriteStage, SetFile, Changed
  <1>10. CASE SyncStage
    BY <1>10, SMTT(20) DEF SyncStage, SyncFile
  <1>11. CASE SealStage
    BY <1>11, SMTT(20) DEF SealStage, StageIntact, Exact, IdentityOf
  <1>12. CASE FinishCleanup
    BY <1>12, SMTT(20) DEF FinishCleanup, SyncDir, Stop
  <1>13. CASE SkipPublished
    BY <1>13, SMTT(20) DEF SkipPublished, Advance
  <1>14. CASE BeginRename
    BY <1>14, SMTT(20) DEF BeginRename, RenameReady, IdentityOf,
       PredecessorVerified
  <1>15. CASE RenameNoReplace
    BY <1>15, RenameStep DEF RenameNoReplace
  <1>16. CASE AlreadyRenamed
    BY <1>16, SMTT(20) DEF AlreadyRenamed
  <1>17. CASE SyncPublishedFile
    BY <1>17, SMTT(20) DEF SyncPublishedFile, SyncFile
  <1>18. CASE SyncOutputDir
    BY <1>18, SMTT(20) DEF SyncOutputDir, SyncDir
  <1>19. CASE CheckPublished
    BY <1>19, SMTT(20) DEF CheckPublished, FinalIntact, Exact, IdentityOf
  <1>20. CASE AcceptChain
    BY <1>20, SMTT(20) DEF AcceptChain
  <1>21. CASE HashImage
    BY <1>21, SMTT(20) DEF HashImage, Observe, Exact, IdentityOf, PairExact
  <1>22. CASE HashManifest
    BY <1>22, SMTT(20) DEF HashManifest, Observe, Exact, IdentityOf, PairExact
  <1>23. CASE Complete
    BY <1>23, SMTT(20) DEF Complete, Stop
  <1>24. CASE Refuse
    BY <1>24, SMTT(20) DEF Refuse, Stop
  <1>25. CASE AbortStage
    BY <1>25, SMTT(20) DEF AbortStage
  <1>26. CASE UnlinkStage
    BY <1>26, SMTT(20) DEF UnlinkStage, SetPair
  <1>27. CASE Fail
    BY <1>27, SMTT(20) DEF Fail, Stop
  <1>28. CASE PowerLoss
    BY <1>28, SMTT(20) DEF PowerLoss, Stop
  <1>29. CASE External
    <2>1. PICK k \in Kind, s \in Slot :
            Place(k, s) \/ Remove(k, s) \/ Rewrite(k, s)
      BY <1>29 DEF External
    <2>2. CASE Place(k, s)
      BY <2>2, SMTT(20) DEF Place, Tamper, SetPair, SetFile, NewFile, Fresh
    <2>3. CASE Remove(k, s)
      BY <2>3, SMTT(20) DEF Remove, Tamper, SetPair
    <2>4. CASE Rewrite(k, s)
      BY <2>4, SMTT(20) DEF Rewrite, Tamper, SetFile, Changed
    <2> QED
      BY <2>1, <2>2, <2>3, <2>4
  <1>30. CASE UNCHANGED vars
    BY <1>30 DEF vars
  <1> QED
    BY <1>1, <1>2, <1>3, <1>4, <1>5, <1>6, <1>7, <1>8, <1>9, <1>10, <1>11,
       <1>12, <1>13, <1>14, <1>15, <1>16, <1>17, <1>18, <1>19, <1>20, <1>21,
       <1>22, <1>23, <1>24, <1>25, <1>26, <1>27, <1>28, <1>29, <1>30 DEF Next,
       Attempt

\* Every step keeps what the attempt knows of their names.
LEMMA NamesStep == IInv /\ [Next]_vars => (Untouched => NamesOK)'
  <1> SUFFICES ASSUME IInv, [Next]_vars PROVE (Untouched => NamesOK)'
    OBVIOUS
  <1> USE NoneAssumption DEF dirVars, fileVars, rootVars, capVars, histVars,
     budget, Pair, Identity, NoIdentity, FileState, RootFile, RootName, Kind,
     Slot, Data, Step, Pc, Empty, Absent, Torn, Goto, KindOf, IInv, TypeOK,
     StepsOK, RootOK, CapOK, NamesOK, ReceiptsOK, OrderOK, Held, DurablyExact,
     Untouched, IsFull, NameOf, Full, StagedReceipt
  <1>1. CASE Acquire
    BY <1>1, SMTT(20) DEF Acquire
  <1>2. CASE Reopen
    BY <1>2, SMTT(20) DEF Reopen
  <1>3. CASE CreateRootFile
    BY <1>3, SMTT(20) DEF CreateRootFile, SetRoot
  <1>4. CASE FillRootFile
    BY <1>4, SMTT(20) DEF FillRootFile, SetRoot
  <1>5. CASE FlushRootFile
    BY <1>5, SMTT(20) DEF FlushRootFile
  <1>6. CASE FlushRoot
    BY <1>6, SMTT(20) DEF FlushRoot, Advance
  <1>7. CASE AdoptStaged
    BY <1>7, SMTT(20) DEF AdoptStaged, Advance, IdentityOf, ExactArtifact,
       Candidate, Exact
  <1>8. CASE CreateStage
    BY <1>8, SMTT(20) DEF CreateStage, SetPair, NewFile, Changed, Fresh
  <1>9. CASE WriteStage
    BY <1>9, SMTT(20) DEF WriteStage, SetFile, Changed
  <1>10. CASE SyncStage
    BY <1>10, SMTT(20) DEF SyncStage, SyncFile
  <1>11. CASE SealStage
    BY <1>11, SMTT(20) DEF SealStage, StageIntact, Exact, IdentityOf
  <1>12. CASE FinishCleanup
    BY <1>12, SMTT(20) DEF FinishCleanup, SyncDir, Stop
  <1>13. CASE SkipPublished
    BY <1>13, SMTT(20) DEF SkipPublished, Advance
  <1>14. CASE BeginRename
    BY <1>14, SMTT(20) DEF BeginRename, RenameReady, IdentityOf,
       PredecessorVerified
  <1>15. CASE RenameNoReplace
    BY <1>15, SMTT(20) DEF RenameNoReplace, SetPair, SetFile, Changed
  <1>16. CASE AlreadyRenamed
    BY <1>16, SMTT(20) DEF AlreadyRenamed
  <1>17. CASE SyncPublishedFile
    BY <1>17, SMTT(20) DEF SyncPublishedFile, SyncFile
  <1>18. CASE SyncOutputDir
    BY <1>18, SMTT(20) DEF SyncOutputDir, SyncDir
  <1>19. CASE CheckPublished
    BY <1>19, SMTT(20) DEF CheckPublished, FinalIntact, Exact, IdentityOf
  <1>20. CASE AcceptChain
    BY <1>20, SMTT(20) DEF AcceptChain
  <1>21. CASE HashImage
    BY <1>21, SMTT(20) DEF HashImage, Observe, Exact, IdentityOf, PairExact
  <1>22. CASE HashManifest
    BY <1>22, SMTT(20) DEF HashManifest, Observe, Exact, IdentityOf, PairExact
  <1>23. CASE Complete
    BY <1>23, SMTT(20) DEF Complete, Stop
  <1>24. CASE Refuse
    BY <1>24, SMTT(20) DEF Refuse, Stop
  <1>25. CASE AbortStage
    BY <1>25, SMTT(20) DEF AbortStage
  <1>26. CASE UnlinkStage
    BY <1>26, SMTT(20) DEF UnlinkStage, SetPair
  <1>27. CASE Fail
    BY <1>27, SMTT(20) DEF Fail, Stop
  <1>28. CASE PowerLoss
    BY <1>28, SMTT(20) DEF PowerLoss, Stop
  <1>29. CASE External
    BY <1>29, SMTT(20) DEF External, Place, Remove, Rewrite, Tamper, SetPair,
       SetFile, NewFile, Changed, Fresh
  <1>30. CASE UNCHANGED vars
    BY <1>30 DEF vars
  <1> QED
    BY <1>1, <1>2, <1>3, <1>4, <1>5, <1>6, <1>7, <1>8, <1>9, <1>10, <1>11,
       <1>12, <1>13, <1>14, <1>15, <1>16, <1>17, <1>18, <1>19, <1>20, <1>21,
       <1>22, <1>23, <1>24, <1>25, <1>26, <1>27, <1>28, <1>29, <1>30 DEF Next,
       Attempt

\* Every step keeps what the receipts certify.
LEMMA ReceiptsStep == IInv /\ [Next]_vars => (Untouched => ReceiptsOK)'
  <1> SUFFICES ASSUME IInv, [Next]_vars PROVE (Untouched => ReceiptsOK)'
    OBVIOUS
  <1> USE NoneAssumption DEF dirVars, fileVars, rootVars, capVars, histVars,
     budget, Pair, Identity, NoIdentity, FileState, RootFile, RootName, Kind,
     Slot, Data, Step, Pc, Empty, Absent, Torn, Goto, KindOf, IInv, TypeOK,
     StepsOK, RootOK, CapOK, NamesOK, ReceiptsOK, OrderOK, Held, DurablyExact,
     Untouched, IsFull, NameOf, Full, StagedReceipt
  <1>1. CASE Acquire
    BY <1>1, SMTT(20) DEF Acquire
  <1>2. CASE Reopen
    BY <1>2, SMTT(20) DEF Reopen
  <1>3. CASE CreateRootFile
    BY <1>3, SMTT(20) DEF CreateRootFile, SetRoot
  <1>4. CASE FillRootFile
    BY <1>4, SMTT(20) DEF FillRootFile, SetRoot
  <1>5. CASE FlushRootFile
    BY <1>5, SMTT(20) DEF FlushRootFile
  <1>6. CASE FlushRoot
    BY <1>6, SMTT(20) DEF FlushRoot, Advance
  <1>7. CASE AdoptStaged
    BY <1>7, SMTT(20) DEF AdoptStaged, Advance, IdentityOf, ExactArtifact,
       Candidate, Exact
  <1>8. CASE CreateStage
    BY <1>8, CreateStageStep DEF CreateStage
  <1>9. CASE WriteStage
    BY <1>9, SMTT(20) DEF WriteStage, SetFile, Changed
  <1>10. CASE SyncStage
    BY <1>10, SMTT(20) DEF SyncStage, SyncFile
  <1>11. CASE SealStage
    BY <1>11, SMTT(20) DEF SealStage, StageIntact, Exact, IdentityOf
  <1>12. CASE FinishCleanup
    BY <1>12, SMTT(20) DEF FinishCleanup, SyncDir, Stop
  <1>13. CASE SkipPublished
    BY <1>13, SMTT(20) DEF SkipPublished, Advance
  <1>14. CASE BeginRename
    BY <1>14, SMTT(20) DEF BeginRename, RenameReady, IdentityOf,
       PredecessorVerified
  <1>15. CASE RenameNoReplace
    BY <1>15, SMTT(20) DEF RenameNoReplace, SetPair, SetFile, Changed
  <1>16. CASE AlreadyRenamed
    BY <1>16, SMTT(20) DEF AlreadyRenamed
  <1>17. CASE SyncPublishedFile
    BY <1>17, SMTT(20) DEF SyncPublishedFile, SyncFile
  <1>18. CASE SyncOutputDir
    BY <1>18, SMTT(20) DEF SyncOutputDir, SyncDir
  <1>19. CASE CheckPublished
    BY <1>19, SMTT(20) DEF CheckPublished, FinalIntact, Exact, IdentityOf
  <1>20. CASE AcceptChain
    BY <1>20, SMTT(20) DEF AcceptChain
  <1>21. CASE HashImage
    BY <1>21, SMTT(20) DEF HashImage, Observe, Exact, IdentityOf, PairExact
  <1>22. CASE HashManifest
    BY <1>22, SMTT(20) DEF HashManifest, Observe, Exact, IdentityOf, PairExact
  <1>23. CASE Complete
    BY <1>23, SMTT(20) DEF Complete, Stop
  <1>24. CASE Refuse
    BY <1>24, SMTT(20) DEF Refuse, Stop
  <1>25. CASE AbortStage
    BY <1>25, SMTT(20) DEF AbortStage
  <1>26. CASE UnlinkStage
    BY <1>26, SMTT(20) DEF UnlinkStage, SetPair
  <1>27. CASE Fail
    BY <1>27, SMTT(20) DEF Fail, Stop
  <1>28. CASE PowerLoss
    BY <1>28, SMTT(20) DEF PowerLoss, Stop
  <1>29. CASE External
    BY <1>29, SMTT(20) DEF External, Place, Remove, Rewrite, Tamper, SetPair,
       SetFile, NewFile, Changed, Fresh
  <1>30. CASE UNCHANGED vars
    BY <1>30 DEF vars
  <1> QED
    BY <1>1, <1>2, <1>3, <1>4, <1>5, <1>6, <1>7, <1>8, <1>9, <1>10, <1>11,
       <1>12, <1>13, <1>14, <1>15, <1>16, <1>17, <1>18, <1>19, <1>20, <1>21,
       <1>22, <1>23, <1>24, <1>25, <1>26, <1>27, <1>28, <1>29, <1>30 DEF Next,
       Attempt

\* Every step keeps the image before the manifest.
LEMMA OrderStep == IInv /\ [Next]_vars => (Untouched => OrderOK)'
  <1> SUFFICES ASSUME IInv, [Next]_vars PROVE (Untouched => OrderOK)'
    OBVIOUS
  <1> USE NoneAssumption DEF dirVars, fileVars, rootVars, capVars, histVars,
     budget, Pair, Identity, NoIdentity, FileState, RootFile, RootName, Kind,
     Slot, Data, Step, Pc, Empty, Absent, Torn, Goto, KindOf, IInv, TypeOK,
     StepsOK, RootOK, CapOK, NamesOK, ReceiptsOK, OrderOK, Held, DurablyExact,
     Untouched, IsFull, NameOf, Full, StagedReceipt
  <1>1. CASE Acquire
    BY <1>1, SMTT(20) DEF Acquire
  <1>2. CASE Reopen
    BY <1>2, SMTT(20) DEF Reopen
  <1>3. CASE CreateRootFile
    BY <1>3, SMTT(20) DEF CreateRootFile, SetRoot
  <1>4. CASE FillRootFile
    BY <1>4, SMTT(20) DEF FillRootFile, SetRoot
  <1>5. CASE FlushRootFile
    BY <1>5, SMTT(20) DEF FlushRootFile
  <1>6. CASE FlushRoot
    BY <1>6, SMTT(20) DEF FlushRoot, Advance
  <1>7. CASE AdoptStaged
    BY <1>7, SMTT(20) DEF AdoptStaged, Advance, IdentityOf, ExactArtifact,
       Candidate, Exact
  <1>8. CASE CreateStage
    BY <1>8, CreateStageStep DEF CreateStage
  <1>9. CASE WriteStage
    BY <1>9, SMTT(20) DEF WriteStage, SetFile, Changed
  <1>10. CASE SyncStage
    BY <1>10, SMTT(20) DEF SyncStage, SyncFile
  <1>11. CASE SealStage
    BY <1>11, SMTT(20) DEF SealStage, StageIntact, Exact, IdentityOf
  <1>12. CASE FinishCleanup
    BY <1>12, SMTT(20) DEF FinishCleanup, SyncDir, Stop
  <1>13. CASE SkipPublished
    BY <1>13, SMTT(20) DEF SkipPublished, Advance
  <1>14. CASE BeginRename
    BY <1>14, SMTT(20) DEF BeginRename, RenameReady, IdentityOf,
       PredecessorVerified
  <1>15. CASE RenameNoReplace
    BY <1>15, RenameStep DEF RenameNoReplace
  <1>16. CASE AlreadyRenamed
    BY <1>16, SMTT(20) DEF AlreadyRenamed
  <1>17. CASE SyncPublishedFile
    BY <1>17, SMTT(20) DEF SyncPublishedFile, SyncFile
  <1>18. CASE SyncOutputDir
    BY <1>18, SMTT(20) DEF SyncOutputDir, SyncDir
  <1>19. CASE CheckPublished
    BY <1>19, SMTT(20) DEF CheckPublished, FinalIntact, Exact, IdentityOf
  <1>20. CASE AcceptChain
    BY <1>20, SMTT(20) DEF AcceptChain
  <1>21. CASE HashImage
    BY <1>21, SMTT(20) DEF HashImage, Observe, Exact, IdentityOf, PairExact
  <1>22. CASE HashManifest
    BY <1>22, SMTT(20) DEF HashManifest, Observe, Exact, IdentityOf, PairExact
  <1>23. CASE Complete
    BY <1>23, SMTT(20) DEF Complete, Stop
  <1>24. CASE Refuse
    BY <1>24, SMTT(20) DEF Refuse, Stop
  <1>25. CASE AbortStage
    BY <1>25, SMTT(20) DEF AbortStage
  <1>26. CASE UnlinkStage
    BY <1>26, SMTT(20) DEF UnlinkStage, SetPair
  <1>27. CASE Fail
    BY <1>27, SMTT(20) DEF Fail, Stop
  <1>28. CASE PowerLoss
    BY <1>28, SMTT(20) DEF PowerLoss, Stop
  <1>29. CASE External
    BY <1>29, SMTT(20) DEF External, Place, Remove, Rewrite, Tamper, SetPair,
       SetFile, NewFile, Changed, Fresh
  <1>30. CASE UNCHANGED vars
    BY <1>30 DEF vars
  <1> QED
    BY <1>1, <1>2, <1>3, <1>4, <1>5, <1>6, <1>7, <1>8, <1>9, <1>10, <1>11,
       <1>12, <1>13, <1>14, <1>15, <1>16, <1>17, <1>18, <1>19, <1>20, <1>21,
       <1>22, <1>23, <1>24, <1>25, <1>26, <1>27, <1>28, <1>29, <1>30 DEF Next,
       Attempt

(***************************************************************************)
(* The theorems.                                                           *)
(***************************************************************************)

\* The invariant holds initially.
LEMMA InitIInv == Init => IInv
  <1> USE NoneAssumption DEF Pair, Identity, NoIdentity, FileState, RootFile,
     RootName, Kind, Data, Step, Pc, Empty, Absent
  <1> SUFFICES ASSUME Init PROVE IInv
    OBVIOUS
  <1>1. TypeOK
    <2>1. /\ dir \in [Kind -> Pair] /\ disk \in [Kind -> SUBSET Pair]
          /\ \A k \in Kind : dir[k] \in disk[k]
      BY DEF Init
    <2>2. /\ inode \in [Inode -> FileState]
          /\ idisk \in [Inode -> SUBSET FileState]
          /\ \A i \in Inode : inode[i] \in idisk[i]
      BY DEF Init
    <2>3. /\ root \in [RootName -> RootFile]
          /\ rdisk \in [RootName -> SUBSET RootFile]
          /\ \A n \in RootName : root[n] \in rdisk[n]
      BY DEF Init
    <2>4. /\ cap \in [Kind -> Identity \union {NoIdentity}]
          /\ seen \in [Kind -> Identity \union {NoIdentity}]
          /\ pc \in Pc /\ step \in Step
      BY DEF Init
    <2>5. /\ own \subseteq Inode /\ witness \in BOOLEAN /\ complete \in BOOLEAN
          /\ faults \in Nat /\ losses \in Nat /\ tampers \in Nat
      BY DEF Init
    <2> HIDE DEF Pair, Identity, NoIdentity, FileState, RootFile, RootName,
       Kind, Pc, Step
    <2> QED
      BY <2>1, <2>2, <2>3, <2>4, <2>5 DEF TypeOK
  <1>2. StepsOK /\ RootOK /\ AcceptOK
    BY DEF Init, StepsOK, RootOK, AcceptOK, IsFull
  <1>3. CapOK /\ NamesOK
    BY DEF Init, CapOK, NamesOK
  <1>4. ReceiptsOK /\ OrderOK
    BY DEF Init, ReceiptsOK, OrderOK, KindOf
  <1> QED
    BY <1>1, <1>2, <1>3, <1>4 DEF IInv

\* The inductive invariant holds in every reachable state, whatever the numbers
\* of files, errors, kills, power losses and outside changes.
THEOREM IInvInvariant == Spec => []IInv
  <1>1. IInv /\ [Next]_vars => IInv'
    BY TypeStep, StepsStep, RootStep, AcceptStep, CapStep, NamesStep,
       ReceiptsStep, OrderStep DEF IInv
  <1> QED
    BY <1>1, InitIInv, PTL DEF Spec

\* Type correctness of the whole publication protocol.
THEOREM TypeCorrect == Spec => []TypeOK
  <1>1. IInv => TypeOK
    BY DEF IInv
  <1> QED
    BY <1>1, IInvInvariant, PTL

\* The order of publish_artifact (image, receipt, manifest, receipt) makes the
\* manifest evidence of a complete pair, through every error and power loss.
THEOREM ImageFirst == Spec => []ImageBeforeManifest
  <1>1. IInv => ImageBeforeManifest
    <2> SUFFICES ASSUME IInv, Untouched,
                        NEW p \in disk["manifest"], p.final # None
                 PROVE  /\ \A f \in idisk[p.final] : f.data = "manifest"
                        /\ \A q \in disk["image"] :
                             /\ q.final # None
                             /\ \A f \in idisk[q.final] : f.data = "image"
      BY DEF ImageBeforeManifest
    <2> QED
      BY NoneAssumption DEF IInv, OrderOK, DurablyExact
  <1> QED
    BY <1>1, IInvInvariant, PTL

\* create_receipt of a published artifact follows the sync of the file and of
\* the directory, so the receipt may be trusted after a power loss.
THEOREM ReceiptIsEvidence == Spec => []ReceiptMeansPublished
  <1>1. IInv => ReceiptMeansPublished
    <2> SUFFICES ASSUME IInv, Untouched, NEW n \in 3..4, NEW r \in rdisk[n],
                        r.state = "full", NEW p \in disk[KindOf(n)]
                 PROVE  p.final = r.id.file
      BY DEF ReceiptMeansPublished
    <2> QED
      BY DEF IInv, ReceiptsOK
  <1> QED
    BY <1>1, IInvInvariant, PTL

\* What the accepting attempt knew: no receipt can be lost, and a receipt that
\* cannot be lost holds the names and the bytes of its artifact in place.
LEMMA CompletedStays == IInv => CompletionDurable
  <1> SUFFICES ASSUME IInv, Untouched, complete
               PROVE  /\ \A n \in 1..4 : NoLoss(n)
                      /\ \A k \in Kind : \A p \in disk[k] :
                           /\ p.final # None
                           /\ \A f \in idisk[p.final] : f.data = k
    BY DEF CompletionDurable, NoLoss
  <1>1. \A n \in 1..4 : NoLoss(n)
    BY DEF IInv, AcceptOK
  <1>2. ASSUME NEW k \in Kind, NEW p \in disk[k]
        PROVE  p.final # None /\ \A f \in idisk[p.final] : f.data = k
    <2>1. PICK n \in 3..4 : KindOf(n) = k
      BY DEF Kind, KindOf
    <2>2. root[n] \in rdisk[n] /\ root[n].state = "full"
      BY <1>1 DEF NoLoss, IInv, TypeOK, RootName
    <2>3. p.final = root[n].id.file /\ DurablyExact(k, p.final)
      BY <2>1, <2>2 DEF IInv, ReceiptsOK
    <2> QED
      BY <2>3, NoneAssumption DEF DurablyExact
  <1> QED
    BY <1>1, <1>2

\* PublicationRecovery::Complete, returned after persist_receipt_snapshot synced
\* every receipt again, promises what no power loss can take back.
THEOREM CompleteIsDurable == Spec => []CompletionDurable
  BY CompletedStays, IInvInvariant, PTL

(***************************************************************************)
(* The refinement: while no other program interferes, what is visible      *)
(* under the final names behaves as OutputPair promises.                   *)
(***************************************************************************)

\* An image that may be visible is exact, and a final name that is free has
\* never been anything else that a power loss could bring back.
ImageOK == \A p \in disk["image"] :
             p.final # None => DurablyExact("image", p.final)
NoGhost == \A k \in Kind : dir[k].final = None =>
             \A p \in disk[k] : p.final = None
RInv == Untouched => ImageOK /\ NoGhost

LEMMA InitRInv == Init => RInv
  BY DEF Init, RInv, ImageOK, NoGhost, Empty, Kind

\* The rename of an artifact keeps it: its identity is the one held, its bytes
\* are exact and durable, and a rename changes only its times.
LEMMA RenameRStep == IInv /\ RInv /\ RenameNoReplace => RInv'
  <1> SUFFICES ASSUME IInv, RInv, RenameNoReplace, Untouched
               PROVE  (ImageOK /\ NoGhost)'
    BY DEF RenameNoReplace, budget, RInv, Untouched
  <1> DEFINE k == KindOf(step)
             i == dir[k].stage
  <1> USE NoneAssumption DEF IInv
  <1>1. /\ k \in Kind /\ step \in 3..4 /\ i \in Inode /\ DurablyExact(k, i)
        /\ dir[k].final = None
    BY DEF RenameNoReplace, StepsOK, NamesOK, CapOK, Held, KindOf, Kind, TypeOK,
       DurablyExact
  <1>2. /\ dir' = [dir EXCEPT ![k] = [stage |-> None, final |-> i]]
        /\ disk' = [disk EXCEPT ![k] = @ \union {[stage |-> None, final |-> i]}]
        /\ idisk' = [idisk EXCEPT ![i] = @ \union {Changed(i, inode[i].data)}]
    BY DEF RenameNoReplace, SetPair, SetFile
  <1>3. Changed(i, inode[i].data).data = k
    BY <1>1 DEF Changed, DurablyExact, TypeOK
  <1>4. \A j \in Inode, d \in Kind : DurablyExact(d, j) => DurablyExact(d, j)'
    BY <1>1, <1>2, <1>3, SMTT(20) DEF DurablyExact, TypeOK
  <1>5. ImageOK'
    BY <1>1, <1>2, <1>4, SMTT(20) DEF ImageOK, RInv, TypeOK, Kind, DurablyExact
  <1>6. NoGhost'
    BY <1>1, <1>2, SMTT(20) DEF NoGhost, RInv, TypeOK, Kind
  <1> QED
    BY <1>5, <1>6

\* A write goes to a file that is not yet an artifact.
LEMMA WriteRStep == IInv /\ RInv /\ WriteStage => RInv'
  <1> SUFFICES ASSUME IInv, RInv, WriteStage, Untouched
               PROVE  (ImageOK /\ NoGhost)'
    BY DEF WriteStage, budget, RInv, Untouched
  <1> DEFINE k == KindOf(step)
             i == cap[k].file
  <1> USE NoneAssumption DEF IInv
  <1>1. /\ k \in Kind /\ i \in Inode /\ inode[i].data = "partial"
    BY DEF WriteStage, CapOK, KindOf, Kind
  <1>2. /\ UNCHANGED <<dir, disk>>
        /\ idisk' = [idisk EXCEPT ![i] = @ \union {Changed(i, k)}]
    BY DEF WriteStage, dirVars, SetFile
  <1>3. ~ DurablyExact("image", i)
    BY <1>1 DEF DurablyExact, TypeOK
  <1>4. \A j \in Inode : DurablyExact("image", j) => DurablyExact("image", j)'
    BY <1>2, <1>3 DEF DurablyExact, TypeOK
  <1> QED
    BY <1>2, <1>4 DEF ImageOK, NoGhost, RInv, TypeOK, DurablyExact

\* A new file is one that nothing refers to, not even on disk.
LEMMA CreateRStep == IInv /\ RInv /\ CreateStage => RInv'
  <1> SUFFICES ASSUME IInv, RInv, CreateStage, Untouched
               PROVE  (ImageOK /\ NoGhost)'
    BY DEF CreateStage, budget, RInv, Untouched
  <1> DEFINE k == KindOf(step)
  <1> USE NoneAssumption DEF IInv
  <1>1. PICK i \in Fresh : /\ SetPair(k, [stage |-> i, final |-> None])
                           /\ NewFile(i, "partial")
    BY DEF CreateStage
  <1>2. k \in Kind /\ dir[k] = Empty
    BY DEF CreateStage, KindOf, Kind
  <1>3. /\ dir' = [dir EXCEPT ![k] = [stage |-> i, final |-> None]]
        /\ disk' = [disk EXCEPT ![k] = @ \union {[stage |-> i, final |-> None]}]
        /\ idisk' = [idisk EXCEPT ![i] = {Changed(i, "partial")}]
    BY <1>1 DEF SetPair, NewFile
  <1>4. \A p \in disk["image"] : p.final # i
    BY DEF Fresh, InUse, Slot, Kind
  <1>5. ImageOK'
    BY <1>2, <1>3, <1>4, SMTT(20) DEF ImageOK, RInv, TypeOK, Kind, DurablyExact
  <1>6. NoGhost'
    BY <1>2, <1>3, SMTT(20) DEF NoGhost, RInv, TypeOK, Kind, Empty
  <1> QED
    BY <1>5, <1>6

\* A power loss picks one of the values the strengthening speaks of.
LEMMA PowerLossRStep == IInv /\ RInv /\ PowerLoss => RInv'
  <1> SUFFICES ASSUME IInv, RInv, PowerLoss, Untouched
               PROVE  (ImageOK /\ NoGhost)'
    BY DEF PowerLoss, RInv, Untouched
  <1> USE DEF IInv
  <1>1. /\ \A k \in Kind : dir'[k] \in disk[k]
        /\ disk' = [k \in Kind |-> {dir'[k]}]
    BY SMTT(20) DEF PowerLoss, Kind
  <1>2. /\ \A i \in Inode : inode'[i] \in idisk[i]
        /\ idisk' = [i \in Inode |-> {inode'[i]}]
    BY SMTT(20) DEF PowerLoss
  <1>3. \A i : DurablyExact("image", i) => DurablyExact("image", i)'
    BY <1>2 DEF DurablyExact
  <1> QED
    BY <1>1, <1>3 DEF ImageOK, NoGhost, RInv, Kind

\* The steps that change neither a name nor the bytes of a file keep it.
LEMMA QuietRStep ==
  ASSUME IInv, RInv, tampers' = tampers, UNCHANGED dir,
         \A k \in Kind : disk'[k] \subseteq disk[k],
         \A i \in Inode : idisk'[i] \subseteq idisk[i]
  PROVE  RInv'
  BY DEF RInv, Untouched, ImageOK, NoGhost, DurablyExact, Kind

\* Every other step of the protocol is of that kind, or unlinks a stage.
LEMMA RInvStep == IInv /\ RInv /\ [Next]_vars => RInv'
  <1> SUFFICES ASSUME IInv, RInv, [Next]_vars PROVE RInv'
    OBVIOUS
  <1> DEFINE Quiet == /\ tampers' = tampers /\ UNCHANGED dir
                      /\ \A k \in Kind : disk'[k] \subseteq disk[k]
                      /\ \A i \in Inode : idisk'[i] \subseteq idisk[i]
  <1> USE DEF dirVars, fileVars, budget
  <1>1. CASE Acquire \/ Reopen \/ CreateRootFile \/ FillRootFile
             \/ FlushRootFile \/ FlushRoot
    BY <1>1, QuietRStep DEF Acquire, Reopen, CreateRootFile, FillRootFile,
       FlushRootFile, FlushRoot
  <1>2. CASE AdoptStaged \/ SealStage \/ SkipPublished \/ BeginRename
             \/ AlreadyRenamed \/ CheckPublished
    BY <1>2, QuietRStep DEF AdoptStaged, SealStage, SkipPublished, BeginRename,
       AlreadyRenamed, CheckPublished
  <1>3. CASE AcceptChain \/ HashImage \/ HashManifest \/ Complete \/ Refuse
    BY <1>3, QuietRStep DEF AcceptChain, HashImage, HashManifest, Complete,
       Refuse
  <1>4. CASE AbortStage \/ Fail
    BY <1>4, QuietRStep DEF AbortStage, Fail
  <1>5. CASE SyncStage \/ SyncPublishedFile
    <2>1. \A j : SyncFile(j) => \A i \in Inode : idisk'[i] \subseteq idisk[i]
      BY DEF SyncFile, IInv, TypeOK
    <2> QED
      BY <1>5, <2>1, QuietRStep DEF SyncStage, SyncPublishedFile
  <1>6. CASE SyncOutputDir \/ FinishCleanup
    BY <1>6, QuietRStep DEF SyncOutputDir, FinishCleanup, SyncDir, IInv, TypeOK
  <1>7. CASE UnlinkStage
    <2>1. /\ KindOf(step) \in Kind
          /\ SetPair(KindOf(step), [dir[KindOf(step)] EXCEPT !.stage = None])
          /\ UNCHANGED idisk /\ tampers' = tampers
      BY <1>7 DEF UnlinkStage, KindOf, Kind
    <2> QED
      BY <2>1, SMTT(20) DEF SetPair, RInv, Untouched, ImageOK, NoGhost,
         DurablyExact, Kind, IInv, TypeOK, Pair
  <1>8. CASE External
    BY <1>8 DEF External, Place, Remove, Rewrite, Tamper, RInv, Untouched, IInv,
       TypeOK
  <1>9. CASE UNCHANGED vars
    BY <1>9, QuietRStep DEF vars
  <1> QED
    BY <1>1, <1>2, <1>3, <1>4, <1>5, <1>6, <1>7, <1>8, <1>9, RenameRStep,
       WriteRStep, CreateRStep, PowerLossRStep DEF Next, Attempt

\* Which names are taken decides what is visible: a file that has a final name
\* is exact, and a manifest has one only beside an image.
ByName == IF dir["image"].final = None THEN "none"
          ELSE IF dir["manifest"].final = None THEN "image" ELSE "pair"

LEMMA VisibleByName ==
  IInv /\ RInv /\ Untouched =>
    /\ Visible = ByName
    /\ dir["manifest"].final # None => dir["image"].final # None
  <1> SUFFICES ASSUME IInv, RInv, Untouched
               PROVE  /\ Visible = ByName
                      /\ dir["manifest"].final # None => dir["image"].final # None
    OBVIOUS
  <1> USE NoneAssumption DEF IInv, Kind
  <1>1. \A k \in Kind : dir[k].final # None => Exact(k, dir[k].final)
    BY DEF TypeOK, RInv, ImageOK, OrderOK, DurablyExact, Exact
  <1>2. dir["manifest"].final # None => dir["image"].final # None
    BY DEF TypeOK, OrderOK, DurablyExact
  <1> QED
    BY <1>1, <1>2 DEF Visible, ByName, PairExact, Exact

LEMMA VisibleByNameNext ==
  (IInv /\ RInv /\ Untouched)' => Visible' = ByName'
  <1>1. (IInv /\ RInv /\ Untouched => Visible = ByName)'
    <2>1. IInv /\ RInv /\ Untouched => Visible = ByName
      BY VisibleByName
    <2> QED
      BY <2>1, PTL
  <1> QED
    BY <1>1

\* A rename publishes the image where there is none, the manifest beside it.
LEMMA RenamePublishes ==
  ASSUME IInv, RInv, Untouched, RenameNoReplace
  PROVE  \/ ByName = "none" /\ ByName' = "image"
         \/ ByName = "image" /\ ByName' = "pair"
  <1> DEFINE k == KindOf(step)
             i == dir[k].stage
  <1> USE NoneAssumption DEF IInv, Kind
  <1>1. /\ i \in Inode /\ dir[k].final = None /\ step \in 3..4
        /\ dir' = [dir EXCEPT ![k] = [stage |-> None, final |-> i]]
    BY DEF RenameNoReplace, SetPair, StepsOK, NamesOK, CapOK, Held, KindOf,
       TypeOK, DurablyExact
  <1>2. CASE step = 3
    BY <1>1, <1>2, VisibleByName DEF KindOf, ByName, TypeOK
  <1>3. CASE step = 4
    <2>1. IsFull(3)
      BY <1>3 DEF RenameNoReplace, NamesOK
    <2>2. dir["image"].final # None
      <3>1. root[3] \in rdisk[3] /\ root[3].state = "full" /\ KindOf(3) = "image"
        BY <2>1 DEF IsFull, TypeOK, RootName, KindOf
      <3> QED
        BY <3>1 DEF ReceiptsOK, DurablyExact, TypeOK
    <2> QED
      BY <1>1, <1>3, <2>2 DEF KindOf, ByName, TypeOK
  <1> QED
    BY <1>1, <1>2, <1>3

\* A power loss takes back at most the last file, and nothing once a run has
\* acknowledged the pair.
LEMMA LossTakesBack ==
  ASSUME IInv, RInv, Untouched, PowerLoss
  PROVE  \/ ByName' = ByName
         \/ ~ complete /\ ByName = "pair"  /\ ByName' = "image"
         \/ ~ complete /\ ByName = "image" /\ ByName' = "none"
  <1> USE NoneAssumption DEF IInv, Kind
  <1>1. \A k \in Kind : dir'[k] \in disk[k] /\ dir[k] \in disk[k]
    BY SMTT(20) DEF PowerLoss, TypeOK
  <1>2. \A k \in Kind : dir[k].final = None => dir'[k].final = None
    BY <1>1 DEF RInv, NoGhost
  <1>3. dir["manifest"].final # None => dir'["image"].final # None
    BY <1>1 DEF OrderOK, DurablyExact
  <1>4. complete => \A k \in Kind : dir'[k].final # None
    BY <1>1, CompletedStays DEF CompletionDurable
  <1> QED
    BY <1>2, <1>3, <1>4 DEF ByName

\* Every step of the publication is a step of OutputPair or leaves what is
\* visible as it is.
LEMMA RefinementStep ==
  ASSUME IInv, RInv, Untouched, [Next]_vars, (IInv /\ RInv /\ Untouched)'
  PROVE  [Abstract!Next]_<<Visible, complete>>
  <1> DEFINE Still == ByName' = ByName /\ complete' = complete
             Promised == [Abstract!Next]_<<Visible, complete>>
  <1>1. Visible = ByName /\ Visible' = ByName'
    BY VisibleByName, VisibleByNameNext
  <1>2. Still => Promised
    BY <1>1
  <1>3. UNCHANGED <<dir, complete>> => Promised
    BY <1>2 DEF ByName
  <1> SUFFICES Promised
    OBVIOUS
  <1> HIDE DEF Still, Promised
  <1>4. CASE Acquire \/ Reopen \/ CreateRootFile \/ FillRootFile
             \/ FlushRootFile \/ FlushRoot
    <2>1. UNCHANGED <<dir, complete>>
      BY <1>4 DEF Acquire, Reopen, CreateRootFile, FillRootFile, FlushRootFile,
         FlushRoot, dirVars, histVars
    <2> QED
      BY <1>3, <2>1
  <1>5. CASE AdoptStaged \/ SealStage \/ SkipPublished \/ BeginRename
             \/ AlreadyRenamed \/ CheckPublished \/ WriteStage \/ SyncStage
             \/ SyncPublishedFile
    <2>1. UNCHANGED <<dir, complete>>
      BY <1>5 DEF AdoptStaged, SealStage, SkipPublished, BeginRename,
         AlreadyRenamed, CheckPublished, WriteStage, SyncStage, SyncPublishedFile,
         dirVars, histVars
    <2> QED
      BY <1>3, <2>1
  <1>6. CASE AcceptChain \/ HashImage \/ HashManifest \/ Refuse
             \/ AbortStage \/ Fail \/ SyncOutputDir \/ FinishCleanup
             \/ UNCHANGED vars
    <2>1. UNCHANGED <<dir, complete>>
      BY <1>6 DEF AcceptChain, HashImage, HashManifest, Observe, Refuse,
         AbortStage, Fail, SyncOutputDir, FinishCleanup, SyncDir, vars, dirVars,
         histVars
    <2> QED
      BY <1>3, <2>1
  <1>7. CASE CreateStage
    <2> DEFINE k == KindOf(step)
    <2>1. PICK i \in Inode : dir' = [dir EXCEPT ![k] =
                                       [stage |-> i, final |-> None]]
      BY <1>7 DEF CreateStage, SetPair, Fresh
    <2>2. k \in Kind /\ dir[k].final = None /\ complete' = complete
      BY <1>7 DEF CreateStage, KindOf, Kind, Empty
    <2>3. \A d \in Kind : dir'[d].final = dir[d].final
      BY <2>1, <2>2 DEF IInv, TypeOK
    <2>4. Still
      BY <2>2, <2>3 DEF Still, ByName, Kind
    <2> QED
      BY <1>2, <2>4
  <1>8. CASE UnlinkStage
    <2> DEFINE k == KindOf(step)
    <2>1. /\ dir' = [dir EXCEPT ![k] = [dir[k] EXCEPT !.stage = None]]
          /\ k \in Kind /\ complete' = complete
      BY <1>8 DEF UnlinkStage, SetPair, KindOf, Kind, histVars
    <2>2. \A d \in Kind : dir'[d].final = dir[d].final
      BY <2>1 DEF IInv, TypeOK, Pair
    <2>3. Still
      BY <2>1, <2>2 DEF Still, ByName, Kind
    <2> QED
      BY <1>2, <2>3
  <1>9. CASE RenameNoReplace
    <2>1. complete' = complete
      BY <1>9 DEF RenameNoReplace, histVars
    <2>2. Abstract!PublishImage \/ Abstract!PublishManifest
      BY <1>1, <1>9, <2>1, RenamePublishes
         DEF Abstract!PublishImage, Abstract!PublishManifest
    <2> QED
      BY <2>2 DEF Promised, Abstract!Next
  <1>10. CASE Complete
    <2>1. /\ \A k \in Kind : dir[k].final # None
          /\ dir' = dir /\ complete' = TRUE
      BY <1>10 DEF Complete, PairUnchanged, dirVars
    <2>2. ByName = "pair" /\ ByName' = "pair"
      BY <2>1 DEF ByName, Kind
    <2>3. Abstract!Acknowledge
      BY <1>1, <2>1, <2>2 DEF Abstract!Acknowledge
    <2> QED
      BY <2>3 DEF Promised, Abstract!Next
  <1>11. CASE PowerLoss
    <2>1. complete' = complete
      BY <1>11 DEF PowerLoss, histVars
    <2>2. ByName' = ByName \/ Abstract!Lose
      BY <1>1, <1>11, <2>1, LossTakesBack DEF Abstract!Lose
    <2>3. Abstract!Lose => Promised
      BY DEF Promised, Abstract!Next
    <2> QED
      BY <1>2, <2>1, <2>2, <2>3 DEF Still
  <1>12. ~ External
    <2>1. External => tampers' = tampers + 1
      BY DEF External, Place, Remove, Rewrite, Tamper
    <2> QED
      BY <2>1 DEF Untouched
  <1> QED
    BY <1>4, <1>5, <1>6, <1>7, <1>8, <1>9, <1>10, <1>11, <1>12
       DEF Next, Attempt

\* The publication protocol implements OutputPair when no other program writes
\* to the output directory: through every error, kill and power loss the image
\* appears before the manifest, each whole, a loss takes back at most the last
\* file, and an acknowledged pair stays.
THEOREM Refinement ==
  ASSUME MaxTampers = 0
  PROVE  Spec => ImplementsOutputPair
  <1>1. Init => Untouched /\ Abstract!Init
    <2> SUFFICES ASSUME Init PROVE Untouched /\ Abstract!Init
      OBVIOUS
    <2>1. dir["image"].final = None /\ dir["manifest"].final = None
      BY DEF Init, Empty, Kind
    <2>2. Visible = "none"
      BY <2>1 DEF Visible, Exact, PairExact, Kind
    <2> QED
      BY <2>2 DEF Init, Untouched, Abstract!Init
  <1>2. Untouched /\ [Next]_vars => Untouched'
    <2> SUFFICES ASSUME Untouched, [Next]_vars PROVE tampers' = tampers
      BY DEF Untouched
    <2> USE DEF budget
    <2>1. ASSUME Attempt PROVE tampers' = tampers
      BY <2>1 DEF Attempt, Acquire, Reopen, CreateRootFile, FillRootFile,
         FlushRootFile, FlushRoot, AdoptStaged, CreateStage, WriteStage,
         SyncStage, SealStage, UnlinkStage, FinishCleanup, SkipPublished,
         BeginRename, RenameNoReplace, AlreadyRenamed, SyncPublishedFile,
         SyncOutputDir, CheckPublished, AcceptChain, HashImage, HashManifest,
         Complete, Refuse
    <2>2. ~ External
      BY DEF External, Place, Remove, Rewrite, Tamper, Untouched
    <2> QED
      BY <2>1, <2>2 DEF Next, AbortStage, Fail, PowerLoss, vars
  <1>3. Spec => []RInv
    BY InitRInv, RInvStep, IInvInvariant, PTL DEF Spec
  <1>4. /\ IInv /\ RInv /\ Untouched /\ [Next]_vars
        /\ (IInv /\ RInv /\ Untouched)'
        => [Abstract!Next]_<<Visible, complete>>
    BY RefinementStep
  <1> QED
    BY <1>1, <1>2, <1>3, <1>4, IInvInvariant, PTL
       DEF Spec, ImplementsOutputPair, Abstract!Spec

(***************************************************************************)
(* Other programs in the output directory.                                 *)
(***************************************************************************)

\* What is held or certified was created by the transaction, and a stage that
\* may be cleaned up has no receipt.
OwnOK ==
  /\ \A k \in Kind : cap[k].file \in own \union {None}
  /\ pc \in {"create", "fill"} /\ step \in 1..4 => cap[KindOf(step)].file # None
  /\ \A n \in 1..4 : \A r \in rdisk[n] : r.state = "full" => r.id.file \in own
  /\ pc \in {"write", "sync", "seal", "unlink"} => root[step] = Absent

\* The image that was observed was exact while it had its identity, and if the
\* pair was not whole at the later observation, that image is gone for good.
SeenOK ==
  LET i == seen["image"]
  IN /\ pc \in {"pairmanifest", "paircheck"} =>
          /\ i.file \in Inode /\ i.ver <= inode[i.file].ver
          /\ i.ver = inode[i.file].ver => inode[i.file].data = "image"
     /\ pc = "paircheck" /\ ~ witness =>
          dir["image"].final # i.file \/ i.ver # inode[i.file].ver

\* A step that keeps the location, or begins none of those that OwnOK is about.
LEMMA QuietOwnStep ==
  ASSUME OwnOK, UNCHANGED <<cap, own, root, rdisk>>,
         \/ pc' = pc /\ step' = step
         \/ pc' \notin {"create", "fill", "write", "sync", "seal", "unlink"}
         \/ pc' = "create" /\ step' = 0
         \/ /\ pc \in {"write", "sync", "seal"} /\ step' = step
            /\ pc' \in {"sync", "seal", "unlink"}
  PROVE  OwnOK'
  BY DEF OwnOK

\* The end of an attempt, which may also be a power loss.
LEMMA StopOwnStep ==
  ASSUME OwnOK, Stop, own' = own, \A n \in RootName : rdisk'[n] \subseteq rdisk[n]
  PROVE  OwnOK'
  BY DEF OwnOK, Stop, Goto, NoIdentity, Kind, RootName

\* Every step keeps it, whatever other programs do.
LEMMA OwnStep == IInv /\ OwnOK /\ [Next]_vars => OwnOK'
  <1> SUFFICES ASSUME IInv, OwnOK, [Next]_vars PROVE OwnOK'
    OBVIOUS
  <1> USE DEF rootVars, capVars, histVars, Goto
  <1>t. TypeOK /\ StepsOK /\ RootOK
    BY DEF IInv
  <1>1. CASE Acquire \/ Reopen
    BY <1>1, QuietOwnStep DEF Acquire, Reopen
  <1>2. CASE CreateRootFile
    <2>1. /\ step \in RootName /\ pc = "create" /\ pc' = "fill" /\ step' = step
          /\ UNCHANGED <<cap, own>>
          /\ rdisk' = [rdisk EXCEPT ![step] = rdisk[step] \union {Torn}]
      BY <1>2, <1>t DEF CreateRootFile, SetRoot, StepsOK, RootName
    <2>2. \A n \in RootName : \A r \in rdisk'[n] : r \in rdisk[n] \/ r = Torn
      BY <1>t, <2>1 DEF TypeOK
    <2> QED
      BY <2>1, <2>2 DEF OwnOK, Torn, RootName
  <1>3. CASE FillRootFile
    <2> DEFINE id == IF step = 0 THEN NoIdentity ELSE cap[KindOf(step)]
    <2>1. /\ step \in RootName /\ pc = "fill" /\ pc' = "flush" /\ step' = step
          /\ UNCHANGED <<cap, own>>
          /\ rdisk' = [rdisk EXCEPT ![step] = rdisk[step] \union {Full(id)}]
      BY <1>3, <1>t DEF FillRootFile, SetRoot, StepsOK, RootName
    <2>2. ASSUME NEW n \in 1..4, NEW r \in rdisk'[n], r.state = "full"
          PROVE  r.id.file \in own
      <3>1. CASE r \in rdisk[n]
        BY <2>2, <3>1 DEF OwnOK
      <3>2. CASE n = step /\ r = Full(id)
        <4>1. r.id = cap[KindOf(step)] /\ KindOf(step) \in Kind
          BY <3>2 DEF Full, KindOf, Kind
        <4> QED
          BY <2>1, <3>2, <4>1 DEF OwnOK
      <3> QED
        BY <1>t, <2>1, <2>2, <3>1, <3>2 DEF TypeOK, RootName
    <2> QED
      BY <2>1, <2>2 DEF OwnOK
  <1>4. CASE FlushRootFile
    <2>1. /\ pc' = "flushroot" /\ UNCHANGED <<cap, own>>
          /\ rdisk' = [rdisk EXCEPT ![NameOf(step)] = rdisk[NameOf(step)] \ {Torn}]
      BY <1>4 DEF FlushRootFile
    <2>2. \A n \in RootName : rdisk'[n] \subseteq rdisk[n]
      BY <1>t, <2>1 DEF TypeOK
    <2> QED
      BY <2>1, <2>2 DEF OwnOK, RootName
  <1>5. CASE FlushRoot
    <2>1. pc' \in {"stage", "publish", "accept", "flush", "pairimage"} /\ UNCHANGED <<cap, own>>
      BY <1>5 DEF FlushRoot, Advance
    <2>2. \A n \in RootName : rdisk'[n] \subseteq rdisk[n]
      <3>1. \A n \in RootName : root[n] \in rdisk[n]
        BY <1>t DEF TypeOK
      <3>2. rdisk' = [n \in RootName |->
                        IF root[n] = Absent THEN {Absent} ELSE rdisk[n] \ {Absent}]
        BY <1>5 DEF FlushRoot
      <3> QED
        BY <3>1, <3>2
    <2> QED
      BY <2>1, <2>2 DEF OwnOK, RootName
  <1>6. CASE AdoptStaged
    <2> DEFINE k == KindOf(step)
    <2>1. step \in 1..2 /\ k \in Kind /\ StagedReceipt(k) = step
      BY <1>6, <1>t DEF AdoptStaged, StepsOK, KindOf, Kind, StagedReceipt
    <2>2. /\ pc' \in {"stage", "publish"} /\ UNCHANGED <<own, rdisk>>
          /\ cap' = [cap EXCEPT ![k] = IdentityOf(Candidate(k))]
      BY <1>6, <2>1 DEF AdoptStaged, Advance
    <2>3. Candidate(k) \in own
      <3>1. root[step].state = "full" /\ Candidate(k) = root[step].id.file
        BY <1>6, <2>1 DEF AdoptStaged, IsFull, ExactArtifact
      <3> QED
        BY <1>t, <2>1, <3>1 DEF TypeOK, OwnOK, RootName
    <2>4. \A j \in Kind : cap'[j].file \in own \union {None}
      BY <1>t, <2>2, <2>3 DEF OwnOK, TypeOK, IdentityOf
    <2> QED
      BY <2>2, <2>4 DEF OwnOK
  <1>7. CASE CreateStage
    <2> DEFINE k == KindOf(step)
    <2>1. PICK i \in Fresh : /\ cap' = [cap EXCEPT ![k] = [file |-> i, ver |-> inode[i].ver + 1]]
                             /\ own' = own \union {i}
      BY <1>7 DEF CreateStage
    <2>2. pc' = "write" /\ step' = step /\ UNCHANGED <<root, rdisk>> /\ root[step] = Absent
      BY <1>7 DEF CreateStage
    <2>3. \A j \in Kind : cap'[j].file \in own' \union {None}
      BY <1>t, <2>1 DEF OwnOK, TypeOK
    <2> QED
      BY <2>1, <2>2, <2>3 DEF OwnOK
  <1>8. CASE WriteStage \/ SyncStage \/ AbortStage
    BY <1>8, QuietOwnStep DEF WriteStage, SyncStage, AbortStage
  <1>9. CASE SealStage \/ CheckPublished
    <2> DEFINE k == KindOf(step)
    <2>1. /\ pc' = "create" /\ step' = step /\ UNCHANGED <<own, rdisk>>
          /\ cap' = [cap EXCEPT ![k] = IdentityOf(cap[k].file)]
          /\ Exact(k, cap[k].file) /\ k \in Kind
      BY <1>9 DEF SealStage, CheckPublished, StageIntact, FinalIntact, KindOf, Kind
    <2>2. \A j \in Kind : cap'[j].file = cap[j].file
      BY <1>t, <2>1 DEF TypeOK, IdentityOf
    <2> QED
      BY <2>1, <2>2 DEF OwnOK, Exact
  <1>10. CASE UnlinkStage \/ SyncPublishedFile \/ SyncOutputDir \/ BeginRename
              \/ RenameNoReplace \/ AlreadyRenamed
    BY <1>10, QuietOwnStep DEF UnlinkStage, SyncPublishedFile, SyncOutputDir, BeginRename,
       RenameNoReplace, AlreadyRenamed
  <1>11. CASE SkipPublished \/ AcceptChain \/ HashImage \/ HashManifest
    BY <1>11, <1>t, QuietOwnStep DEF SkipPublished, Advance, AcceptChain, HashImage, HashManifest,
       Observe, StepsOK
  <1>12. CASE FinishCleanup \/ Complete \/ Refuse \/ Fail
    BY <1>12, StopOwnStep DEF FinishCleanup, Complete, Refuse, Fail
  <1>13. CASE PowerLoss
    <2>1. \A n \in RootName : rdisk'[n] \subseteq rdisk[n]
      <3>1. PICK t \in rdisk[0] \X rdisk[1] \X rdisk[2] \X rdisk[3] \X rdisk[4] :
              root' = [n \in RootName |-> t[n + 1]]
        BY <1>13 DEF PowerLoss
      <3>2. \A n \in RootName : t[n + 1] \in rdisk[n]
        BY DEF RootName
      <3>3. rdisk' = [n \in RootName |-> {root'[n]}]
        BY <1>13 DEF PowerLoss
      <3> QED
        BY <3>1, <3>2, <3>3
    <2> QED
      BY <1>13, <2>1, StopOwnStep DEF PowerLoss
  <1>14. CASE External
    <2>1. UNCHANGED <<pc, step, cap, root, rdisk>>
      BY <1>14 DEF External, Place, Remove, Rewrite, Tamper
    <2>2. own' = own \/ \E i \in Fresh : own' = own \ {i}
      BY <1>14 DEF External, Place, Remove, Rewrite
    <2>3. \A i \in Fresh : /\ \A k \in Kind : cap[k].file # i
                           /\ \A n \in 1..4 : \A r \in rdisk[n] : r.id.file # i
      BY DEF Fresh, InUse, RootName
    <2> QED
      BY <2>1, <2>2, <2>3 DEF OwnOK
  <1>15. CASE UNCHANGED vars
    BY <1>15, QuietOwnStep DEF vars
  <1> QED
    BY <1>1, <1>2, <1>3, <1>4, <1>5, <1>6, <1>7, <1>8, <1>9, <1>10, <1>11, <1>12, <1>13,
       <1>14, <1>15 DEF Next, Attempt

\* An attempt starts with nothing held or certified.
LEMMA InitOwn == Init => OwnOK
  BY DEF Init, OwnOK, NoIdentity, Absent, Kind, RootName

\* Nothing is removed but the stage of the running attempt, which no receipt
\* certifies, and a rename takes no name.
LEMMA KeptStep == IInv /\ OwnOK /\ [Next]_vars => FilesKept
  <1> SUFFICES ASSUME IInv, OwnOK, [Next]_vars, UNCHANGED <<losses, tampers>>
               PROVE  FilesKept
    BY DEF FilesKept
  <1>t. TypeOK /\ StepsOK
    BY DEF IInv
  <1>1. UNCHANGED dir => FilesKept
    BY DEF FilesKept
  <1>2. CASE CreateStage
    <2> DEFINE k == KindOf(step)
    <2>1. PICK i \in Fresh : dir' = [dir EXCEPT ![k] = [stage |-> i, final |-> None]]
      BY <1>2 DEF CreateStage, SetPair
    <2>2. dir[k].stage = None /\ dir[k].final = None
      BY <1>2 DEF CreateStage, Empty
    <2> QED
      BY <1>t, <2>1, <2>2 DEF FilesKept, TypeOK
  <1>3. CASE UnlinkStage
    <2> DEFINE k == KindOf(step)
    <2>1. step \in 1..2 /\ StagedReceipt(k) = step /\ ~ IsFull(step) /\ k \in Kind
      BY <1>3, <1>t DEF UnlinkStage, StepsOK, KindOf, StagedReceipt, OwnOK, IsFull, Absent, Kind
    <2>2. dir' = [dir EXCEPT ![k] = [dir[k] EXCEPT !.stage = None]]
      BY <1>3 DEF UnlinkStage, SetPair
    <2>3. /\ dir'[k].final = dir[k].final
          /\ \A j \in Kind \ {k} : dir'[j] = dir[j]
      BY <1>t, <2>1, <2>2 DEF TypeOK, Pair
    <2> QED
      BY <2>1, <2>3 DEF FilesKept
  <1>4. CASE RenameNoReplace
    <2> DEFINE k == KindOf(step)
    <2>1. /\ dir[k].final = None
          /\ dir' = [dir EXCEPT ![k] = [stage |-> None, final |-> dir[k].stage]]
      BY <1>4 DEF RenameNoReplace, SetPair
    <2> QED
      BY <1>t, <2>1 DEF FilesKept, TypeOK
  <1>5. ~ PowerLoss /\ ~ External
    <2>1. losses' = losses /\ tampers' = tampers /\ losses \in Nat /\ tampers \in Nat
      BY <1>t DEF TypeOK
    <2>2. PowerLoss => losses' = losses + 1
      BY DEF PowerLoss
    <2>3. External => tampers' = tampers + 1
      BY DEF External, Place, Remove, Rewrite, Tamper
    <2> QED
      BY <2>1, <2>2, <2>3
  <1>6. CASE Acquire \/ Reopen \/ CreateRootFile \/ FillRootFile \/ FlushRootFile \/ FlushRoot
             \/ AdoptStaged \/ WriteStage \/ SyncStage \/ SealStage \/ FinishCleanup
             \/ SkipPublished \/ BeginRename \/ AlreadyRenamed \/ SyncPublishedFile
    BY <1>1, <1>6 DEF Acquire, Reopen, CreateRootFile, FillRootFile, FlushRootFile, FlushRoot,
       AdoptStaged, WriteStage, SyncStage, SealStage, FinishCleanup, SkipPublished, BeginRename,
       AlreadyRenamed, SyncPublishedFile, dirVars, SyncDir
  <1>7. CASE SyncOutputDir \/ CheckPublished \/ AcceptChain \/ HashImage \/ HashManifest
             \/ Complete \/ Refuse \/ AbortStage \/ Fail \/ UNCHANGED vars
    BY <1>1, <1>7 DEF SyncOutputDir, CheckPublished, AcceptChain, HashImage, HashManifest,
       Complete, Refuse, AbortStage, Fail, vars, dirVars, SyncDir
  <1> QED
    BY <1>2, <1>3, <1>4, <1>5, <1>6, <1>7 DEF Next, Attempt

\* Whatever other programs do in the output directory, a receipt certifies only
\* a file that the transaction created, no step takes a file of another program
\* from a final name, and none deletes a file that a staged receipt certifies.
THEOREM CertifiedFilesKept == Spec => CertifiedKept
  <1>1. OwnOK /\ IInv => ReceiptsNameOwnFiles
    BY DEF OwnOK, IInv, TypeOK, ReceiptsNameOwnFiles, IsFull, RootName
  <1>2. Spec => []OwnOK
    BY InitOwn, OwnStep, IInvInvariant, PTL DEF Spec
  <1>3. IInv /\ OwnOK /\ [Next]_vars => FilesKept
    BY KeptStep
  <1> QED
    BY <1>1, <1>2, <1>3, IInvInvariant, PTL DEF Spec, CertifiedKept

\* New bytes and new files only raise the version of a file.
Aged == \A i \in Inode : inode'[i] = inode[i] \/ inode'[i].ver = inode[i].ver + 1

\* So what was observed stays known while other programs change files.
LEMMA SeenStays ==
  ASSUME IInv, SeenOK, Aged, UNCHANGED <<seen, witness, pc>>,
         \/ dir'["image"].final \in {dir["image"].final, None}
         \/ dir'["image"].final # seen["image"].file
         \/ inode'[seen["image"].file].ver = inode[seen["image"].file].ver + 1
  PROVE  SeenOK'
  <1> DEFINE i == seen["image"]
             old == inode[i.file]
             new == inode'[i.file]
  <1> SUFFICES ASSUME pc \in {"pairmanifest", "paircheck"}
               PROVE  /\ i.ver <= new.ver
                      /\ i.ver = new.ver => new.data = "image"
                      /\ pc = "paircheck" /\ ~ witness =>
                           dir'["image"].final # i.file \/ i.ver # new.ver
    BY DEF SeenOK
  <1>1. /\ i.file \in Inode /\ i.ver <= old.ver
        /\ i.ver = old.ver => old.data = "image"
        /\ pc = "paircheck" /\ ~ witness => dir["image"].final # i.file \/ i.ver # old.ver
    BY DEF SeenOK
  <1>2. i.ver \in Nat /\ old.ver \in Nat /\ i.file # None
    BY <1>1, NoneAssumption DEF IInv, TypeOK, Kind, Identity, NoIdentity, FileState
  <1>3. new = old \/ new.ver = old.ver + 1
    BY <1>1 DEF Aged
  <1> HIDE DEF i, old, new
  <1>4. CASE new.ver = old.ver + 1
    BY <1>1, <1>2, <1>4
  <1>5. CASE new = old /\ new.ver # old.ver + 1
    BY <1>1, <1>2, <1>5 DEF i, new, old
  <1> QED
    BY <1>3, <1>4, <1>5

LEMMA SeenStep == IInv /\ SeenOK /\ [Next]_vars => SeenOK'
  <1> SUFFICES ASSUME IInv, SeenOK, [Next]_vars PROVE SeenOK'
    OBVIOUS
  <1> USE DEF Goto
  <1>t. TypeOK
    BY DEF IInv
  <1>o. pc' \notin {"pairmanifest", "paircheck"} => SeenOK'
    BY DEF SeenOK
  <1>1. CASE HashImage
    <2> DEFINE f == dir["image"].final
    <2>1. /\ seen' = [seen EXCEPT !["image"] = [file |-> f, ver |-> inode[f].ver]]
          /\ f # None /\ inode[f].data = "image" /\ UNCHANGED inode /\ pc' = "pairmanifest"
      BY <1>1 DEF HashImage, Observe, Exact, IdentityOf, fileVars
    <2>2. f \in Inode /\ inode[f].ver \in Nat /\ seen'["image"] = [file |-> f, ver |-> inode[f].ver]
      BY <1>t, <2>1 DEF TypeOK, Pair, Kind, FileState
    <2> QED
      BY <2>1, <2>2 DEF SeenOK
  <1>2. CASE HashManifest
    <2>1. /\ seen'["image"] = seen["image"] /\ UNCHANGED <<dir, inode>> /\ pc = "pairmanifest"
          /\ pc' = "paircheck" /\ Exact("manifest", dir["manifest"].final) /\ witness' = PairExact
      BY <1>t, <1>2 DEF HashManifest, Observe, dirVars, fileVars, TypeOK, Kind
    <2>2. ~ PairExact => ~ Exact("image", dir["image"].final)
      BY <2>1 DEF PairExact, Kind
    <2> QED
      BY <2>1, <2>2, NoneAssumption DEF SeenOK, Exact
  <1>3. CASE External
    <2>1. PICK k \in Kind, s \in Slot : Place(k, s) \/ Remove(k, s) \/ Rewrite(k, s)
      BY <1>3 DEF External
    <2>2. UNCHANGED <<seen, witness, pc>>
      BY <2>1 DEF Place, Remove, Rewrite, Tamper, capVars
    <2>3. CASE Place(k, s)
      <3>1. PICK i \in Fresh, d \in {"foreign", k} :
              /\ SetPair(k, [dir[k] EXCEPT ![s] = i]) /\ NewFile(i, d)
        BY <2>3 DEF Place
      <3>2. i \in Inode /\ inode' = [inode EXCEPT ![i] = [data |-> d, ver |-> inode[i].ver + 1]]
        BY <3>1 DEF Fresh, NewFile, Changed
      <3>3. Aged /\ inode'[i].ver = inode[i].ver + 1
        BY <1>t, <3>2 DEF Aged, TypeOK
      <3>4. dir'["image"].final \in {dir["image"].final, i}
        BY <1>t, <3>1 DEF SetPair, TypeOK, Pair, Kind, Slot
      <3> QED
        BY <2>2, <3>3, <3>4, SeenStays
    <2>4. CASE Remove(k, s)
      <3>1. dir'["image"].final \in {dir["image"].final, None}
        BY <1>t, <2>4 DEF Remove, SetPair, TypeOK, Pair, Kind, Slot
      <3>2. Aged
        BY <2>4 DEF Remove, fileVars, Aged
      <3> QED
        BY <2>2, <3>1, <3>2, SeenStays
    <2>5. CASE Rewrite(k, s)
      <3>1. Aged /\ UNCHANGED dir
        BY <1>t, <2>5 DEF Rewrite, SetFile, Changed, dirVars, Aged, TypeOK
      <3> QED
        BY <2>2, <3>1, SeenStays
    <2> QED
      BY <2>1, <2>3, <2>4, <2>5
  <1>4. CASE UNCHANGED vars
    <2>1. Aged /\ UNCHANGED <<dir, seen, witness, pc>>
      BY <1>4 DEF vars, dirVars, fileVars, capVars, histVars, Aged
    <2> QED
      BY <2>1, SeenStays
  <1>5. CASE Acquire \/ Reopen \/ CreateRootFile \/ FillRootFile \/ FlushRootFile \/ FlushRoot
             \/ AdoptStaged \/ CreateStage \/ WriteStage \/ SyncStage \/ SealStage
             \/ UnlinkStage \/ FinishCleanup \/ SkipPublished
    BY <1>o, <1>5 DEF Acquire, Reopen, CreateRootFile, FillRootFile, FlushRootFile, FlushRoot,
       AdoptStaged, CreateStage, WriteStage, SyncStage, SealStage, UnlinkStage, FinishCleanup,
       SkipPublished, Advance, Stop
  <1>6. CASE BeginRename \/ RenameNoReplace \/ AlreadyRenamed \/ SyncPublishedFile
             \/ SyncOutputDir \/ CheckPublished \/ AcceptChain \/ Complete \/ Refuse
             \/ AbortStage \/ Fail \/ PowerLoss
    BY <1>o, <1>6 DEF BeginRename, RenameNoReplace, AlreadyRenamed, SyncPublishedFile,
       SyncOutputDir, CheckPublished, AcceptChain, Complete, Refuse, AbortStage, Fail,
       PowerLoss, Stop
  <1> QED
    BY <1>1, <1>2, <1>3, <1>4, <1>5, <1>6 DEF Next, Attempt

\* An attempt returns Complete only if both exact files were in place at one
\* instant of its acceptance, although it looks at one after the other and
\* other programs may change them in between.
THEOREM CompletionWitnessed == Spec => CompleteWitnessed
  <1>1. Init => SeenOK
    BY DEF Init, SeenOK
  <1>2. Spec => []SeenOK
    BY <1>1, SeenStep, IInvInvariant, PTL DEF Spec
  <1>3. SeenOK => (Complete => witness)
    BY DEF SeenOK, Complete, PairUnchanged, IdentityOf, Kind
  <1>4. SeenOK /\ [Next]_vars => [Complete => witness]_vars
    BY <1>3
  <1> QED
    BY <1>2, <1>4, PTL DEF Spec, CompleteWitnessed

-----------------------------------------------------------------------------
(***************************************************************************)
(* Theorems about OutputReservation, for every number of processes, names, *)
(* source images, outputs, changes, replaced lock files and failures.      *)
(***************************************************************************)
ReservePc == {"idle", "open", "flock", "locked", "source", "output", "record",
       "create", "excl", "confirm", "held", "using"}
Artifact == [out : Output, src : SourceIdentity]

ReserveTypeOK ==
  /\ at \in [Path -> File \union {Nil}] /\ ver \in [File -> Nat]
  /\ lockfile \in [Key -> Nat]
  /\ record \in [Output -> Record \union {Nil}]
  /\ present \in [Name -> Artifact \union {Nil}]
  /\ phase \in [Proc -> ReservePc] /\ locked \in [Proc -> 0..4]
  /\ gen \in [Proc -> [Locks -> Nat]]
  /\ job \in [Proc -> Job \union {Nil}]
  /\ fresh \in [{"source", "output"} -> SUBSET Proc]

\* How many locks a process holds at each of its steps.
Taken(l) == CASE l = "idle"              -> {0}
              [] l \in {"open", "flock"} -> 0..3
              [] l = "locked"            -> 1..4
              [] l \in {"source", "output"} -> {2}
              [] OTHER -> {4}
StepOK == \A p \in Proc : /\ locked[p] \in Taken(phase[p])
                          /\ phase[p] # "idle" => job[p] \in Job

\* The locks a process holds: the lock and the file it was taken on.
HeldLocks(p) == {<<Keys(p)[n], gen[p][n]>> : n \in 1..locked[p]}
LocksApart == \A p, q \in Proc : p # q => HeldLocks(p) \intersect HeldLocks(q) = {}

\* Those who verified since a lock file was last replaced hold current locks.
FreshOK ==
  /\ \A p \in fresh["source"] : locked[p] >= 2 /\ Current(p, 1..2)
  /\ \A p \in fresh["output"] : locked[p] = 4 /\ Current(p, 3..4)

\* What is published is what the record of its output says; a process that is
\* about to publish has just read that record.
RecordOK ==
  /\ \A n \in Name : present[n] # Nil =>
       LET o == present[n].out
       IN record[o] # Nil /\ record[o].src = present[n].src
  /\ \A p \in Proc : phase[p] = "using" =>
       LET o == job[p].out
       IN record[o] # Nil /\ record[o].src = job[p].src

ReserveIInv == ReserveTypeOK /\ StepOK /\ LocksApart /\ FreshOK /\ RecordOK

-----------------------------------------------------------------------------
\* The locks of a process are locks there are.
LEMMA KeyFacts ==
  ASSUME NEW p \in Proc, job[p] \in Job
  PROVE  /\ Keys(p)[1] = <<"path", job[p].path>> /\ Keys(p)[2] = <<"file", job[p].src.file>>
         /\ Keys(p)[3] = <<"name", job[p].out>>
         /\ Keys(p)[4] = <<"name", ManifestOf[job[p].out]>>
         /\ \A n \in Locks : Keys(p)[n] \in Key
         /\ job[p].out \in Output /\ job[p].out \in Name /\ ManifestOf[job[p].out] \in Name
         /\ job[p].src \in SourceIdentity /\ job[p].src.file \in File /\ job[p].path \in Path
  <1>1. /\ job[p].out \in Output /\ job[p].out \in Name /\ ManifestOf[job[p].out] \in Name
        /\ job[p].src \in SourceIdentity /\ job[p].src.file \in File /\ job[p].path \in Path
    BY DEF Job, SourceIdentity, Name
  <1>2. /\ Keys(p)[1] = <<"path", job[p].path>> /\ Keys(p)[2] = <<"file", job[p].src.file>>
        /\ Keys(p)[3] = <<"name", job[p].out>>
        /\ Keys(p)[4] = <<"name", ManifestOf[job[p].out]>>
    BY DEF Keys
  <1>3. Keys(p)[1] \in Key /\ Keys(p)[2] \in Key /\ Keys(p)[3] \in Key /\ Keys(p)[4] \in Key
    BY <1>1, <1>2 DEF Key
  <1>4. \A n \in Locks : n = 1 \/ n = 2 \/ n = 3 \/ n = 4
    BY DEF Locks
  <1> QED
    BY <1>1, <1>2, <1>3, <1>4

\* A process that is asked for nothing else wants the same locks.
LEMMA SameKeys == ASSUME NEW p \in Proc, job'[p] = job[p] PROVE Keys(p)' = Keys(p)
  BY DEF Keys

\* It holds the same locks as long as it takes and drops none.
LEMMA SameHeld ==
  ASSUME NEW p \in Proc, job'[p] = job[p], locked'[p] = locked[p], locked[p] \in 0..4,
         \A n \in 1..locked[p] : gen'[p][n] = gen[p][n]
  PROVE  HeldLocks(p)' = HeldLocks(p)
  <1>1. Keys(p)' = Keys(p)
    BY SameKeys
  <1> QED
    BY <1>1 DEF HeldLocks

\* A process that drops its guards holds nothing, and the others what they held.
LEMMA Dropped ==
  ASSUME ReserveTypeOK, NEW p \in Proc, Drop(p)
  PROVE  /\ phase'[p] = "idle" /\ locked'[p] = 0 /\ HeldLocks(p)' = {}
         /\ \A s \in {"source", "output"} : fresh'[s] = fresh[s] \ {p}
         /\ \A q \in Proc : q # p =>
              /\ phase'[q] = phase[q] /\ job'[q] = job[q] /\ locked'[q] = locked[q]
              /\ gen'[q] = gen[q] /\ HeldLocks(q)' = HeldLocks(q)
  <1>1. /\ phase'[p] = "idle" /\ locked'[p] = 0
        /\ \A s \in {"source", "output"} : fresh'[s] = fresh[s] \ {p}
        /\ \A q \in Proc : q # p =>
              /\ phase'[q] = phase[q] /\ job'[q] = job[q] /\ locked'[q] = locked[q]
              /\ gen'[q] = gen[q]
    BY DEF Drop, Enter, ReserveTypeOK
  <1>2. HeldLocks(p)' = {}
    BY <1>1 DEF HeldLocks
  <1>3. ASSUME NEW q \in Proc, q # p PROVE HeldLocks(q)' = HeldLocks(q)
    BY <1>1, <1>3, SameHeld DEF ReserveTypeOK
  <1> QED
    BY <1>1, <1>2, <1>3

\* The state of the guards that are dropped has the right types.
LEMMA DropTyped ==
  ASSUME ReserveTypeOK, NEW p \in Proc, Drop(p), UNCHANGED <<sourceVars, lockfile, storeVars>>
  PROVE  ReserveTypeOK'
  <1>1. phase' \in [Proc -> ReservePc] /\ locked' \in [Proc -> 0..4] /\ job' \in [Proc -> Job \union {Nil}]
    BY DEF Drop, Enter, ReserveTypeOK, ReservePc
  <1>2. gen' \in [Proc -> [Locks -> Nat]]
    BY DEF Drop, ReserveTypeOK
  <1>3. fresh' \in [{"source", "output"} -> SUBSET Proc]
    BY DEF Drop, ReserveTypeOK
  <1> QED
    BY <1>1, <1>2, <1>3 DEF ReserveTypeOK, sourceVars, storeVars

\* Verification adds to those who verified.
LEMMA VerifiedTyped ==
  ASSUME fresh \in [{"source", "output"} -> SUBSET Proc], NEW p \in Proc, NEW S, Verified(p, S)
  PROVE  /\ fresh' \in [{"source", "output"} -> SUBSET Proc]
         /\ \A s \in {"source", "output"} :
              fresh'[s] = IF s \in S THEN fresh[s] \union {p} ELSE fresh[s]
  BY DEF Verified

\* Every step keeps the types.
LEMMA ReserveTypeStep == ASSUME ReserveTypeOK, StepOK, [ReserveNext]_reserveVars PROVE ReserveTypeOK'
  <1>1. ASSUME NEW p \in Proc, Select(p) PROVE ReserveTypeOK'
    <2>1. PICK a \in Path, o \in Output, m \in {"acquire", "reopen"} :
            /\ at[a] # Nil
            /\ job' = [job EXCEPT ![p] =
                         [path |-> a, src |-> [file |-> at[a], ver |-> ver[at[a]]],
                          out |-> o, mode |-> m]]
      BY <1>1 DEF Select
    <2>2. at[a] \in File /\ ver[at[a]] \in Nat
      BY <2>1 DEF ReserveTypeOK
    <2>3. [path |-> a, src |-> [file |-> at[a], ver |-> ver[at[a]]], out |-> o, mode |-> m] \in Job
      BY <2>2 DEF Job, SourceIdentity
    <2> QED
      BY <1>1, <2>1, <2>3 DEF Select, Enter, ReservePc, ReserveTypeOK, sourceVars, storeVars
  <1>2. ASSUME NEW p \in Proc, OpenLock(p) PROVE ReserveTypeOK'
    <2>1. locked[p] + 1 \in Locks /\ job[p] \in Job
      BY <1>2 DEF OpenLock, StepOK, Taken, Locks
    <2>2. lockfile[Keys(p)[locked[p] + 1]] \in Nat
      BY <2>1, KeyFacts DEF ReserveTypeOK
    <2>3. gen' = [gen EXCEPT ![p][locked[p] + 1] = lockfile[Keys(p)[locked[p] + 1]]]
      BY <1>2 DEF OpenLock
    <2>4. gen' \in [Proc -> [Locks -> Nat]]
      BY <2>1, <2>2, <2>3 DEF ReserveTypeOK
    <2> QED
      BY <1>2, <2>4 DEF OpenLock, Enter, ReservePc, ReserveTypeOK, sourceVars, storeVars
  <1>3. ASSUME NEW p \in Proc, Flock(p) PROVE ReserveTypeOK'
    <2>1. locked[p] \in 0..3
      BY <1>3 DEF Flock, StepOK, Taken
    <2> QED
      BY <1>3, <2>1 DEF Flock, Enter, ReservePc, ReserveTypeOK, sourceVars, storeVars
  <1>4. ASSUME NEW p \in Proc, GiveUp(p) PROVE ReserveTypeOK'
    BY <1>4, DropTyped DEF GiveUp
  <1>5. ASSUME NEW p \in Proc, VerifyLock(p) PROVE ReserveTypeOK'
    BY <1>5 DEF VerifyLock, Enter, ReservePc, ReserveTypeOK, sourceVars, storeVars
  <1>6. ASSUME NEW p \in Proc, VerifySource(p) PROVE ReserveTypeOK'
    <2>1. fresh' \in [{"source", "output"} -> SUBSET Proc]
      BY <1>6, VerifiedTyped DEF VerifySource, ReserveTypeOK
    <2> QED
      BY <1>6, <2>1 DEF VerifySource, Enter, ReservePc, ReserveTypeOK, sourceVars, storeVars
  <1>7. ASSUME NEW p \in Proc, BeginOutput(p) PROVE ReserveTypeOK'
    <2>1. fresh' \in [{"source", "output"} -> SUBSET Proc]
      BY <1>7, VerifiedTyped DEF BeginOutput, ReserveTypeOK
    <2> QED
      BY <1>7, <2>1 DEF BeginOutput, Enter, ReservePc, ReserveTypeOK, sourceVars, storeVars
  <1>8. ASSUME NEW p \in Proc, InspectRecord(p) PROVE ReserveTypeOK'
    BY <1>8 DEF InspectRecord, Enter, ReservePc, ReserveTypeOK, sourceVars, storeVars
  <1>9. ASSUME NEW p \in Proc, ReadRecord(p) PROVE ReserveTypeOK'
    <2>1. fresh' \in [{"source", "output"} -> SUBSET Proc]
      BY <1>9, VerifiedTyped DEF ReadRecord, ReserveTypeOK
    <2> QED
      BY <1>9, <2>1 DEF ReadRecord, Enter, ReservePc, ReserveTypeOK, sourceVars, storeVars
  <1>10. ASSUME NEW p \in Proc, BeginCreate(p) PROVE ReserveTypeOK'
    BY <1>10 DEF BeginCreate, Enter, ReservePc, ReserveTypeOK, sourceVars, storeVars
  <1>11. ASSUME NEW p \in Proc, CreateRecord(p) PROVE ReserveTypeOK'
    <2>1. job[p] \in Job /\ gen[p][3] \in Nat
      BY <1>11 DEF CreateRecord, StepOK, ReserveTypeOK, Locks
    <2>2. [src |-> job[p].src, lock |-> gen[p][3]] \in Record
      BY <2>1, KeyFacts DEF Record
    <2>3. record' \in [Output -> Record \union {Nil}]
      BY <1>11, <2>2 DEF CreateRecord, ReserveTypeOK
    <2> QED
      BY <1>11, <2>3 DEF CreateRecord, Enter, ReservePc, ReserveTypeOK, sourceVars
  <1>12. ASSUME NEW p \in Proc, ConfirmRecord(p) PROVE ReserveTypeOK'
    <2>1. fresh' \in [{"source", "output"} -> SUBSET Proc]
      BY <1>12, VerifiedTyped DEF ConfirmRecord, ReserveTypeOK
    <2> QED
      BY <1>12, <2>1 DEF ConfirmRecord, Enter, ReservePc, ReserveTypeOK, sourceVars, storeVars
  <1>13. ASSUME NEW p \in Proc, VerifyGuards(p) PROVE ReserveTypeOK'
    <2>1. fresh' \in [{"source", "output"} -> SUBSET Proc]
      BY <1>13, VerifiedTyped DEF VerifyGuards, ReserveTypeOK
    <2> QED
      BY <1>13, <2>1 DEF VerifyGuards, Enter, ReservePc, ReserveTypeOK, sourceVars, storeVars
  <1>14. ASSUME NEW p \in Proc, Publish(p) PROVE ReserveTypeOK'
    <2>1. job[p] \in Job
      BY <1>14 DEF Publish, StepOK
    <2>2. [out |-> job[p].out, src |-> job[p].src] \in Artifact
      BY <2>1, KeyFacts DEF Artifact
    <2>3. present' \in [Name -> Artifact \union {Nil}]
      BY <1>14, <2>2 DEF Publish, ReserveTypeOK
    <2> QED
      BY <1>14, <2>3 DEF Publish, Enter, ReservePc, ReserveTypeOK, sourceVars
  <1>15. ASSUME NEW p \in Proc, Finish(p) PROVE ReserveTypeOK'
    BY <1>15, DropTyped DEF Finish
  <1>16. ASSUME NEW p \in Proc, Reject(p) PROVE ReserveTypeOK'
    BY <1>16, DropTyped DEF Reject
  <1>17. ASSUME NEW p \in Proc, Abandon(p) PROVE ReserveTypeOK'
    BY <1>17, DropTyped DEF Abandon
  <1>18. ASSUME NEW a \in Path, NEW b \in Path, RenameSource(a, b) PROVE ReserveTypeOK'
    <2>1. at' \in [Path -> File \union {Nil}] /\ at[a] \in File
      BY <1>18 DEF RenameSource, ReserveTypeOK
    <2>2. ver' = [ver EXCEPT ![at[a]] = ver[at[a]] + 1]
      BY <1>18 DEF RenameSource
    <2>3. ver' \in [File -> Nat]
      BY <2>1, <2>2 DEF ReserveTypeOK
    <2> QED
      BY <1>18, <2>1, <2>3 DEF RenameSource, ReserveTypeOK, storeVars, procVars
  <1>19. ASSUME NEW f \in File, RewriteSource(f) PROVE ReserveTypeOK'
    <2>1. ver' = [ver EXCEPT ![f] = ver[f] + 1]
      BY <1>19 DEF RewriteSource
    <2>2. ver' \in [File -> Nat]
      BY <2>1 DEF ReserveTypeOK
    <2> QED
      BY <1>19, <2>2 DEF RewriteSource, ReserveTypeOK, storeVars, procVars
  <1>20. ASSUME NEW k \in Key, ReplaceLock(k) PROVE ReserveTypeOK'
    <2>1. lockfile' = [lockfile EXCEPT ![k] = lockfile[k] + 1]
      BY <1>20 DEF ReplaceLock
    <2>2. lockfile' \in [Key -> Nat]
      BY <2>1 DEF ReserveTypeOK
    <2>3. fresh' \in [{"source", "output"} -> SUBSET Proc]
      BY <1>20 DEF ReplaceLock, ReserveTypeOK
    <2> QED
      BY <1>20, <2>2, <2>3 DEF ReplaceLock, ReserveTypeOK, sourceVars, storeVars, procVars
  <1>21. CASE UNCHANGED reserveVars
    BY <1>21 DEF reserveVars, sourceVars, storeVars, procVars, ReserveTypeOK
  <1> QED
    BY <1>1, <1>2, <1>3, <1>4, <1>5, <1>6, <1>7, <1>8, <1>9, <1>10, <1>11, <1>12, <1>13, <1>14,
       <1>15, <1>16, <1>17, <1>18, <1>19, <1>20, <1>21 DEF ReserveNext, ReserveStep

\* Every step keeps the locks in step with the control.
LEMMA StepStep == ASSUME ReserveTypeOK, StepOK, [ReserveNext]_reserveVars PROVE StepOK'
  <1>1. ASSUME NEW p \in Proc, Select(p) PROVE StepOK'
    <2>1. /\ phase[p] = "idle" /\ phase'[p] = "open" /\ locked'[p] = locked[p]
          /\ \A q \in Proc : q # p => phase'[q] = phase[q] /\ job'[q] = job[q] /\ locked'[q] = locked[q]
      BY <1>1 DEF Select, Enter, ReserveTypeOK
    <2>2. PICK a \in Path, o \in Output, m \in {"acquire", "reopen"} :
            /\ at[a] # Nil
            /\ job' = [job EXCEPT ![p] =
                         [path |-> a, src |-> [file |-> at[a], ver |-> ver[at[a]]],
                          out |-> o, mode |-> m]]
      BY <1>1 DEF Select
    <2>3. at[a] \in File /\ ver[at[a]] \in Nat
      BY <2>2 DEF ReserveTypeOK
    <2>4. job'[p] \in Job
      BY <2>2, <2>3 DEF Job, SourceIdentity, ReserveTypeOK
    <2> QED
      BY <2>1, <2>4 DEF StepOK, Taken
  <1>2. ASSUME NEW p \in Proc, OpenLock(p) PROVE StepOK'
    <2>1. /\ job' = job /\ \A q \in Proc : q # p => phase'[q] = phase[q] /\ locked'[q] = locked[q]
      BY <1>2 DEF OpenLock, Enter, ReserveTypeOK
    <2>2. phase[p] # "idle" /\ locked'[p] \in Taken(phase'[p])
      BY <1>2 DEF OpenLock, Enter, ReserveTypeOK, StepOK, Taken
    <2> QED
      BY <2>1, <2>2 DEF StepOK
  <1>3. ASSUME NEW p \in Proc, Flock(p) PROVE StepOK'
    <2>1. /\ job' = job /\ \A q \in Proc : q # p => phase'[q] = phase[q] /\ locked'[q] = locked[q]
      BY <1>3 DEF Flock, Enter, ReserveTypeOK
    <2>2. phase[p] # "idle" /\ locked'[p] \in Taken(phase'[p])
      BY <1>3 DEF Flock, Enter, ReserveTypeOK, StepOK, Taken
    <2> QED
      BY <2>1, <2>2 DEF StepOK
  <1>4. ASSUME NEW p \in Proc, GiveUp(p) PROVE StepOK'
    <2>1. /\ phase'[p] = "idle" /\ locked'[p] = 0
          /\ \A q \in Proc : q # p => phase'[q] = phase[q] /\ job'[q] = job[q] /\ locked'[q] = locked[q]
      BY <1>4, Dropped DEF GiveUp
    <2> QED
      BY <2>1 DEF StepOK, Taken
  <1>5. ASSUME NEW p \in Proc, VerifyLock(p) PROVE StepOK'
    <2>1. /\ job' = job /\ \A q \in Proc : q # p => phase'[q] = phase[q] /\ locked'[q] = locked[q]
      BY <1>5 DEF VerifyLock, Enter, ReserveTypeOK
    <2>2. phase[p] # "idle" /\ locked'[p] \in Taken(phase'[p])
      BY <1>5 DEF VerifyLock, Enter, ReserveTypeOK, StepOK, Taken
    <2> QED
      BY <2>1, <2>2 DEF StepOK
  <1>6. ASSUME NEW p \in Proc, VerifySource(p) PROVE StepOK'
    <2>1. /\ job' = job /\ \A q \in Proc : q # p => phase'[q] = phase[q] /\ locked'[q] = locked[q]
      BY <1>6 DEF VerifySource, Enter, ReserveTypeOK
    <2>2. phase[p] # "idle" /\ locked'[p] \in Taken(phase'[p])
      BY <1>6 DEF VerifySource, Enter, ReserveTypeOK, StepOK, Taken
    <2> QED
      BY <2>1, <2>2 DEF StepOK
  <1>7. ASSUME NEW p \in Proc, BeginOutput(p) PROVE StepOK'
    <2>1. /\ job' = job /\ \A q \in Proc : q # p => phase'[q] = phase[q] /\ locked'[q] = locked[q]
      BY <1>7 DEF BeginOutput, Enter, ReserveTypeOK
    <2>2. phase[p] # "idle" /\ locked'[p] \in Taken(phase'[p])
      BY <1>7 DEF BeginOutput, Enter, ReserveTypeOK, StepOK, Taken
    <2> QED
      BY <2>1, <2>2 DEF StepOK
  <1>8. ASSUME NEW p \in Proc, InspectRecord(p) PROVE StepOK'
    <2>1. /\ job' = job /\ \A q \in Proc : q # p => phase'[q] = phase[q] /\ locked'[q] = locked[q]
      BY <1>8 DEF InspectRecord, Enter, ReserveTypeOK
    <2>2. phase[p] # "idle" /\ locked'[p] \in Taken(phase'[p])
      BY <1>8 DEF InspectRecord, Enter, ReserveTypeOK, StepOK, Taken
    <2> QED
      BY <2>1, <2>2 DEF StepOK
  <1>9. ASSUME NEW p \in Proc, ReadRecord(p) PROVE StepOK'
    <2>1. /\ job' = job /\ \A q \in Proc : q # p => phase'[q] = phase[q] /\ locked'[q] = locked[q]
      BY <1>9 DEF ReadRecord, Enter, ReserveTypeOK
    <2>2. phase[p] # "idle" /\ locked'[p] \in Taken(phase'[p])
      BY <1>9 DEF ReadRecord, Enter, ReserveTypeOK, StepOK, Taken
    <2> QED
      BY <2>1, <2>2 DEF StepOK
  <1>10. ASSUME NEW p \in Proc, BeginCreate(p) PROVE StepOK'
    <2>1. /\ job' = job /\ \A q \in Proc : q # p => phase'[q] = phase[q] /\ locked'[q] = locked[q]
      BY <1>10 DEF BeginCreate, Enter, ReserveTypeOK
    <2>2. phase[p] # "idle" /\ locked'[p] \in Taken(phase'[p])
      BY <1>10 DEF BeginCreate, Enter, ReserveTypeOK, StepOK, Taken
    <2> QED
      BY <2>1, <2>2 DEF StepOK
  <1>11. ASSUME NEW p \in Proc, CreateRecord(p) PROVE StepOK'
    <2>1. /\ job' = job /\ \A q \in Proc : q # p => phase'[q] = phase[q] /\ locked'[q] = locked[q]
      BY <1>11 DEF CreateRecord, Enter, ReserveTypeOK
    <2>2. phase[p] # "idle" /\ locked'[p] \in Taken(phase'[p])
      BY <1>11 DEF CreateRecord, Enter, ReserveTypeOK, StepOK, Taken
    <2> QED
      BY <2>1, <2>2 DEF StepOK
  <1>12. ASSUME NEW p \in Proc, ConfirmRecord(p) PROVE StepOK'
    <2>1. /\ job' = job /\ \A q \in Proc : q # p => phase'[q] = phase[q] /\ locked'[q] = locked[q]
      BY <1>12 DEF ConfirmRecord, Enter, ReserveTypeOK
    <2>2. phase[p] # "idle" /\ locked'[p] \in Taken(phase'[p])
      BY <1>12 DEF ConfirmRecord, Enter, ReserveTypeOK, StepOK, Taken
    <2> QED
      BY <2>1, <2>2 DEF StepOK
  <1>13. ASSUME NEW p \in Proc, VerifyGuards(p) PROVE StepOK'
    <2>1. /\ job' = job /\ \A q \in Proc : q # p => phase'[q] = phase[q] /\ locked'[q] = locked[q]
      BY <1>13 DEF VerifyGuards, Enter, ReserveTypeOK
    <2>2. phase[p] # "idle" /\ locked'[p] \in Taken(phase'[p])
      BY <1>13 DEF VerifyGuards, Enter, ReserveTypeOK, StepOK, Taken
    <2> QED
      BY <2>1, <2>2 DEF StepOK
  <1>14. ASSUME NEW p \in Proc, Publish(p) PROVE StepOK'
    <2>1. /\ job' = job /\ \A q \in Proc : q # p => phase'[q] = phase[q] /\ locked'[q] = locked[q]
      BY <1>14 DEF Publish, Enter, ReserveTypeOK
    <2>2. phase[p] # "idle" /\ locked'[p] \in Taken(phase'[p])
      BY <1>14 DEF Publish, Enter, ReserveTypeOK, StepOK, Taken
    <2> QED
      BY <2>1, <2>2 DEF StepOK
  <1>15. ASSUME NEW p \in Proc, Finish(p) PROVE StepOK'
    <2>1. /\ phase'[p] = "idle" /\ locked'[p] = 0
          /\ \A q \in Proc : q # p => phase'[q] = phase[q] /\ job'[q] = job[q] /\ locked'[q] = locked[q]
      BY <1>15, Dropped DEF Finish
    <2> QED
      BY <2>1 DEF StepOK, Taken
  <1>16. ASSUME NEW p \in Proc, Reject(p) PROVE StepOK'
    <2>1. /\ phase'[p] = "idle" /\ locked'[p] = 0
          /\ \A q \in Proc : q # p => phase'[q] = phase[q] /\ job'[q] = job[q] /\ locked'[q] = locked[q]
      BY <1>16, Dropped DEF Reject
    <2> QED
      BY <2>1 DEF StepOK, Taken
  <1>17. ASSUME NEW p \in Proc, Abandon(p) PROVE StepOK'
    <2>1. /\ phase'[p] = "idle" /\ locked'[p] = 0
          /\ \A q \in Proc : q # p => phase'[q] = phase[q] /\ job'[q] = job[q] /\ locked'[q] = locked[q]
      BY <1>17, Dropped DEF Abandon
    <2> QED
      BY <2>1 DEF StepOK, Taken
  <1>18. ASSUME NEW a \in Path, NEW b \in Path, RenameSource(a, b) PROVE StepOK'
    BY <1>18 DEF RenameSource, procVars, StepOK, Taken
  <1>19. ASSUME NEW f \in File, RewriteSource(f) PROVE StepOK'
    BY <1>19 DEF RewriteSource, procVars, StepOK, Taken
  <1>20. ASSUME NEW k \in Key, ReplaceLock(k) PROVE StepOK'
    BY <1>20 DEF ReplaceLock, procVars, StepOK, Taken
  <1>21. CASE UNCHANGED reserveVars
    BY <1>21 DEF reserveVars, procVars, StepOK, Taken
  <1> QED
    BY <1>1, <1>2, <1>3, <1>4, <1>5, <1>6, <1>7, <1>8, <1>9, <1>10, <1>11, <1>12, <1>13, <1>14,
       <1>15, <1>16, <1>17, <1>18, <1>19, <1>20, <1>21 DEF ReserveNext, ReserveStep

\* The locks stay apart if at most one process takes some, that nobody holds.
LEMMA ApartGrow ==
  ASSUME LocksApart, NEW p \in Proc, NEW X, HeldLocks(p)' \subseteq HeldLocks(p) \union X,
         \A q \in Proc : q # p => HeldLocks(q)' = HeldLocks(q) /\ X \intersect HeldLocks(q) = {}
  PROVE  LocksApart'
  BY DEF LocksApart

\* They stay apart if a process drops its own.
LEMMA ApartDrop ==
  ASSUME ReserveTypeOK, LocksApart, NEW p \in Proc, Drop(p) PROVE LocksApart'
  <1>1. HeldLocks(p)' = {} /\ \A q \in Proc : q # p => HeldLocks(q)' = HeldLocks(q)
    BY Dropped
  <1> QED
    BY <1>1 DEF LocksApart

\* A process waits for another one's lock exactly if that one holds it.
LEMMA WaitsForHeld ==
  ASSUME ReserveTypeOK, NEW p \in Proc, NEW q \in Proc, phase[p] = "flock"
  PROVE  Waits(p, q) <=> <<Keys(p)[locked[p] + 1], gen[p][locked[p] + 1]>> \in HeldLocks(q)
  BY DEF Waits, Owns, HeldLocks

\* Every step keeps the locks apart.
LEMMA ApartStep ==
  ASSUME ReserveTypeOK, StepOK, LocksApart, [ReserveNext]_reserveVars
  PROVE  LocksApart'
  <1>1. ASSUME NEW p \in Proc, Select(p) PROVE LocksApart'
    <2>1. /\ phase[p] = "idle" /\ locked' = locked /\ gen' = gen
          /\ \A q \in Proc : q # p => job'[q] = job[q]
      BY <1>1 DEF Select, ReserveTypeOK
    <2>2. HeldLocks(p)' = {}
      BY <2>1 DEF HeldLocks, StepOK, Taken
    <2>3. \A q \in Proc : q # p => HeldLocks(q)' = HeldLocks(q)
      BY <2>1, SameHeld DEF ReserveTypeOK
    <2> QED
      BY <2>2, <2>3 DEF LocksApart
  <1>2. ASSUME NEW p \in Proc, OpenLock(p) PROVE LocksApart'
    <2>1. /\ job' = job /\ locked' = locked /\ locked[p] \in 0..3
          /\ gen' = [gen EXCEPT ![p][locked[p] + 1] = lockfile[Keys(p)[locked[p] + 1]]]
      BY <1>2 DEF OpenLock, StepOK, Taken
    <2>2. \A q \in Proc : \A n \in 1..locked[q] : gen'[q][n] = gen[q][n]
      BY <2>1 DEF ReserveTypeOK, Locks
    <2>3. \A q \in Proc : HeldLocks(q)' = HeldLocks(q)
      BY <2>1, <2>2, SameHeld DEF ReserveTypeOK
    <2> QED
      BY <2>3 DEF LocksApart
  <1>3. ASSUME NEW p \in Proc, Flock(p) PROVE LocksApart'
    <2> DEFINE k == <<Keys(p)[locked[p] + 1], gen[p][locked[p] + 1]>>
    <2>1. /\ phase[p] = "flock" /\ locked[p] \in 0..3 /\ locked'[p] = locked[p] + 1
          /\ job' = job /\ gen' = gen /\ \A q \in Proc : q # p => locked'[q] = locked[q]
      BY <1>3 DEF Flock, ReserveTypeOK, StepOK, Taken
    <2>2. \A q \in Proc : k \notin HeldLocks(q)
      BY <1>3, <2>1, WaitsForHeld DEF Flock
    <2>3. Keys(p)' = Keys(p)
      BY <2>1, SameKeys
    <2>4. HeldLocks(p)' \subseteq HeldLocks(p) \union {k}
      BY <2>1, <2>3 DEF HeldLocks
    <2>5. \A q \in Proc : q # p => HeldLocks(q)' = HeldLocks(q)
      BY <2>1, SameHeld DEF ReserveTypeOK
    <2>6. \A q \in Proc : q # p => {k} \intersect HeldLocks(q) = {}
      BY <2>2
    <2> DEFINE X == {k}
    <2> HIDE DEF k
    <2>7. HeldLocks(p)' \subseteq HeldLocks(p) \union X
      BY <2>4
    <2>8. \A q \in Proc : q # p => HeldLocks(q)' = HeldLocks(q) /\ X \intersect HeldLocks(q) = {}
      BY <2>5, <2>6
    <2> HIDE DEF X
    <2> QED
      BY <2>7, <2>8, ApartGrow
  <1>4. ASSUME NEW p \in Proc, GiveUp(p) PROVE LocksApart'
    BY <1>4, ApartDrop DEF GiveUp
  <1>5. ASSUME NEW p \in Proc, VerifyLock(p) PROVE LocksApart'
    <2>1. \A q \in Proc : HeldLocks(q)' = HeldLocks(q)
      BY <1>5, SameHeld DEF VerifyLock, ReserveTypeOK
    <2> QED
      BY <2>1 DEF LocksApart
  <1>6. ASSUME NEW p \in Proc, VerifySource(p) PROVE LocksApart'
    <2>1. \A q \in Proc : HeldLocks(q)' = HeldLocks(q)
      BY <1>6, SameHeld DEF VerifySource, ReserveTypeOK
    <2> QED
      BY <2>1 DEF LocksApart
  <1>7. ASSUME NEW p \in Proc, BeginOutput(p) PROVE LocksApart'
    <2>1. \A q \in Proc : HeldLocks(q)' = HeldLocks(q)
      BY <1>7, SameHeld DEF BeginOutput, ReserveTypeOK
    <2> QED
      BY <2>1 DEF LocksApart
  <1>8. ASSUME NEW p \in Proc, InspectRecord(p) PROVE LocksApart'
    <2>1. \A q \in Proc : HeldLocks(q)' = HeldLocks(q)
      BY <1>8, SameHeld DEF InspectRecord, ReserveTypeOK
    <2> QED
      BY <2>1 DEF LocksApart
  <1>9. ASSUME NEW p \in Proc, ReadRecord(p) PROVE LocksApart'
    <2>1. \A q \in Proc : HeldLocks(q)' = HeldLocks(q)
      BY <1>9, SameHeld DEF ReadRecord, ReserveTypeOK
    <2> QED
      BY <2>1 DEF LocksApart
  <1>10. ASSUME NEW p \in Proc, BeginCreate(p) PROVE LocksApart'
    <2>1. \A q \in Proc : HeldLocks(q)' = HeldLocks(q)
      BY <1>10, SameHeld DEF BeginCreate, ReserveTypeOK
    <2> QED
      BY <2>1 DEF LocksApart
  <1>11. ASSUME NEW p \in Proc, CreateRecord(p) PROVE LocksApart'
    <2>1. \A q \in Proc : HeldLocks(q)' = HeldLocks(q)
      BY <1>11, SameHeld DEF CreateRecord, ReserveTypeOK
    <2> QED
      BY <2>1 DEF LocksApart
  <1>12. ASSUME NEW p \in Proc, ConfirmRecord(p) PROVE LocksApart'
    <2>1. \A q \in Proc : HeldLocks(q)' = HeldLocks(q)
      BY <1>12, SameHeld DEF ConfirmRecord, ReserveTypeOK
    <2> QED
      BY <2>1 DEF LocksApart
  <1>13. ASSUME NEW p \in Proc, VerifyGuards(p) PROVE LocksApart'
    <2>1. \A q \in Proc : HeldLocks(q)' = HeldLocks(q)
      BY <1>13, SameHeld DEF VerifyGuards, ReserveTypeOK
    <2> QED
      BY <2>1 DEF LocksApart
  <1>14. ASSUME NEW p \in Proc, Publish(p) PROVE LocksApart'
    <2>1. \A q \in Proc : HeldLocks(q)' = HeldLocks(q)
      BY <1>14, SameHeld DEF Publish, ReserveTypeOK
    <2> QED
      BY <2>1 DEF LocksApart
  <1>15. ASSUME NEW p \in Proc, Finish(p) PROVE LocksApart'
    BY <1>15, ApartDrop DEF Finish
  <1>16. ASSUME NEW p \in Proc, Reject(p) PROVE LocksApart'
    BY <1>16, ApartDrop DEF Reject
  <1>17. ASSUME NEW p \in Proc, Abandon(p) PROVE LocksApart'
    BY <1>17, ApartDrop DEF Abandon
  <1>18. ASSUME NEW a \in Path, NEW b \in Path, RenameSource(a, b) PROVE LocksApart'
    <2>1. \A q \in Proc : HeldLocks(q)' = HeldLocks(q)
      BY <1>18, SameHeld DEF RenameSource, procVars, ReserveTypeOK
    <2> QED
      BY <2>1 DEF LocksApart
  <1>19. ASSUME NEW f \in File, RewriteSource(f) PROVE LocksApart'
    <2>1. \A q \in Proc : HeldLocks(q)' = HeldLocks(q)
      BY <1>19, SameHeld DEF RewriteSource, procVars, ReserveTypeOK
    <2> QED
      BY <2>1 DEF LocksApart
  <1>20. ASSUME NEW k \in Key, ReplaceLock(k) PROVE LocksApart'
    <2>1. \A q \in Proc : HeldLocks(q)' = HeldLocks(q)
      BY <1>20, SameHeld DEF ReplaceLock, procVars, ReserveTypeOK
    <2> QED
      BY <2>1 DEF LocksApart
  <1>21. CASE UNCHANGED reserveVars
    <2>1. \A q \in Proc : HeldLocks(q)' = HeldLocks(q)
      BY <1>21, SameHeld DEF reserveVars, procVars, ReserveTypeOK
    <2> QED
      BY <2>1 DEF LocksApart
  <1> QED
    BY <1>1, <1>2, <1>3, <1>4, <1>5, <1>6, <1>7, <1>8, <1>9, <1>10, <1>11, <1>12, <1>13, <1>14,
       <1>15, <1>16, <1>17, <1>18, <1>19, <1>20, <1>21 DEF ReserveNext, ReserveStep

\* Locks stay current while their process keeps them and no file is replaced.
LEMMA CurrentStays ==
  ASSUME NEW p \in Proc, NEW S, job'[p] = job[p], lockfile' = lockfile,
         \A n \in S : gen'[p][n] = gen[p][n]
  PROVE  Current(p, S)' <=> Current(p, S)
  <1>1. Keys(p)' = Keys(p)
    BY SameKeys
  <1> QED
    BY <1>1 DEF Current

\* Nobody verifies, and no lock changes that somebody holds.
LEMMA FreshStays ==
  ASSUME ReserveTypeOK, FreshOK, lockfile' = lockfile,
         \A s \in {"source", "output"} : fresh'[s] \subseteq fresh[s],
         \A q \in fresh'["source"] \union fresh'["output"] :
           /\ job'[q] = job[q] /\ locked'[q] >= locked[q] /\ locked'[q] \in 0..4
           /\ \A n \in 1..locked[q] : gen'[q][n] = gen[q][n]
  PROVE  FreshOK'
  <1>1. ASSUME NEW q \in fresh'["source"] PROVE locked'[q] >= 2 /\ Current(q, 1..2)'
    <2>1. q \in Proc /\ locked[q] >= 2 /\ locked[q] \in 0..4 /\ Current(q, 1..2)
      BY DEF FreshOK, ReserveTypeOK
    <2>2. \A n \in 1..2 : n \in 1..locked[q]
      BY <2>1
    <2> QED
      BY <2>1, <2>2, CurrentStays
  <1>2. ASSUME NEW q \in fresh'["output"] PROVE locked'[q] = 4 /\ Current(q, 3..4)'
    <2>1. q \in Proc /\ locked[q] = 4 /\ Current(q, 3..4)
      BY DEF FreshOK, ReserveTypeOK
    <2>2. \A n \in 3..4 : n \in 1..locked[q]
      BY <2>1
    <2> QED
      BY <2>1, <2>2, CurrentStays
  <1> QED
    BY <1>1, <1>2 DEF FreshOK

\* One process verifies.
LEMMA FreshGrows ==
  ASSUME ReserveTypeOK, FreshOK, NEW p \in Proc, NEW S, Verified(p, S),
         UNCHANGED <<lockfile, job, locked, gen>>,
         "source" \in S => locked[p] >= 2 /\ Current(p, 1..2),
         "output" \in S => locked[p] = 4 /\ Current(p, 3..4)
  PROVE  FreshOK'
  <1>1. \A s \in {"source", "output"} :
           fresh'[s] = IF s \in S THEN fresh[s] \union {p} ELSE fresh[s]
    <2>1. fresh \in [{"source", "output"} -> SUBSET Proc]
      BY DEF ReserveTypeOK
    <2> QED
      BY <2>1, VerifiedTyped
  <1>2. \A q \in Proc : (Current(q, 1..2)' <=> Current(q, 1..2))
                        /\ (Current(q, 3..4)' <=> Current(q, 3..4))
    BY CurrentStays
  <1>3. \A q \in fresh'["source"] : q \in Proc /\ locked[q] >= 2 /\ Current(q, 1..2)
    BY <1>1 DEF FreshOK, ReserveTypeOK
  <1>4. \A q \in fresh'["output"] : q \in Proc /\ locked[q] = 4 /\ Current(q, 3..4)
    BY <1>1 DEF FreshOK, ReserveTypeOK
  <1> QED
    BY <1>2, <1>3, <1>4 DEF FreshOK

\* Every step keeps what those who verified rely on.
LEMMA FreshStep ==
  ASSUME ReserveTypeOK, StepOK, FreshOK, [ReserveNext]_reserveVars
  PROVE  FreshOK'
  <1>1. ASSUME NEW p \in Proc, Select(p) PROVE FreshOK'
    <2>1. /\ phase[p] = "idle" /\ UNCHANGED <<lockfile, locked, gen, fresh>>
          /\ \A q \in Proc : q # p => job'[q] = job[q]
      BY <1>1 DEF Select, ReserveTypeOK
    <2>2. p \notin fresh["source"] \union fresh["output"]
      BY <2>1 DEF StepOK, Taken, FreshOK
    <2> QED
      BY <2>1, <2>2, FreshStays DEF ReserveTypeOK
  <1>2. ASSUME NEW p \in Proc, OpenLock(p) PROVE FreshOK'
    <2>1. /\ UNCHANGED <<lockfile, job, locked, fresh>> /\ locked[p] \in 0..3
          /\ gen' = [gen EXCEPT ![p][locked[p] + 1] = lockfile[Keys(p)[locked[p] + 1]]]
      BY <1>2 DEF OpenLock, StepOK, Taken
    <2>2. \A q \in Proc : \A n \in 1..locked[q] : gen'[q][n] = gen[q][n]
      BY <2>1 DEF ReserveTypeOK, Locks
    <2> QED
      BY <2>1, <2>2, FreshStays DEF ReserveTypeOK
  <1>3. ASSUME NEW p \in Proc, Flock(p) PROVE FreshOK'
    <2>1. /\ UNCHANGED <<lockfile, job, gen, fresh>> /\ locked[p] \in 0..3
          /\ locked' = [locked EXCEPT ![p] = locked[p] + 1]
      BY <1>3 DEF Flock, StepOK, Taken
    <2>2. \A q \in Proc : locked'[q] >= locked[q] /\ locked'[q] \in 0..4
      BY <2>1 DEF ReserveTypeOK
    <2> QED
      BY <2>1, <2>2, FreshStays DEF ReserveTypeOK
  <1>4. ASSUME NEW p \in Proc, GiveUp(p) PROVE FreshOK'
    <2>1. /\ lockfile' = lockfile /\ locked'[p] = 0 /\ Drop(p)
      BY <1>4, Dropped DEF GiveUp
    <2>2. ASSUME NEW q \in fresh'["source"] \union fresh'["output"]
          PROVE  /\ job'[q] = job[q] /\ locked'[q] = locked[q] /\ gen'[q] = gen[q]
                 /\ q \in Proc
      BY <2>1, Dropped DEF ReserveTypeOK
    <2>3. \A s \in {"source", "output"} : fresh'[s] \subseteq fresh[s]
      BY <2>1, Dropped
    <2> QED
      BY <2>1, <2>2, <2>3, FreshStays DEF ReserveTypeOK
  <1>5. ASSUME NEW p \in Proc, VerifyLock(p) PROVE FreshOK'
    <2>1. UNCHANGED <<lockfile, job, locked, gen, fresh>>
      BY <1>5 DEF VerifyLock
    <2> QED
      BY <2>1, FreshStays DEF ReserveTypeOK
  <1>6. ASSUME NEW p \in Proc, VerifySource(p) PROVE FreshOK'
    <2>1. Verified(p, {"source"}) /\ UNCHANGED <<lockfile, job, locked, gen>>
      BY <1>6 DEF VerifySource
    <2>2. locked[p] = 2 /\ Current(p, 1..2)
      BY <1>6 DEF VerifySource, SourceVerified, StepOK, Taken
    <2> QED
      BY <2>1, <2>2, FreshGrows
  <1>7. ASSUME NEW p \in Proc, BeginOutput(p) PROVE FreshOK'
    <2>1. Verified(p, {"source"}) /\ UNCHANGED <<lockfile, job, locked, gen>>
      BY <1>7 DEF BeginOutput
    <2>2. locked[p] = 2 /\ Current(p, 1..2)
      BY <1>7 DEF BeginOutput, SourceVerified, StepOK, Taken
    <2> QED
      BY <2>1, <2>2, FreshGrows
  <1>8. ASSUME NEW p \in Proc, InspectRecord(p) PROVE FreshOK'
    <2>1. UNCHANGED <<lockfile, job, locked, gen, fresh>>
      BY <1>8 DEF InspectRecord
    <2> QED
      BY <2>1, FreshStays DEF ReserveTypeOK
  <1>9. ASSUME NEW p \in Proc, ReadRecord(p) PROVE FreshOK'
    <2>1. Verified(p, {"source", "output"}) /\ UNCHANGED <<lockfile, job, locked, gen>>
      BY <1>9 DEF ReadRecord
    <2>2. locked[p] = 4 /\ Current(p, 1..2) /\ Current(p, 3..4)
      BY <1>9 DEF ReadRecord, GuardsVerified, SourceVerified, StepOK, Taken
    <2> QED
      BY <2>1, <2>2, FreshGrows
  <1>10. ASSUME NEW p \in Proc, BeginCreate(p) PROVE FreshOK'
    <2>1. UNCHANGED <<lockfile, job, locked, gen, fresh>>
      BY <1>10 DEF BeginCreate
    <2> QED
      BY <2>1, FreshStays DEF ReserveTypeOK
  <1>11. ASSUME NEW p \in Proc, CreateRecord(p) PROVE FreshOK'
    <2>1. UNCHANGED <<lockfile, job, locked, gen, fresh>>
      BY <1>11 DEF CreateRecord
    <2> QED
      BY <2>1, FreshStays DEF ReserveTypeOK
  <1>12. ASSUME NEW p \in Proc, ConfirmRecord(p) PROVE FreshOK'
    <2>1. Verified(p, {"output"}) /\ UNCHANGED <<lockfile, job, locked, gen>>
      BY <1>12 DEF ConfirmRecord
    <2>2. locked[p] = 4 /\ Current(p, 3..4)
      BY <1>12 DEF ConfirmRecord, StepOK, Taken
    <2> QED
      BY <2>1, <2>2, FreshGrows
  <1>13. ASSUME NEW p \in Proc, VerifyGuards(p) PROVE FreshOK'
    <2>1. Verified(p, {"source", "output"}) /\ UNCHANGED <<lockfile, job, locked, gen>>
      BY <1>13 DEF VerifyGuards
    <2>2. locked[p] = 4 /\ Current(p, 1..2) /\ Current(p, 3..4)
      BY <1>13 DEF VerifyGuards, GuardsVerified, SourceVerified, StepOK, Taken
    <2> QED
      BY <2>1, <2>2, FreshGrows
  <1>14. ASSUME NEW p \in Proc, Publish(p) PROVE FreshOK'
    <2>1. UNCHANGED <<lockfile, job, locked, gen, fresh>>
      BY <1>14 DEF Publish
    <2> QED
      BY <2>1, FreshStays DEF ReserveTypeOK
  <1>15. ASSUME NEW p \in Proc, Finish(p) PROVE FreshOK'
    <2>1. /\ lockfile' = lockfile /\ locked'[p] = 0 /\ Drop(p)
      BY <1>15, Dropped DEF Finish
    <2>2. ASSUME NEW q \in fresh'["source"] \union fresh'["output"]
          PROVE  /\ job'[q] = job[q] /\ locked'[q] = locked[q] /\ gen'[q] = gen[q]
                 /\ q \in Proc
      BY <2>1, Dropped DEF ReserveTypeOK
    <2>3. \A s \in {"source", "output"} : fresh'[s] \subseteq fresh[s]
      BY <2>1, Dropped
    <2> QED
      BY <2>1, <2>2, <2>3, FreshStays DEF ReserveTypeOK
  <1>16. ASSUME NEW p \in Proc, Reject(p) PROVE FreshOK'
    <2>1. /\ lockfile' = lockfile /\ locked'[p] = 0 /\ Drop(p)
      BY <1>16, Dropped DEF Reject
    <2>2. ASSUME NEW q \in fresh'["source"] \union fresh'["output"]
          PROVE  /\ job'[q] = job[q] /\ locked'[q] = locked[q] /\ gen'[q] = gen[q]
                 /\ q \in Proc
      BY <2>1, Dropped DEF ReserveTypeOK
    <2>3. \A s \in {"source", "output"} : fresh'[s] \subseteq fresh[s]
      BY <2>1, Dropped
    <2> QED
      BY <2>1, <2>2, <2>3, FreshStays DEF ReserveTypeOK
  <1>17. ASSUME NEW p \in Proc, Abandon(p) PROVE FreshOK'
    <2>1. /\ lockfile' = lockfile /\ locked'[p] = 0 /\ Drop(p)
      BY <1>17, Dropped DEF Abandon
    <2>2. ASSUME NEW q \in fresh'["source"] \union fresh'["output"]
          PROVE  /\ job'[q] = job[q] /\ locked'[q] = locked[q] /\ gen'[q] = gen[q]
                 /\ q \in Proc
      BY <2>1, Dropped DEF ReserveTypeOK
    <2>3. \A s \in {"source", "output"} : fresh'[s] \subseteq fresh[s]
      BY <2>1, Dropped
    <2> QED
      BY <2>1, <2>2, <2>3, FreshStays DEF ReserveTypeOK
  <1>18. ASSUME NEW a \in Path, NEW b \in Path, RenameSource(a, b) PROVE FreshOK'
    <2>1. UNCHANGED <<lockfile, job, locked, gen, fresh>>
      BY <1>18 DEF RenameSource, procVars
    <2> QED
      BY <2>1, FreshStays DEF ReserveTypeOK
  <1>19. ASSUME NEW f \in File, RewriteSource(f) PROVE FreshOK'
    <2>1. UNCHANGED <<lockfile, job, locked, gen, fresh>>
      BY <1>19 DEF RewriteSource, procVars
    <2> QED
      BY <2>1, FreshStays DEF ReserveTypeOK
  <1>20. ASSUME NEW k \in Key, ReplaceLock(k) PROVE FreshOK'
    BY <1>20 DEF ReplaceLock, FreshOK, ReserveTypeOK
  <1>21. CASE UNCHANGED reserveVars
    <2>1. UNCHANGED <<lockfile, job, locked, gen, fresh>>
      BY <1>21 DEF reserveVars, procVars
    <2> QED
      BY <2>1, FreshStays DEF ReserveTypeOK
  <1> QED
    BY <1>1, <1>2, <1>3, <1>4, <1>5, <1>6, <1>7, <1>8, <1>9, <1>10, <1>11, <1>12, <1>13, <1>14,
       <1>15, <1>16, <1>17, <1>18, <1>19, <1>20, <1>21 DEF ReserveNext, ReserveStep

\* No record and no file changes, and nobody begins to publish.
LEMMA RecordStays ==
  ASSUME ReserveTypeOK, RecordOK, UNCHANGED storeVars,
         \A q \in Proc : phase'[q] = "using" => phase[q] = "using" /\ job'[q] = job[q]
  PROVE  RecordOK'
  BY DEF RecordOK, storeVars

\* Every step keeps the files to the source their record names.
LEMMA RecordStep ==
  ASSUME ReserveTypeOK, StepOK, RecordOK, [ReserveNext]_reserveVars
  PROVE  RecordOK'
  <1> USE RecordAssumption
  <1>1. ASSUME NEW p \in Proc, Select(p) PROVE RecordOK'
    <2>1. \A q \in Proc : phase'[q] = "using" => phase[q] = "using" /\ job'[q] = job[q]
      BY <1>1 DEF Select, Enter, ReserveTypeOK
    <2> QED
      BY <1>1, <2>1, RecordStays DEF Select
  <1>2. ASSUME NEW p \in Proc, OpenLock(p) PROVE RecordOK'
    <2>1. \A q \in Proc : phase'[q] = "using" => phase[q] = "using" /\ job'[q] = job[q]
      BY <1>2 DEF OpenLock, Enter, ReserveTypeOK
    <2> QED
      BY <1>2, <2>1, RecordStays DEF OpenLock
  <1>3. ASSUME NEW p \in Proc, Flock(p) PROVE RecordOK'
    <2>1. \A q \in Proc : phase'[q] = "using" => phase[q] = "using" /\ job'[q] = job[q]
      BY <1>3 DEF Flock, Enter, ReserveTypeOK
    <2> QED
      BY <1>3, <2>1, RecordStays DEF Flock
  <1>4. ASSUME NEW p \in Proc, GiveUp(p) PROVE RecordOK'
    <2>1. \A q \in Proc : phase'[q] = "using" => phase[q] = "using" /\ job'[q] = job[q]
      BY <1>4, Dropped DEF GiveUp
    <2> QED
      BY <1>4, <2>1, RecordStays DEF GiveUp
  <1>5. ASSUME NEW p \in Proc, VerifyLock(p) PROVE RecordOK'
    <2>1. \A q \in Proc : phase'[q] = "using" => phase[q] = "using" /\ job'[q] = job[q]
      BY <1>5 DEF VerifyLock, Enter, ReserveTypeOK
    <2> QED
      BY <1>5, <2>1, RecordStays DEF VerifyLock
  <1>6. ASSUME NEW p \in Proc, VerifySource(p) PROVE RecordOK'
    <2>1. \A q \in Proc : phase'[q] = "using" => phase[q] = "using" /\ job'[q] = job[q]
      BY <1>6 DEF VerifySource, Enter, ReserveTypeOK
    <2> QED
      BY <1>6, <2>1, RecordStays DEF VerifySource
  <1>7. ASSUME NEW p \in Proc, BeginOutput(p) PROVE RecordOK'
    <2>1. \A q \in Proc : phase'[q] = "using" => phase[q] = "using" /\ job'[q] = job[q]
      BY <1>7 DEF BeginOutput, Enter, ReserveTypeOK
    <2> QED
      BY <1>7, <2>1, RecordStays DEF BeginOutput
  <1>8. ASSUME NEW p \in Proc, InspectRecord(p) PROVE RecordOK'
    <2>1. \A q \in Proc : phase'[q] = "using" => phase[q] = "using" /\ job'[q] = job[q]
      BY <1>8 DEF InspectRecord, Enter, ReserveTypeOK
    <2> QED
      BY <1>8, <2>1, RecordStays DEF InspectRecord
  <1>9. ASSUME NEW p \in Proc, ReadRecord(p) PROVE RecordOK'
    <2>1. \A q \in Proc : phase'[q] = "using" => phase[q] = "using" /\ job'[q] = job[q]
      BY <1>9 DEF ReadRecord, Enter, ReserveTypeOK
    <2> QED
      BY <1>9, <2>1, RecordStays DEF ReadRecord
  <1>10. ASSUME NEW p \in Proc, BeginCreate(p) PROVE RecordOK'
    <2>1. \A q \in Proc : phase'[q] = "using" => phase[q] = "using" /\ job'[q] = job[q]
      BY <1>10 DEF BeginCreate, Enter, ReserveTypeOK
    <2> QED
      BY <1>10, <2>1, RecordStays DEF BeginCreate
  <1>11. ASSUME NEW p \in Proc, CreateRecord(p) PROVE RecordOK'
    <2>1. /\ record[job[p].out] = Nil /\ present' = present /\ job' = job
          /\ \A o \in Output : o # job[p].out => record'[o] = record[o]
          /\ \A q \in Proc : phase'[q] = "using" => phase[q] = "using"
      BY <1>11 DEF CreateRecord, Enter, ReserveTypeOK
    <2>2. ASSUME NEW n \in Name, present[n] # Nil
          PROVE  /\ record'[present[n].out] # Nil
                 /\ record'[present[n].out].src = present[n].src
      <3>1. present[n].out \in Output
        BY <2>2 DEF ReserveTypeOK, Artifact
      <3> QED
        BY <2>1, <2>2, <3>1 DEF RecordOK
    <2>3. ASSUME NEW q \in Proc, phase'[q] = "using"
          PROVE  /\ record'[job[q].out] # Nil /\ record'[job[q].out].src = job[q].src
      <3>1. job[q].out \in Output
        BY <2>1, <2>3, KeyFacts DEF StepOK
      <3> QED
        BY <2>1, <2>3, <3>1 DEF RecordOK
    <2> QED
      BY <2>1, <2>2, <2>3 DEF RecordOK
  <1>12. ASSUME NEW p \in Proc, ConfirmRecord(p) PROVE RecordOK'
    <2>1. \A q \in Proc : phase'[q] = "using" => phase[q] = "using" /\ job'[q] = job[q]
      BY <1>12 DEF ConfirmRecord, Enter, ReserveTypeOK
    <2> QED
      BY <1>12, <2>1, RecordStays DEF ConfirmRecord
  <1>13. ASSUME NEW p \in Proc, VerifyGuards(p) PROVE RecordOK'
    <2>1. /\ UNCHANGED storeVars /\ job' = job
          /\ \A q \in Proc : q # p => phase'[q] = phase[q]
      BY <1>13 DEF VerifyGuards, Enter, ReserveTypeOK
    <2>2. job[p] \in Job /\ gen[p][3] \in Nat
      BY <1>13 DEF VerifyGuards, StepOK, ReserveTypeOK, Locks
    <2>3. [src |-> job[p].src, lock |-> gen[p][3]] \in Record
      BY <2>2, KeyFacts DEF Record
    <2>4. record[job[p].out] # Nil /\ record[job[p].out].src = job[p].src
      BY <1>13, <2>3 DEF VerifyGuards, GuardsVerified, RecordMatches
    <2> QED
      BY <2>1, <2>4 DEF RecordOK, storeVars
  <1>14. ASSUME NEW p \in Proc, Publish(p) PROVE RecordOK'
    <2>1. PICK n \in Name :
            present' = [present EXCEPT ![n] = [out |-> job[p].out, src |-> job[p].src]]
      BY <1>14 DEF Publish
    <2>2. /\ record' = record /\ job' = job /\ phase[p] = "using"
          /\ \A q \in Proc : phase'[q] = "using" => phase[q] = "using"
      BY <1>14 DEF Publish, Enter, ReserveTypeOK
    <2>3. record[job[p].out] # Nil /\ record[job[p].out].src = job[p].src
      BY <2>2 DEF RecordOK
    <2>4. ASSUME NEW m \in Name, present'[m] # Nil
          PROVE  /\ record[present'[m].out] # Nil
                 /\ record[present'[m].out].src = present'[m].src
      <3>1. CASE m = n
        BY <2>1, <2>3, <3>1 DEF ReserveTypeOK
      <3>2. CASE m # n
        BY <2>1, <2>4, <3>2 DEF ReserveTypeOK, RecordOK
      <3> QED
        BY <3>1, <3>2
    <2> QED
      BY <2>2, <2>4 DEF RecordOK
  <1>15. ASSUME NEW p \in Proc, Finish(p) PROVE RecordOK'
    <2>1. \A q \in Proc : phase'[q] = "using" => phase[q] = "using" /\ job'[q] = job[q]
      BY <1>15, Dropped DEF Finish
    <2> QED
      BY <1>15, <2>1, RecordStays DEF Finish
  <1>16. ASSUME NEW p \in Proc, Reject(p) PROVE RecordOK'
    <2>1. \A q \in Proc : phase'[q] = "using" => phase[q] = "using" /\ job'[q] = job[q]
      BY <1>16, Dropped DEF Reject
    <2> QED
      BY <1>16, <2>1, RecordStays DEF Reject
  <1>17. ASSUME NEW p \in Proc, Abandon(p) PROVE RecordOK'
    <2>1. \A q \in Proc : phase'[q] = "using" => phase[q] = "using" /\ job'[q] = job[q]
      BY <1>17, Dropped DEF Abandon
    <2> QED
      BY <1>17, <2>1, RecordStays DEF Abandon
  <1>18. ASSUME NEW a \in Path, NEW b \in Path, RenameSource(a, b) PROVE RecordOK'
    BY <1>18, RecordStays DEF RenameSource, procVars
  <1>19. ASSUME NEW f \in File, RewriteSource(f) PROVE RecordOK'
    BY <1>19, RecordStays DEF RewriteSource, procVars
  <1>20. ASSUME NEW k \in Key, ReplaceLock(k) PROVE RecordOK'
    BY <1>20, RecordStays DEF ReplaceLock, procVars
  <1>21. CASE UNCHANGED reserveVars
    BY <1>21, RecordStays DEF reserveVars, procVars
  <1> QED
    BY <1>1, <1>2, <1>3, <1>4, <1>5, <1>6, <1>7, <1>8, <1>9, <1>10, <1>11, <1>12, <1>13, <1>14,
       <1>15, <1>16, <1>17, <1>18, <1>19, <1>20, <1>21 DEF ReserveNext, ReserveStep

-----------------------------------------------------------------------------
\* The inductive invariant of the reservations.
THEOREM ReservationInvariant == ReserveSpec => []ReserveIInv
  <1>1. ReserveInit => ReserveIInv
    <2> SUFFICES ASSUME ReserveInit PROVE ReserveIInv
      OBVIOUS
    <2>1. ReserveTypeOK
      BY DEF ReserveInit, Start, ReserveTypeOK, ReservePc, Locks
    <2>2. StepOK
      BY DEF ReserveInit, Start, StepOK, Taken
    <2>3. LocksApart
      BY DEF ReserveInit, Start, LocksApart, HeldLocks
    <2>4. FreshOK
      BY DEF ReserveInit, Start, FreshOK
    <2>5. RecordOK
      BY DEF ReserveInit, Start, RecordOK
    <2> QED
      BY <2>1, <2>2, <2>3, <2>4, <2>5 DEF ReserveIInv
  <1>2. ReserveIInv /\ [ReserveNext]_reserveVars => ReserveIInv'
    BY ReserveTypeStep, StepStep, ApartStep, FreshStep, RecordStep DEF ReserveIInv
  <1> QED
    BY <1>1, <1>2, PTL DEF ReserveSpec

\* Of the processes that verified their locks since a lock file was last
\* replaced no two consume one image, nor write a common name, for any number of
\* processes (SourceReservation, OutputReservation).
THEOREM ReservationsExclude == ReserveSpec => []Exclusive
  <1>1. ASSUME ReserveIInv PROVE Exclusive
    <2>1. ASSUME NEW p \in fresh["source"], NEW q \in fresh["source"],
                 job[p].src.file = job[q].src.file
          PROVE  p = q
      <3> DEFINE k == <<"file", job[p].src.file>>
      <3>1. ASSUME NEW r \in fresh["source"], job[r].src.file = job[p].src.file
            PROVE  r \in Proc /\ <<k, lockfile[k]>> \in HeldLocks(r)
        <4>1. r \in Proc /\ locked[r] >= 2 /\ locked[r] \in 0..4 /\ Current(r, 1..2)
          BY <1>1 DEF ReserveIInv, ReserveTypeOK, FreshOK
        <4>2. job[r] \in Job
          BY <1>1, <4>1 DEF ReserveIInv, StepOK, Taken
        <4>3. Keys(r)[2] = k
          BY <3>1, <4>1, <4>2, KeyFacts
        <4>4. gen[r][2] = lockfile[k]
          BY <4>1, <4>3 DEF Current
        <4> QED
          BY <4>1, <4>3, <4>4 DEF HeldLocks
      <3> HIDE DEF k
      <3> QED
        BY <1>1, <2>1, <3>1 DEF ReserveIInv, LocksApart
    <2>2. ASSUME NEW p \in fresh["output"], NEW q \in fresh["output"],
                 {job[p].out, ManifestOf[job[p].out]}
                   \intersect {job[q].out, ManifestOf[job[q].out]} # {}
          PROVE  p = q
      <3>1. PICK x : /\ x \in {job[p].out, ManifestOf[job[p].out]}
                     /\ x \in {job[q].out, ManifestOf[job[q].out]}
        BY <2>2
      <3> DEFINE k == <<"name", x>>
      <3>2. ASSUME NEW r \in fresh["output"], x \in {job[r].out, ManifestOf[job[r].out]}
            PROVE  r \in Proc /\ <<k, lockfile[k]>> \in HeldLocks(r)
        <4>1. r \in Proc /\ locked[r] = 4 /\ Current(r, 3..4)
          BY <1>1 DEF ReserveIInv, ReserveTypeOK, FreshOK
        <4>2. job[r] \in Job
          BY <1>1, <4>1 DEF ReserveIInv, StepOK, Taken
        <4>3. PICK n \in 3..4 : Keys(r)[n] = k
          BY <3>2, <4>1, <4>2, KeyFacts
        <4>4. gen[r][n] = lockfile[k]
          BY <4>1, <4>3 DEF Current
        <4> QED
          BY <4>1, <4>3, <4>4 DEF HeldLocks
      <3> HIDE DEF k
      <3> QED
        BY <1>1, <3>1, <3>2 DEF ReserveIInv, LocksApart
    <2> QED
      BY <2>1, <2>2 DEF Exclusive
  <1> QED
    BY <1>1, ReservationInvariant, PTL

\* What a reservation records is never overwritten, and an output and its
\* manifest are published from the one source that the record names, however
\* often the reservation is handed on.
THEOREM RecordsStayTrue == ReserveSpec => RecordsTrue
  <1>1. ASSUME ReserveIInv PROVE PairFromOneSource
    BY <1>1 DEF ReserveIInv, RecordOK, PairFromOneSource, Name
  <1>2. ASSUME ReserveIInv, [ReserveNext]_reserveVars PROVE RecordKept
    <2>1. ASSUME NEW p \in Proc, CreateRecord(p) PROVE RecordKept
      BY <1>2, <2>1 DEF CreateRecord, RecordKept, ReserveIInv, ReserveTypeOK
    <2>2. CASE record' = record
      BY <2>2 DEF RecordKept
    <2>3. ASSUME NEW p \in Proc, Select(p) \/ ReserveStep(p) \/ Abandon(p), ~CreateRecord(p)
          PROVE  record' = record
      BY <2>3 DEF Select, ReserveStep, Abandon, OpenLock, Flock, GiveUp, VerifyLock, VerifySource,
                  BeginOutput, InspectRecord, ReadRecord, BeginCreate, ConfirmRecord,
                  VerifyGuards, Publish, Finish, Reject, storeVars
    <2>4. \/ \E p \in Proc : CreateRecord(p)
          \/ record' = record
      BY <1>2, <2>3 DEF ReserveNext, ReserveStep, RenameSource, RewriteSource, ReplaceLock, reserveVars, storeVars
    <2> QED
      BY <2>1, <2>2, <2>4
  <1>3. ReserveIInv /\ ReserveIInv' /\ [ReserveNext]_reserveVars => [PairFromOneSource' /\ RecordKept]_reserveVars
    <2>1. ReserveIInv' => PairFromOneSource'
      BY <1>1, PTL
    <2> QED
      BY <1>2, <2>1
  <1> QED
    BY <1>3, ReservationInvariant, PTL DEF RecordsTrue, ReserveSpec

-----------------------------------------------------------------------------
\* The order of the locks, as a number that falls from a process to the one it
\* waits for: paths before inodes before names, and a shorter name first.
Rank(p, Length, NameMax) ==
  LET n == locked[p] + 1
  IN CASE n = 1 -> NameMax + 2
       [] n = 2 -> NameMax + 1
       [] n = 3 -> NameMax - Length[job[p].out]
       [] OTHER -> NameMax - Length[ManifestOf[job[p].out]]

\* The manifest's name is that of the image with a suffix, and no name is longer
\* than NAME_MAX.
NamesGrow(Length, NameMax) ==
  /\ NameMax \in Nat /\ Length \in [Name -> 0..NameMax]
  /\ \A o \in Output : Length[o] < Length[ManifestOf[o]]

\* A process that waits is ranked above the one it waits for, if that waits, too.
LEMMA WaitsDescend ==
  ASSUME ReserveTypeOK, StepOK, NEW Length, NEW NameMax, NamesGrow(Length, NameMax),
         NEW p \in Proc, NEW q \in Proc, Waits(p, q), phase[q] = "flock"
  PROVE  /\ Rank(p, Length, NameMax) \in Nat /\ Rank(q, Length, NameMax) \in Nat
         /\ Rank(q, Length, NameMax) < Rank(p, Length, NameMax)
  <1>1. /\ phase[p] = "flock" /\ locked[p] \in 0..3 /\ locked[q] \in 0..3
        /\ job[p] \in Job /\ job[q] \in Job
    BY DEF Waits, StepOK, Taken
  <1>2. PICK m \in 1..locked[q] : Keys(q)[m] = Keys(p)[locked[p] + 1]
    BY DEF Waits, Owns
  <1>3. ASSUME NEW r \in Proc, job[r] \in Job
        PROVE  /\ Length[job[r].out] \in 0..NameMax
               /\ Length[ManifestOf[job[r].out]] \in 0..NameMax
               /\ Length[job[r].out] < Length[ManifestOf[job[r].out]]
    BY <1>3, KeyFacts DEF NamesGrow
  <1>4. NameMax \in Nat
    BY DEF NamesGrow
  <1>5. ASSUME NEW r \in Proc, job[r] \in Job, locked[r] \in 0..3
        PROVE  /\ Rank(r, Length, NameMax) \in Nat
               /\ locked[r] = 0 => Rank(r, Length, NameMax) = NameMax + 2
               /\ locked[r] = 1 => Rank(r, Length, NameMax) = NameMax + 1
               /\ locked[r] >= 2 => Rank(r, Length, NameMax) <= NameMax
               /\ locked[r] = 2 => Rank(r, Length, NameMax) = NameMax - Length[job[r].out]
               /\ locked[r] = 3 => Rank(r, Length, NameMax)
                                     = NameMax - Length[ManifestOf[job[r].out]]
    BY <1>3, <1>4, <1>5 DEF Rank
  <1>6. CASE locked[p] = 0
    BY <1>1, <1>2, <1>4, <1>5, <1>6
  <1>7. CASE locked[p] = 1
    <2>1. m # 1
      BY <1>1, <1>2, <1>7, KeyFacts
    <2> QED
      BY <1>1, <1>2, <1>4, <1>5, <1>7, <2>1
  <1>8. CASE locked[p] \in {2, 3}
    <2>1. PICK x \in {job[p].out, ManifestOf[job[p].out]} :
            /\ Keys(p)[locked[p] + 1] = <<"name", x>>
            /\ Rank(p, Length, NameMax) = NameMax - Length[x]
      BY <1>1, <1>5, <1>8, KeyFacts
    <2>2. m \notin {1, 2}
      BY <1>1, <1>2, <2>1, KeyFacts
    <2>3. m = 3 /\ locked[q] = 3
      BY <1>1, <1>2, <2>2
    <2>4. x = job[q].out
      BY <1>1, <1>2, <2>1, <2>3, KeyFacts
    <2>5. Rank(q, Length, NameMax) = NameMax - Length[ManifestOf[job[q].out]]
      BY <1>1, <1>5, <2>3
    <2> QED
      BY <1>1, <1>3, <1>4, <1>5, <2>1, <2>4, <2>5
  <1> QED
    BY <1>1, <1>6, <1>7, <1>8

\* No processes ever wait for one another in a circle, so two exports never make
\* each other time out, for any number of processes and outputs.
THEOREM NoDeadlock ==
  ASSUME NEW Length, NEW NameMax, NamesGrow(Length, NameMax)
  PROVE  ReserveSpec => []NoWaitCycle
  <1>1. ASSUME ReserveIInv PROVE NoWaitCycle
    <2> SUFFICES ASSUME NEW S \in SUBSET Proc, S # {},
                        \A p \in S : \E q \in S : Waits(p, q)
                 PROVE  FALSE
      BY DEF NoWaitCycle
    <2>1. \A p \in S : p \in Proc /\ phase[p] = "flock"
      BY DEF Waits
    <2> DEFINE R(p) == Rank(p, Length, NameMax)
    <2> DEFINE T == {R(p) : p \in S}
    <2>2. ASSUME NEW p \in S PROVE \E q \in S : R(p) \in Nat /\ R(q) \in Nat /\ R(q) < R(p)
      BY <1>1, <2>1, WaitsDescend DEF ReserveIInv
    <2>3. T \subseteq Nat /\ T # {}
      BY <2>2
    <2>4. PICK t \in T : \A u \in T : <<u, t>> \notin OpToRel(<, Nat)
      <3> HIDE DEF T
      <3> QED
        BY <2>3, WFMin, NatLessThanWellFounded, Zenon
    <2>5. \A u \in T : ~(u < t)
      <3>1. \A u, v \in Nat : u < v => <<u, v>> \in OpToRel(<, Nat)
        BY DEF OpToRel
      <3> QED
        BY <2>3, <2>4, <3>1, Zenon
    <2> QED
      BY <2>2, <2>5
  <1> QED
    BY <1>1, ReservationInvariant, PTL
=============================================================================
