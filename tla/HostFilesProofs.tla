-------------------------- MODULE HostFilesProofs --------------------------
(***************************************************************************)
(* Theorems about what the application keeps in files: the directories of  *)
(* its guests (GuestRuntime), for every number of instances and sessions;  *)
(* its settings (SettingsFile), for every number of processes, of changes, *)
(* of lock files and of kills, power losses and replaced locks; and its    *)
(* images (HostImages), for every size of an image, of its limit and of    *)
(* the pipe, and for every number of exporters, names and other programs;  *)
(* and the inputs of an NVIDIA installation (NvidiaInputs), for every      *)
(* number of commands, versions, directories and changed files.            *)
(***************************************************************************)
EXTENDS GuestRuntime, SettingsFile, HostImages, NvidiaInputs, TLAPS

(***************************************************************************)
(* The inductive invariant.                                                *)
(***************************************************************************)
Place == {"closed", "idle", "cleanup", "staging", "started", "recorded",
          "ready", "held", "stopping", "handing", "handed", "archive"}

GuestTypeOK ==
  /\ up \subseteq App /\ overlapped \in BOOLEAN
  /\ guestAt \in [App -> Place] /\ mine \in [App -> Session \union {Nobody}]
  /\ todo \in [App -> SUBSET Session]
  /\ doomed \in [App -> Session \union {Nobody}]
  /\ runtime \subseteq Session /\ pid \subseteq Session /\ unwatched \subseteq Session
  /\ guest \in [Session -> {"none", "alive", "zombie", "gone"}]
  /\ watchdog \in [Session -> {"none", "armed", "done"}]

\* A session is one instance's, also after that one has died: a new session
\* takes a directory that no instance ever worked on.
MineOK ==
  /\ \A a \in App : /\ mine[a] = Nobody <=> guestAt[a] \in {"closed", "idle"}
                    /\ guestAt[a] # "cleanup" => doomed[a] = Nobody
  /\ \A a, b \in App : mine[a] = mine[b] /\ mine[a] # Nobody => a = b

\* What the step of an instance says of its guest, and of the watchdog while
\* the instance lives.
StageOK ==
  /\ \A s \in Session : guest[s] = "none" => watchdog[s] = "none"
  /\ \A a \in App :
       /\ guestAt[a] \in {"cleanup", "staging"} => guest[mine[a]] = "none"
       /\ guestAt[a] \in {"started", "recorded"} => guest[mine[a]] # "none"
       /\ guestAt[a] \in {"handed", "archive"} => guest[mine[a]] = "gone"
       /\ a \in up /\ guestAt[a] \in {"ready", "held", "stopping", "handing"} =>
            watchdog[mine[a]] = "armed"

\* Until two instances overlap, one at most is up; a session that is being
\* watched is recorded in its directory, and is not what a cleanup goes after.
Watched(s) == guest[s] = "alive" /\ watchdog[s] = "armed"
AloneOK ==
  ~overlapped =>
    /\ \A a, b \in up : a = b
    /\ \A s \in Session : Watched(s) => s \in runtime /\ s \in pid
    /\ \A a \in up :
         /\ guestAt[a] = "recorded" => mine[a] \in runtime /\ mine[a] \in pid
         /\ guestAt[a] = "cleanup" /\ doomed[a] # Nobody => ~Watched(doomed[a])

GuestIInv == GuestTypeOK /\ MineOK /\ StageOK /\ AloneOK /\ GuestOwned
\* Every step keeps the types.
LEMMA GuestTypeStep == ASSUME GuestIInv, [GuestNext]_guestVars PROVE GuestTypeOK'
  <1> USE GuestBounds DEF guestVars, files, jobs, history, GuestIInv, GuestTypeOK, Place, MineOK
  <1>1. ASSUME NEW a \in App, LaunchInstance(a) PROVE GuestTypeOK'
    BY <1>1, SMTT(20) DEF LaunchInstance, MoveTo
  <1>2. ASSUME NEW a \in App, Prepare(a) PROVE GuestTypeOK'
    BY <1>2, SMTT(20) DEF Prepare, Stands, MoveTo, Set, Unused
  <1>3. ASSUME NEW a \in App, CleanupLook(a) PROVE GuestTypeOK'
    BY <1>3, SMTT(20) DEF CleanupLook, Stands, Set, Active
  <1>4. ASSUME NEW a \in App, CleanupRemove(a) PROVE GuestTypeOK'
    BY <1>4, SMTT(20) DEF CleanupRemove, Stands, Set, Erase, Idle, MoveTo
  <1>5. ASSUME NEW a \in App, MakeDirectory(a) PROVE GuestTypeOK'
    BY <1>5, SMTT(20) DEF MakeDirectory, Stands, MoveTo
  <1>6. ASSUME NEW a \in App, Abandon(a) PROVE GuestTypeOK'
    BY <1>6, SMTT(20) DEF Abandon, Stands, Erase, Idle, MoveTo, Set
  <1>7. ASSUME NEW a \in App, Start(a) PROVE GuestTypeOK'
    BY <1>7, SMTT(20) DEF Start, Stands, Set, MoveTo
  <1>8. ASSUME NEW a \in App, Record(a) PROVE GuestTypeOK'
    BY <1>8, SMTT(20) DEF Record, Stands, MoveTo
  <1>9. ASSUME NEW a \in App, Watch(a) PROVE GuestTypeOK'
    BY <1>9, SMTT(20) DEF Watch, Stands, Set, MoveTo
  <1>10. ASSUME NEW a \in App, NotStarted(a) PROVE GuestTypeOK'
    BY <1>10, SMTT(20) DEF NotStarted, Stands, Set, Erase, Idle, MoveTo
  <1>11. ASSUME NEW a \in App, Hold(a) PROVE GuestTypeOK'
    BY <1>11, SMTT(20) DEF Hold, Stands, MoveTo
  <1>12. ASSUME NEW a \in App, StopSession(a) PROVE GuestTypeOK'
    BY <1>12, SMTT(20) DEF StopSession, Stands, MoveTo
  <1>13. ASSUME NEW a \in App, StopGuest(a) PROVE GuestTypeOK'
    BY <1>13, SMTT(20) DEF StopGuest, Stands, Set
  <1>14. ASSUME NEW a \in App, FinishWatchdog(a) PROVE GuestTypeOK'
    BY <1>14, SMTT(20) DEF FinishWatchdog, Stands, Set, MoveTo
  <1>15. ASSUME NEW a \in App, StopHanded(a) PROVE GuestTypeOK'
    BY <1>15, SMTT(20) DEF StopHanded, Stands, MoveTo
  <1>16. ASSUME NEW a \in App, Archive(a) PROVE GuestTypeOK'
    BY <1>16, SMTT(20) DEF Archive, Stands, Idle, Erase, MoveTo, Set
  <1>17. ASSUME NEW a \in App, Die(a) PROVE GuestTypeOK'
    BY <1>17, SMTT(20) DEF Die
  <1>18. ASSUME NEW s \in Session, GuestDies(s) PROVE GuestTypeOK'
    BY <1>18, SMTT(20) DEF GuestDies, Set, Owns
  <1>19. ASSUME NEW s \in Session, WatchdogFires(s) PROVE GuestTypeOK'
    BY <1>19, SMTT(20) DEF WatchdogFires, Set, Owns
  <1>20. CASE UNCHANGED guestVars
    BY <1>20 DEF guestVars
  <1> QED
    BY <1>1, <1>2, <1>3, <1>4, <1>5, <1>6, <1>7, <1>8, <1>9, <1>10,
       <1>11, <1>12, <1>13, <1>14, <1>15, <1>16, <1>17, <1>18, <1>19,
       <1>20 DEF GuestNext

\* Every step keeps the sessions apart.
LEMMA MineStep == ASSUME GuestIInv, [GuestNext]_guestVars PROVE MineOK'
  <1> USE GuestBounds DEF guestVars, files, jobs, history, GuestIInv, GuestTypeOK, MineOK
  <1>1. ASSUME NEW a \in App, LaunchInstance(a) PROVE MineOK'
    BY <1>1, SMTT(20) DEF LaunchInstance, MoveTo
  <1>2. ASSUME NEW a \in App, Prepare(a) PROVE MineOK'
    BY <1>2, SMTT(20) DEF Prepare, Stands, MoveTo, Set, Unused
  <1>3. ASSUME NEW a \in App, CleanupLook(a) PROVE MineOK'
    BY <1>3, SMTT(20) DEF CleanupLook, Stands, Set, Active
  <1>4. ASSUME NEW a \in App, CleanupRemove(a) PROVE MineOK'
    BY <1>4, SMTT(20) DEF CleanupRemove, Stands, Set, Erase, Idle, MoveTo
  <1>5. ASSUME NEW a \in App, MakeDirectory(a) PROVE MineOK'
    BY <1>5, SMTT(20) DEF MakeDirectory, Stands, MoveTo
  <1>6. ASSUME NEW a \in App, Abandon(a) PROVE MineOK'
    BY <1>6, SMTT(20) DEF Abandon, Stands, Erase, Idle, MoveTo, Set
  <1>7. ASSUME NEW a \in App, Start(a) PROVE MineOK'
    BY <1>7, SMTT(20) DEF Start, Stands, Set, MoveTo
  <1>8. ASSUME NEW a \in App, Record(a) PROVE MineOK'
    BY <1>8, SMTT(20) DEF Record, Stands, MoveTo
  <1>9. ASSUME NEW a \in App, Watch(a) PROVE MineOK'
    BY <1>9, SMTT(20) DEF Watch, Stands, Set, MoveTo
  <1>10. ASSUME NEW a \in App, NotStarted(a) PROVE MineOK'
    BY <1>10, SMTT(20) DEF NotStarted, Stands, Set, Erase, Idle, MoveTo
  <1>11. ASSUME NEW a \in App, Hold(a) PROVE MineOK'
    BY <1>11, SMTT(20) DEF Hold, Stands, MoveTo
  <1>12. ASSUME NEW a \in App, StopSession(a) PROVE MineOK'
    BY <1>12, SMTT(20) DEF StopSession, Stands, MoveTo
  <1>13. ASSUME NEW a \in App, StopGuest(a) PROVE MineOK'
    BY <1>13, SMTT(20) DEF StopGuest, Stands, Set
  <1>14. ASSUME NEW a \in App, FinishWatchdog(a) PROVE MineOK'
    BY <1>14, SMTT(20) DEF FinishWatchdog, Stands, Set, MoveTo
  <1>15. ASSUME NEW a \in App, StopHanded(a) PROVE MineOK'
    BY <1>15, SMTT(20) DEF StopHanded, Stands, MoveTo
  <1>16. ASSUME NEW a \in App, Archive(a) PROVE MineOK'
    BY <1>16, SMTT(20) DEF Archive, Stands, Idle, Erase, MoveTo, Set
  <1>17. ASSUME NEW a \in App, Die(a) PROVE MineOK'
    BY <1>17, SMTT(20) DEF Die
  <1>18. ASSUME NEW s \in Session, GuestDies(s) PROVE MineOK'
    BY <1>18, SMTT(20) DEF GuestDies, Set, Owns
  <1>19. ASSUME NEW s \in Session, WatchdogFires(s) PROVE MineOK'
    BY <1>19, SMTT(20) DEF WatchdogFires, Set, Owns
  <1>20. CASE UNCHANGED guestVars
    BY <1>20 DEF guestVars
  <1> QED
    BY <1>1, <1>2, <1>3, <1>4, <1>5, <1>6, <1>7, <1>8, <1>9, <1>10,
       <1>11, <1>12, <1>13, <1>14, <1>15, <1>16, <1>17, <1>18, <1>19,
       <1>20 DEF GuestNext

\* Every step of an instance finds its guest as the step before left it.
LEMMA StageStep == ASSUME GuestIInv, [GuestNext]_guestVars PROVE StageOK'
  <1> USE GuestBounds DEF guestVars, files, jobs, history, GuestIInv, GuestTypeOK, MineOK, StageOK, Owns
  <1>1. ASSUME NEW a \in App, LaunchInstance(a) PROVE StageOK'
    BY <1>1, SMTT(20) DEF LaunchInstance, MoveTo
  <1>2. ASSUME NEW a \in App, Prepare(a) PROVE StageOK'
    BY <1>2, SMTT(20) DEF Prepare, Stands, MoveTo, Set, Unused
  <1>3. ASSUME NEW a \in App, CleanupLook(a) PROVE StageOK'
    BY <1>3, SMTT(20) DEF CleanupLook, Stands, Set, Active
  <1>4. ASSUME NEW a \in App, CleanupRemove(a) PROVE StageOK'
    BY <1>4, SMTT(20) DEF CleanupRemove, Stands, Set, Erase, Idle, MoveTo
  <1>5. ASSUME NEW a \in App, MakeDirectory(a) PROVE StageOK'
    BY <1>5, SMTT(20) DEF MakeDirectory, Stands, MoveTo
  <1>6. ASSUME NEW a \in App, Abandon(a) PROVE StageOK'
    BY <1>6, SMTT(20) DEF Abandon, Stands, Erase, Idle, MoveTo, Set
  <1>7. ASSUME NEW a \in App, Start(a) PROVE StageOK'
    BY <1>7, SMTT(20) DEF Start, Stands, Set, MoveTo
  <1>8. ASSUME NEW a \in App, Record(a) PROVE StageOK'
    BY <1>8, SMTT(20) DEF Record, Stands, MoveTo
  <1>9. ASSUME NEW a \in App, Watch(a) PROVE StageOK'
    BY <1>9, SMTT(20) DEF Watch, Stands, Set, MoveTo
  <1>10. ASSUME NEW a \in App, NotStarted(a) PROVE StageOK'
    BY <1>10, SMTT(20) DEF NotStarted, Stands, Set, Erase, Idle, MoveTo
  <1>11. ASSUME NEW a \in App, Hold(a) PROVE StageOK'
    BY <1>11, SMTT(20) DEF Hold, Stands, MoveTo
  <1>12. ASSUME NEW a \in App, StopSession(a) PROVE StageOK'
    BY <1>12, SMTT(20) DEF StopSession, Stands, MoveTo
  <1>13. ASSUME NEW a \in App, StopGuest(a) PROVE StageOK'
    BY <1>13, SMTT(20) DEF StopGuest, Stands, Set
  <1>14. ASSUME NEW a \in App, FinishWatchdog(a) PROVE StageOK'
    BY <1>14, SMTT(20) DEF FinishWatchdog, Stands, Set, MoveTo
  <1>15. ASSUME NEW a \in App, StopHanded(a) PROVE StageOK'
    BY <1>15, SMTT(20) DEF StopHanded, Stands, MoveTo
  <1>16. ASSUME NEW a \in App, Archive(a) PROVE StageOK'
    BY <1>16, SMTT(20) DEF Archive, Stands, Idle, Erase, MoveTo, Set
  <1>17. ASSUME NEW a \in App, Die(a) PROVE StageOK'
    BY <1>17, SMTT(20) DEF Die
  <1>18. ASSUME NEW s \in Session, GuestDies(s) PROVE StageOK'
    BY <1>18, SMTT(20) DEF GuestDies, Set, Owns
  <1>19. ASSUME NEW s \in Session, WatchdogFires(s) PROVE StageOK'
    BY <1>19, SMTT(20) DEF WatchdogFires, Set, Owns
  <1>20. CASE UNCHANGED guestVars
    BY <1>20 DEF guestVars
  <1> QED
    BY <1>1, <1>2, <1>3, <1>4, <1>5, <1>6, <1>7, <1>8, <1>9, <1>10,
       <1>11, <1>12, <1>13, <1>14, <1>15, <1>16, <1>17, <1>18, <1>19,
       <1>20 DEF GuestNext

\* While one instance at a time is up, nothing takes the directory of a watched
\* guest, or its record.
LEMMA AloneStep == ASSUME GuestIInv, [GuestNext]_guestVars PROVE AloneOK'
  <1> USE GuestBounds DEF guestVars, files, jobs, history, GuestIInv, GuestTypeOK, MineOK, StageOK, AloneOK, Watched
  <1>1. ASSUME NEW a \in App, LaunchInstance(a) PROVE AloneOK'
    <2> SUFFICES ASSUME ~overlapped' PROVE AloneOK'
      OBVIOUS
    <2>1. ~overlapped /\ up' = {a} /\ guestAt' = [guestAt EXCEPT ![a] = "idle"]
      BY <1>1 DEF LaunchInstance, MoveTo
    <2>2. UNCHANGED <<mine, doomed, runtime, pid, guest, watchdog>>
      BY <1>1 DEF LaunchInstance
    <2>3. guestAt'[a] = "idle"
      BY <2>1
    <2> QED
      BY <2>1, <2>2, <2>3
  <1>2. ASSUME NEW a \in App, Prepare(a) PROVE AloneOK'
    BY <1>2, SMTT(20) DEF Prepare, Stands, MoveTo, Set, Unused
  <1>3. ASSUME NEW a \in App, CleanupLook(a) PROVE AloneOK'
    BY <1>3, SMTT(20) DEF CleanupLook, Stands, Set, Active
  <1>4. ASSUME NEW a \in App, CleanupRemove(a) PROVE AloneOK'
    BY <1>4, SMTT(20) DEF CleanupRemove, Stands, Set, Erase, Idle, MoveTo
  <1>5. ASSUME NEW a \in App, MakeDirectory(a) PROVE AloneOK'
    BY <1>5, SMTT(20) DEF MakeDirectory, Stands, MoveTo
  <1>6. ASSUME NEW a \in App, Abandon(a) PROVE AloneOK'
    BY <1>6, SMTT(20) DEF Abandon, Stands, Erase, Idle, MoveTo, Set
  <1>7. ASSUME NEW a \in App, Start(a) PROVE AloneOK'
    BY <1>7, SMTT(20) DEF Start, Stands, Set, MoveTo
  <1>8. ASSUME NEW a \in App, Record(a) PROVE AloneOK'
    BY <1>8, SMTT(20) DEF Record, Stands, MoveTo
  <1>9. ASSUME NEW a \in App, Watch(a) PROVE AloneOK'
    BY <1>9, SMTT(20) DEF Watch, Stands, Set, MoveTo
  <1>10. ASSUME NEW a \in App, NotStarted(a) PROVE AloneOK'
    BY <1>10, SMTT(20) DEF NotStarted, Stands, Set, Erase, Idle, MoveTo
  <1>11. ASSUME NEW a \in App, Hold(a) PROVE AloneOK'
    BY <1>11, SMTT(20) DEF Hold, Stands, MoveTo
  <1>12. ASSUME NEW a \in App, StopSession(a) PROVE AloneOK'
    BY <1>12, SMTT(20) DEF StopSession, Stands, MoveTo
  <1>13. ASSUME NEW a \in App, StopGuest(a) PROVE AloneOK'
    BY <1>13, SMTT(20) DEF StopGuest, Stands, Set
  <1>14. ASSUME NEW a \in App, FinishWatchdog(a) PROVE AloneOK'
    BY <1>14, SMTT(20) DEF FinishWatchdog, Stands, Set, MoveTo
  <1>15. ASSUME NEW a \in App, StopHanded(a) PROVE AloneOK'
    BY <1>15, SMTT(20) DEF StopHanded, Stands, MoveTo
  <1>16. ASSUME NEW a \in App, Archive(a) PROVE AloneOK'
    BY <1>16, SMTT(20) DEF Archive, Stands, Idle, Erase, MoveTo, Set
  <1>17. ASSUME NEW a \in App, Die(a) PROVE AloneOK'
    BY <1>17, SMTT(20) DEF Die
  <1>18. ASSUME NEW s \in Session, GuestDies(s) PROVE AloneOK'
    BY <1>18, SMTT(20) DEF GuestDies, Set, Owns
  <1>19. ASSUME NEW s \in Session, WatchdogFires(s) PROVE AloneOK'
    BY <1>19, SMTT(20) DEF WatchdogFires, Set, Owns
  <1>20. CASE UNCHANGED guestVars
    BY <1>20 DEF guestVars
  <1> QED
    BY <1>1, <1>2, <1>3, <1>4, <1>5, <1>6, <1>7, <1>8, <1>9, <1>10,
       <1>11, <1>12, <1>13, <1>14, <1>15, <1>16, <1>17, <1>18, <1>19,
       <1>20 DEF GuestNext

\* Nobody lets go of a guest that runs, unless it dies before the watchdog is up.
LEMMA OwnedStep == ASSUME GuestIInv, [GuestNext]_guestVars PROVE GuestOwned'
  <1> USE GuestBounds DEF guestVars, files, jobs, history, GuestIInv, GuestTypeOK, MineOK, StageOK, GuestOwned, Owns
  <1>1. ASSUME NEW a \in App, LaunchInstance(a) PROVE GuestOwned'
    BY <1>1, SMTT(20) DEF LaunchInstance, MoveTo
  <1>2. ASSUME NEW a \in App, Prepare(a) PROVE GuestOwned'
    BY <1>2, SMTT(20) DEF Prepare, Stands, MoveTo, Set, Unused
  <1>3. ASSUME NEW a \in App, CleanupLook(a) PROVE GuestOwned'
    BY <1>3, SMTT(20) DEF CleanupLook, Stands, Set, Active
  <1>4. ASSUME NEW a \in App, CleanupRemove(a) PROVE GuestOwned'
    BY <1>4, SMTT(20) DEF CleanupRemove, Stands, Set, Erase, Idle, MoveTo
  <1>5. ASSUME NEW a \in App, MakeDirectory(a) PROVE GuestOwned'
    BY <1>5, SMTT(20) DEF MakeDirectory, Stands, MoveTo
  <1>6. ASSUME NEW a \in App, Abandon(a) PROVE GuestOwned'
    BY <1>6, SMTT(20) DEF Abandon, Stands, Erase, Idle, MoveTo, Set
  <1>7. ASSUME NEW a \in App, Start(a) PROVE GuestOwned'
    BY <1>7, SMTT(20) DEF Start, Stands, Set, MoveTo
  <1>8. ASSUME NEW a \in App, Record(a) PROVE GuestOwned'
    BY <1>8, SMTT(20) DEF Record, Stands, MoveTo
  <1>9. ASSUME NEW a \in App, Watch(a) PROVE GuestOwned'
    BY <1>9, SMTT(20) DEF Watch, Stands, Set, MoveTo
  <1>10. ASSUME NEW a \in App, NotStarted(a) PROVE GuestOwned'
    BY <1>10, SMTT(20) DEF NotStarted, Stands, Set, Erase, Idle, MoveTo
  <1>11. ASSUME NEW a \in App, Hold(a) PROVE GuestOwned'
    BY <1>11, SMTT(20) DEF Hold, Stands, MoveTo
  <1>12. ASSUME NEW a \in App, StopSession(a) PROVE GuestOwned'
    BY <1>12, SMTT(20) DEF StopSession, Stands, MoveTo
  <1>13. ASSUME NEW a \in App, StopGuest(a) PROVE GuestOwned'
    BY <1>13, SMTT(20) DEF StopGuest, Stands, Set
  <1>14. ASSUME NEW a \in App, FinishWatchdog(a) PROVE GuestOwned'
    BY <1>14, SMTT(20) DEF FinishWatchdog, Stands, Set, MoveTo
  <1>15. ASSUME NEW a \in App, StopHanded(a) PROVE GuestOwned'
    BY <1>15, SMTT(20) DEF StopHanded, Stands, MoveTo
  <1>16. ASSUME NEW a \in App, Archive(a) PROVE GuestOwned'
    BY <1>16, SMTT(20) DEF Archive, Stands, Idle, Erase, MoveTo, Set
  <1>17. ASSUME NEW a \in App, Die(a) PROVE GuestOwned'
    <2> SUFFICES ASSUME NEW s \in Session, guest'[s] = "alive"
                 PROVE  \/ \E b \in App : b \in up' /\ mine'[b] = s
                        \/ watchdog'[s] = "armed"
                        \/ s \in unwatched'
      OBVIOUS
    <2>1. /\ a \in up /\ up' = up \ {a} /\ guest[s] = "alive"
          /\ UNCHANGED <<mine, watchdog>> /\ unwatched \subseteq unwatched'
      BY <1>17 DEF Die
    <2>2. CASE mine[a] = s
      <3>1. CASE guestAt[a] \in {"started", "recorded"}
        BY <1>17, <2>1, <2>2, <3>1 DEF Die
      <3>2. CASE guestAt[a] \notin {"started", "recorded"}
        BY <2>1, <2>2, <3>2 DEF Place
      <3> QED
        BY <3>1, <3>2
    <2>3. CASE mine[a] # s
      BY <2>1, <2>3
    <2> QED
      BY <2>2, <2>3
  <1>18. ASSUME NEW s \in Session, GuestDies(s) PROVE GuestOwned'
    BY <1>18, SMTT(20) DEF GuestDies, Set, Owns
  <1>19. ASSUME NEW s \in Session, WatchdogFires(s) PROVE GuestOwned'
    BY <1>19, SMTT(20) DEF WatchdogFires, Set, Owns
  <1>20. CASE UNCHANGED guestVars
    BY <1>20 DEF guestVars
  <1> QED
    BY <1>1, <1>2, <1>3, <1>4, <1>5, <1>6, <1>7, <1>8, <1>9, <1>10,
       <1>11, <1>12, <1>13, <1>14, <1>15, <1>16, <1>17, <1>18, <1>19,
       <1>20 DEF GuestNext

\* The inductive invariant, whatever the instances do and whichever of them, or
\* of the guests, die.
THEOREM GuestInvariant == GuestSpec => []GuestIInv
  <1>1. GuestInit => GuestIInv
    <2> SUFFICES ASSUME GuestInit PROVE GuestIInv
      OBVIOUS
    <2>1. GuestTypeOK
      BY DEF GuestInit, GuestTypeOK, Place
    <2>2. MineOK
      BY DEF GuestInit, MineOK
    <2>3. StageOK
      BY DEF GuestInit, StageOK
    <2>4. AloneOK
      BY DEF GuestInit, AloneOK, Watched
    <2>5. GuestOwned
      BY DEF GuestInit, GuestOwned
    <2> QED
      BY <2>1, <2>2, <2>3, <2>4, <2>5 DEF GuestIInv
  <1>2. GuestIInv /\ [GuestNext]_guestVars => GuestIInv'
    BY GuestTypeStep, MineStep, StageStep, AloneStep, OwnedStep DEF GuestIInv
  <1> QED
    BY <1>1, <1>2, PTL DEF GuestSpec

\* No guest is left to itself, and no preparation removes the disks of one that
\* a watchdog still stops: for any number of instances and sessions, through
\* every death (prepare_session, cleanup_abandoned, QemuWatchdog).
THEOREM GuestsAreOwned == GuestSpec => []GuestSafe
  <1>1. GuestIInv => GuestSafe
    BY DEF GuestIInv, GuestSafe, DisksKept, AloneOK, Watched
  <1> QED
    BY <1>1, GuestInvariant, PTL

-----------------------------------------------------------------------------
(***************************************************************************)
(* The settings.                                                           *)
(***************************************************************************)
Step == {"closed", "migrate", "migrated", "idle", "open", "wait", "verify",
         "load", "upgrade", "upgraded", "save", "saved", "last"}
Outside == {"closed", "migrate", "migrated", "idle", "open"}
Holding == {"verify", "load", "upgrade", "upgraded", "save", "saved", "last"}

Contents == [there : BOOLEAN, old : BOOLEAN, has : SUBSET Change]
Job == [changes : SUBSET Change, lock : Lock \union {NoLock},
        before : Lock \union {NoLock}, read : SUBSET Change,
        alone : BOOLEAN, wild : BOOLEAN]

TypeOK ==
  /\ settings \in Contents /\ settingsDisk \subseteq Contents /\ settings \in settingsDisk
  /\ lockFile \in Lock \union {NoLock} /\ used \subseteq Lock
  /\ holder \in [Lock -> SUBSET Proc]
  /\ at \in [Proc -> Step] /\ job \in [Proc -> Job]
  /\ reported \subseteq Change /\ disturbed \in BOOLEAN /\ lied \in BOOLEAN

\* A process that is past the lock's acquisition holds the lock file it opened,
\* alone; and that file is the one under the lock's name exactly as long as
\* nobody replaced it.
LockOK ==
  /\ lockFile \in used \union {NoLock}
  /\ \A p \in Proc :
       /\ at[p] \in Outside <=> job[p].lock = NoLock
       /\ job[p].lock # NoLock => job[p].lock \in used
       /\ at[p] \in Holding => holder[job[p].lock] = {p}
       /\ job[p].alone <=> job[p].lock \in {NoLock, lockFile}
       /\ job[p].wild => ~job[p].alone

\* What was reported is in every version a power loss may leave; so is, as far
\* as it got, the change of a process that is alone.
DataOK ==
  /\ \A c \in settingsDisk : ~c.there => c.has = {}
  /\ ~disturbed =>
       /\ \A c \in settingsDisk : reported \subseteq c.has
       /\ \A p \in Proc : job[p].alone =>
            /\ at[p] \in {"upgrade", "upgraded", "save"} => reported \subseteq job[p].read
            /\ at[p] = "saved" => job[p].changes \subseteq settings.has
            /\ at[p] = "last" => \A c \in settingsDisk : job[p].changes \subseteq c.has

IInv == TypeOK /\ LockOK /\ DataOK /\ ~lied

-----------------------------------------------------------------------------
\* What may be written into the record of an operation.
LEMMA JobFields ==
  ASSUME NEW j \in Job, NEW c \in SUBSET Change, NEW l \in Lock \union {NoLock},
         NEW b \in BOOLEAN
  PROVE  /\ NoJob \in Job
         /\ [NoJob EXCEPT !.changes = c, !.before = l] \in Job
         /\ [j EXCEPT !.lock = l] \in Job /\ [j EXCEPT !.read = c] \in Job
         /\ [j EXCEPT !.wild = b] \in Job /\ [j EXCEPT !.alone = b] \in Job
  <1>1. NoJob \in Job /\ [NoJob EXCEPT !.changes = c, !.before = l] \in Job
    BY DEF Job, NoJob
  <1>2. [j EXCEPT !.lock = l] \in Job /\ [j EXCEPT !.read = c] \in Job
    BY DEF Job
  <1>3. [j EXCEPT !.wild = b] \in Job /\ [j EXCEPT !.alone = b] \in Job
    BY DEF Job
  <1> QED
    BY <1>1, <1>2, <1>3

\* A refused operation ends as it began.
LEMMA RefuseTyped == ASSUME TypeOK, NEW p \in Proc, GiveUp(p) PROVE TypeOK'
  <1>1. job' \in [Proc -> Job]
    BY JobFields DEF TypeOK, GiveUp, End, Job, NoJob
  <1>2. holder' \in [Lock -> SUBSET Proc]
    BY DEF TypeOK, GiveUp, End, Release
  <1>3. at' \in [Proc -> Step]
    BY DEF TypeOK, GiveUp, End, GoOn, Step
  <1> QED
    BY <1>1, <1>2, <1>3 DEF TypeOK, GiveUp, Files, History

\* The file is replaced by contents.
LEMMA ReplaceTyped ==
  ASSUME TypeOK, NEW p \in Proc, NEW c \in SUBSET Change, NEW next \in Step,
         Replace(p, c, next)
  PROVE  TypeOK'
  <1>1. CASE GiveUp(p)
    BY <1>1, RefuseTyped
  <1>2. CASE Rename(p, Content(c)) /\ GoOn(p, next) /\ UNCHANGED <<Locks, reported, lied>>
    <2>1. Content(c) \in Contents
      BY DEF Content, Contents
    <2>2. settings' \in Contents /\ settingsDisk' \subseteq Contents /\ settings' \in settingsDisk'
      BY <1>2, <2>1 DEF Rename, TypeOK
    <2>3. job[p].wild \in BOOLEAN /\ job[p].alone \in BOOLEAN
      BY DEF TypeOK, Job
    <2>4. job' \in [Proc -> Job] /\ disturbed' \in BOOLEAN
      <3>1. job' = [job EXCEPT ![p] = [job[p] EXCEPT !.wild = job[p].wild \/ ~job[p].alone]]
        BY <1>2 DEF Rename
      <3>2. [job[p] EXCEPT !.wild = job[p].wild \/ ~job[p].alone] \in Job
        BY <2>3, JobFields DEF TypeOK
      <3>3. disturbed' \in BOOLEAN
        BY <1>2, <2>3 DEF Rename, TypeOK
      <3> QED
        BY <3>1, <3>2, <3>3 DEF TypeOK
    <2>5. at' \in [Proc -> Step]
      BY <1>2 DEF TypeOK, GoOn
    <2> QED
      BY <1>2, <2>2, <2>4, <2>5 DEF TypeOK, Locks
  <1> QED
    BY <1>1, <1>2 DEF Replace

\* Every step keeps the types.
LEMMA TypeStep == ASSUME TypeOK, [SettingsNext]_settingsVars PROVE TypeOK'
  <1> USE SettingsBounds
  <1> USE DEF At, GoOn, Step
  <1>1. ASSUME NEW p \in Proc, Launch(p) PROVE TypeOK'
    BY <1>1 DEF Launch, TypeOK, Locks, Files, History
  <1>2. ASSUME NEW p \in Proc, Migrate(p) PROVE TypeOK'
    <2>1. Content({}) \in Contents /\ settings.there \in BOOLEAN
      BY DEF Content, Contents, TypeOK
    <2>2. CASE GoOn(p, "idle") /\ UNCHANGED <<Files, disturbed>>
      BY <1>2, <2>2 DEF Migrate, TypeOK, Locks, Files
    <2>3. CASE /\ settings' = Content({}) /\ settingsDisk' = settingsDisk \union {settings'}
               /\ disturbed' = (disturbed \/ settings.there)
               /\ GoOn(p, "migrated")
      BY <1>2, <2>1, <2>3 DEF Migrate, TypeOK, Locks
    <2> QED
      BY <1>2, <2>2, <2>3 DEF Migrate
  <1>3. ASSUME NEW p \in Proc, Migrated(p) PROVE TypeOK'
    BY <1>3 DEF Migrated, TypeOK, Locks, History
  <1>4. ASSUME NEW p \in Proc, Begin(p) PROVE TypeOK'
    <2>1. PICK c \in SUBSET Change :
            job' = [job EXCEPT ![p] = [NoJob EXCEPT !.changes = c, !.before = lockFile]]
      BY <1>4 DEF Begin
    <2>2. [NoJob EXCEPT !.changes = c, !.before = lockFile] \in Job
      BY DEF TypeOK, Job, NoJob
    <2> QED
      BY <1>4, <2>1, <2>2 DEF Begin, TypeOK, Locks, Files, History
  <1>5. ASSUME NEW p \in Proc, Open(p) PROVE TypeOK'
    <2>1. CASE GiveUp(p)
      BY <2>1, RefuseTyped
    <2>2. CASE ~GiveUp(p)
      <3>1. /\ lockFile' \in IF lockFile = NoLock THEN Lock \ used ELSE {lockFile}
            /\ used' = used \union {lockFile'}
            /\ job' = [job EXCEPT ![p].lock = lockFile'] /\ GoOn(p, "wait")
            /\ UNCHANGED <<Files, holder, History>>
        BY <1>5, <2>2 DEF Open
      <3>2. lockFile' \in Lock
        BY <3>1 DEF TypeOK
      <3>3. [job[p] EXCEPT !.lock = lockFile'] \in Job
        BY <3>2 DEF TypeOK, Job
      <3>4. job' \in [Proc -> Job]
        BY <3>1, <3>3 DEF TypeOK
      <3> QED
        BY <3>1, <3>2, <3>4 DEF TypeOK, Files, History
    <2> QED
      BY <2>1, <2>2
  <1>6. ASSUME NEW p \in Proc, TryLock(p) PROVE TypeOK'
    <2>1. CASE GiveUp(p)
      BY <2>1, RefuseTyped
    <2>2. CASE ~GiveUp(p)
      BY <1>6, <2>2 DEF TryLock, TypeOK, Files, History
    <2> QED
      BY <2>1, <2>2
  <1>7. ASSUME NEW p \in Proc, Verify(p) PROVE TypeOK'
    <2>1. CASE GiveUp(p)
      BY <2>1, RefuseTyped
    <2>2. CASE ~GiveUp(p)
      BY <1>7, <2>2 DEF Verify, TypeOK, Files, Locks, History
    <2> QED
      BY <2>1, <2>2
  <1>8. ASSUME NEW p \in Proc, Load(p) PROVE TypeOK'
    <2>1. [job[p] EXCEPT !.read = settings.has] \in Job
      BY DEF TypeOK, Contents, Job
    <2>2. job' = [job EXCEPT ![p] = [job[p] EXCEPT !.read = settings.has]]
      BY <1>8 DEF Load
    <2>3. job' \in [Proc -> Job]
      BY <2>1, <2>2 DEF TypeOK
    <2> QED
      BY <1>8, <2>3 DEF Load, TypeOK, Files, Locks, History
  <1>9. ASSUME NEW p \in Proc, Upgrade(p) PROVE TypeOK'
    <2>1. job[p].read \in SUBSET Change
      BY DEF TypeOK, Job
    <2> QED
      BY <1>9, <2>1, ReplaceTyped DEF Upgrade
  <1>10. ASSUME NEW p \in Proc, Save(p) PROVE TypeOK'
    <2>1. job[p].read \union job[p].changes \in SUBSET Change
      BY DEF TypeOK, Job
    <2> QED
      BY <1>10, <2>1, ReplaceTyped DEF Save
  <1>11. ASSUME NEW p \in Proc, Synced(p) PROVE TypeOK'
    <2>1. CASE GiveUp(p)
      BY <2>1, RefuseTyped
    <2>2. CASE ~GiveUp(p)
      BY <1>11, <2>2 DEF Synced, TypeOK, Locks, History
    <2> QED
      BY <2>1, <2>2
  <1>12. ASSUME NEW p \in Proc, VerifyLast(p) PROVE TypeOK'
    <2>1. CASE GiveUp(p)
      BY <2>1, RefuseTyped
    <2>2. CASE ~GiveUp(p)
      <3>1. /\ End(p) /\ reported' = reported \union job[p].changes
            /\ lied' = (lied \/ job[p].wild)
            /\ UNCHANGED <<Files, lockFile, used, disturbed>>
        BY <1>12, <2>2 DEF VerifyLast
      <3>2. job' \in [Proc -> Job] /\ holder' \in [Lock -> SUBSET Proc]
        BY <3>1 DEF End, Release, TypeOK, Job, NoJob
      <3>3. job[p].changes \subseteq Change /\ job[p].wild \in BOOLEAN
        BY DEF TypeOK, Job
      <3> QED
        BY <3>1, <3>2, <3>3 DEF End, TypeOK, Files
    <2> QED
      BY <2>1, <2>2
  <1>13. ASSUME NEW p \in Proc, Kill(p) PROVE TypeOK'
    <2>1. NoJob \in Job
      BY DEF Job, NoJob
    <2>2. holder' \in [Lock -> SUBSET Proc]
      BY <1>13 DEF Kill, Release, TypeOK
    <2> QED
      BY <1>13, <2>1, <2>2 DEF Kill, TypeOK, Files, History
  <1>14. CASE PowerFails
    <2>1. NoJob \in Job
      BY DEF Job, NoJob
    <2> QED
      BY <1>14, <2>1 DEF PowerFails, TypeOK, History
  <1>15. CASE ReplaceLock
    <2>1. /\ lockFile' \in {NoLock} \union Lock
          /\ used' \subseteq Lock
      BY <1>15 DEF ReplaceLock, TypeOK
    <2>2. \A p \in Proc : [job[p] EXCEPT !.alone = job[p].alone /\ job[p].lock = NoLock] \in Job
      BY DEF TypeOK, Job
    <2>3. job' = [p \in Proc |-> [job[p] EXCEPT !.alone = job[p].alone /\ job[p].lock = NoLock]]
      BY <1>15 DEF ReplaceLock
    <2>4. job' \in [Proc -> Job]
      BY <2>2, <2>3
    <2> QED
      BY <1>15, <2>1, <2>4 DEF ReplaceLock, TypeOK, Files, History
  <1>16. CASE UNCHANGED settingsVars
    BY <1>16 DEF settingsVars, TypeOK
  <1> QED
    BY <1>1, <1>2, <1>3, <1>4, <1>5, <1>6, <1>7, <1>8, <1>9, <1>10, <1>11, <1>12,
       <1>13, <1>14, <1>15, <1>16 DEF SettingsNext, Operation

\* A refused operation gives its lock up, and leaves the others theirs.
LEMMA RefuseLock == ASSUME TypeOK, LockOK, NEW p \in Proc, End(p),
                           UNCHANGED <<lockFile, used>> PROVE LockOK'
  <1>1. /\ at'[p] = "idle" /\ job'[p] = NoJob
        /\ \A q \in Proc : q # p => at'[q] = at[q] /\ job'[q] = job[q]
    BY DEF End, GoOn, TypeOK
  <1>2. \A l \in Lock : holder'[l] = holder[l] \ {p}
    BY DEF End, Release
  <1>3. ASSUME NEW q \in Proc, q # p, at[q] \in Holding PROVE holder'[job'[q].lock] = {q}
    <2>1. job[q].lock \in Lock /\ holder[job[q].lock] = {q}
      BY <1>3 DEF LockOK, TypeOK, Outside, Holding
    <2> QED
      BY <1>1, <1>2, <1>3, <2>1
  <1> QED
    BY <1>1, <1>3 DEF LockOK, NoJob, Outside, Holding

\* Every step keeps the locks exclusive.
LEMMA LockStep == ASSUME TypeOK, LockOK, [SettingsNext]_settingsVars PROVE LockOK'
  <1> USE SettingsBounds
  <1> USE DEF TypeOK, LockOK, Outside, Holding, Job, NoJob, At, GoOn, Locks, Files, History
  <1>1. ASSUME NEW p \in Proc, Launch(p) PROVE LockOK'
    BY <1>1, SMTT(20) DEF Launch
  <1>2. ASSUME NEW p \in Proc, Migrate(p) PROVE LockOK'
    BY <1>2, SMTT(20) DEF Migrate
  <1>3. ASSUME NEW p \in Proc, Migrated(p) PROVE LockOK'
    BY <1>3, SMTT(20) DEF Migrated
  <1>4. ASSUME NEW p \in Proc, Begin(p) PROVE LockOK'
    BY <1>4, SMTT(20) DEF Begin
  <1>5. ASSUME NEW p \in Proc, Open(p) PROVE LockOK'
    <2>1. CASE GiveUp(p)
      BY <1>5, <2>1 DEF Open, GiveUp, End, Release
    <2>2. CASE ~GiveUp(p)
      <3>1. /\ lockFile' \in IF lockFile = NoLock THEN Lock \ used ELSE {lockFile}
            /\ used' = used \union {lockFile'}
            /\ job' = [job EXCEPT ![p].lock = lockFile'] /\ GoOn(p, "wait")
            /\ at[p] = "open" /\ UNCHANGED holder
        BY <1>5, <2>2 DEF Open
      <3>2. lockFile' # NoLock /\ lockFile' \in Lock
        BY <3>1
      <3>3. /\ job'[p].lock = lockFile' /\ job'[p].alone = job[p].alone
            /\ job'[p].wild = job[p].wild /\ at'[p] = "wait"
        BY <3>1
      <3>4. ASSUME NEW q \in Proc, q # p PROVE job'[q] = job[q] /\ at'[q] = at[q]
        BY <3>1, <3>4
      <3>5. ASSUME NEW q \in Proc, q # p
            PROVE  job[q].lock \in {NoLock, lockFile'} <=> job[q].lock \in {NoLock, lockFile}
        BY <3>1, <3>2
      <3>6. job[p].alone /\ ~job[p].wild
        BY <3>1
      <3>7. lockFile' \in used' \union {NoLock}
        BY <3>1
      <3>8. ASSUME NEW q \in Proc, q # p
            PROVE  /\ at'[q] \in Outside <=> job'[q].lock = NoLock
                   /\ job'[q].lock # NoLock => job'[q].lock \in used'
                   /\ at'[q] \in Holding => holder'[job'[q].lock] = {q}
                   /\ job'[q].alone <=> job'[q].lock \in {NoLock, lockFile'}
                   /\ job'[q].wild => ~job'[q].alone
        BY <3>1, <3>4, <3>5, <3>8
      <3>9. /\ at'[p] \in Outside <=> job'[p].lock = NoLock
            /\ job'[p].lock # NoLock => job'[p].lock \in used'
            /\ at'[p] \in Holding => holder'[job'[p].lock] = {p}
            /\ job'[p].alone <=> job'[p].lock \in {NoLock, lockFile'}
            /\ job'[p].wild => ~job'[p].alone
        BY <3>1, <3>2, <3>3, <3>6
      <3> QED
        BY <3>7, <3>8, <3>9
    <2> QED
      BY <2>1, <2>2
  <1>6. ASSUME NEW p \in Proc, TryLock(p) PROVE LockOK'
    <2>1. CASE GiveUp(p)
      BY <2>1, RefuseLock DEF GiveUp
    <2>2. CASE ~GiveUp(p)
      <3>1. /\ holder[job[p].lock] = {} /\ at[p] = "wait"
            /\ holder' = [holder EXCEPT ![job[p].lock] = {p}] /\ GoOn(p, "verify")
            /\ UNCHANGED <<lockFile, used, job>>
        BY <1>6, <2>2 DEF TryLock
      <3>2. /\ at'[p] = "verify" /\ \A q \in Proc : q # p => at'[q] = at[q]
        BY <3>1
      <3>3. holder'[job[p].lock] = {p}
        BY <3>1
      <3>4. ASSUME NEW q \in Proc, q # p, at[q] \in Holding PROVE holder'[job[q].lock] = {q}
        BY <3>1, <3>4
      <3> QED
        BY <3>1, <3>2, <3>3, <3>4
    <2> QED
      BY <2>1, <2>2
  <1>7. ASSUME NEW p \in Proc, Verify(p) PROVE LockOK'
    <2>1. CASE End(p) /\ UNCHANGED <<lockFile, used>>
      BY <2>1, RefuseLock
    <2>2. CASE ~(End(p) /\ UNCHANGED <<lockFile, used>>)
      BY <1>7, <2>2 DEF Verify, Mine, GiveUp
    <2> QED
      BY <2>1, <2>2
  <1>8. ASSUME NEW p \in Proc, Load(p) PROVE LockOK'
    BY <1>8, SMTT(20) DEF Load
  <1>9. ASSUME NEW p \in Proc, Upgrade(p) PROVE LockOK'
    <2>1. CASE GiveUp(p)
      BY <2>1, RefuseLock DEF GiveUp
    <2>2. CASE ~GiveUp(p)
      BY <1>9, <2>2 DEF Upgrade, Replace, Rename
    <2> QED
      BY <2>1, <2>2
  <1>10. ASSUME NEW p \in Proc, Save(p) PROVE LockOK'
    <2>1. CASE GiveUp(p)
      BY <2>1, RefuseLock DEF GiveUp
    <2>2. CASE ~GiveUp(p)
      BY <1>10, <2>2 DEF Save, Replace, Rename
    <2> QED
      BY <2>1, <2>2
  <1>11. ASSUME NEW p \in Proc, Synced(p) PROVE LockOK'
    <2>1. CASE End(p) /\ UNCHANGED <<lockFile, used>>
      BY <2>1, RefuseLock
    <2>2. CASE ~(End(p) /\ UNCHANGED <<lockFile, used>>)
      BY <1>11, <2>2 DEF Synced, GiveUp
    <2> QED
      BY <2>1, <2>2
  <1>12. ASSUME NEW p \in Proc, VerifyLast(p) PROVE LockOK'
    <2>1. CASE End(p) /\ UNCHANGED <<lockFile, used>>
      BY <2>1, RefuseLock
    <2>2. CASE ~(End(p) /\ UNCHANGED <<lockFile, used>>)
      BY <1>12, <2>2 DEF VerifyLast, Mine, GiveUp
    <2> QED
      BY <2>1, <2>2
  <1>13. ASSUME NEW p \in Proc, Kill(p) PROVE LockOK'
    BY <1>13, SMTT(20) DEF Kill, Fault, Release
  <1>14. CASE PowerFails
    BY <1>14, SMTT(20) DEF PowerFails, Fault
  <1>15. CASE ReplaceLock
    BY <1>15, SMTT(20) DEF ReplaceLock, Fault
  <1>16. CASE UNCHANGED settingsVars
    BY <1>16 DEF settingsVars
  <1> QED
    BY <1>1, <1>2, <1>3, <1>4, <1>5, <1>6, <1>7, <1>8, <1>9, <1>10, <1>11, <1>12, <1>13, <1>14,
       <1>15, <1>16 DEF SettingsNext, Operation

\* Two processes that hold the file under the lock's name are one.
LEMMA OneAlone ==
  ASSUME TypeOK, LockOK, NEW p \in Proc, NEW q \in Proc,
         at[p] \in Holding, at[q] \in Holding, job[p].alone, job[q].alone
  PROVE  p = q
  BY DEF TypeOK, LockOK, Outside, Holding

\* A step that leaves the files, to where the contents do not matter yet.
LEMMA QuietData ==
  ASSUME DataOK, NEW p \in Proc, UNCHANGED <<settings, settingsDisk, reported, disturbed>>,
         \A q \in Proc : q # p => at'[q] = at[q] /\ job'[q] = job[q],
         at'[p] \notin {"upgrade", "upgraded", "save", "saved", "last"}
  PROVE  DataOK'
  BY DEF DataOK

\* A refused operation leaves the files.
LEMMA RefuseData == ASSUME TypeOK, DataOK, NEW p \in Proc, GiveUp(p) PROVE DataOK'
  <1>1. /\ at'[p] = "idle"
        /\ \A q \in Proc : q # p => at'[q] = at[q] /\ job'[q] = job[q]
    BY DEF GiveUp, End, GoOn, TypeOK
  <1>2. UNCHANGED <<settings, settingsDisk, reported, disturbed>>
    BY DEF GiveUp, Files, History
  <1> QED
    BY <1>1, <1>2, QuietData

\* A process replaces the file: what was reported stays if it is in the new one.
LEMMA ReplaceData ==
  ASSUME TypeOK, LockOK, DataOK, NEW p \in Proc, at[p] \in {"upgrade", "save"},
         NEW c \in SUBSET Change, Rename(p, Content(c)), UNCHANGED reported,
         NEW next \in {"upgraded", "saved"}, GoOn(p, next),
         ~disturbed /\ job[p].alone => reported \subseteq c,
         next = "upgraded" => reported \subseteq job[p].read \/ disturbed \/ ~job[p].alone,
         next = "saved" => job[p].changes \subseteq c
  PROVE  DataOK'
  <1>1. Content(c).there /\ Content(c).has = c
    BY DEF Content
  <1>2. /\ settings' = Content(c) /\ settingsDisk' = settingsDisk \union {Content(c)}
        /\ disturbed' = (disturbed \/ ~job[p].alone)
    BY DEF Rename
  <1>3. /\ at'[p] = next /\ \A q \in Proc : q # p => at'[q] = at[q] /\ job'[q] = job[q]
        /\ job'[p].alone = job[p].alone /\ job'[p].read = job[p].read
        /\ job'[p].changes = job[p].changes
    BY DEF Rename, GoOn, TypeOK, Job
  <1>4. \A x \in settingsDisk' : ~x.there => x.has = {}
    BY <1>1, <1>2 DEF DataOK
  <1>5. CASE disturbed'
    BY <1>4, <1>5 DEF DataOK
  <1>6. CASE ~disturbed'
    <2>1. ~disturbed /\ job[p].alone
      BY <1>2, <1>6
    <2>2. \A x \in settingsDisk' : reported' \subseteq x.has
      BY <1>1, <1>2, <2>1 DEF DataOK
    <2>3. ASSUME NEW q \in Proc, q # p, job[q].alone PROVE at[q] \notin Holding
      BY <2>1, <2>3, OneAlone DEF Holding
    <2>4. ASSUME NEW q \in Proc, job'[q].alone
          PROVE  /\ at'[q] \in {"upgrade", "upgraded", "save"} => reported' \subseteq job'[q].read
                 /\ at'[q] = "saved" => job'[q].changes \subseteq settings'.has
                 /\ at'[q] = "last" => \A x \in settingsDisk' : job'[q].changes \subseteq x.has
      <3>1. CASE q = p
        BY <1>1, <1>2, <1>3, <2>1, <2>4, <3>1
      <3>2. CASE q # p
        BY <1>3, <2>3, <2>4, <3>2 DEF Holding
      <3> QED
        BY <3>1, <3>2
    <2> QED
      BY <1>4, <2>2, <2>4 DEF DataOK
  <1> QED
    BY <1>5, <1>6

\* Every step keeps what was reported.
LEMMA DataStep == ASSUME TypeOK, LockOK, DataOK, [SettingsNext]_settingsVars PROVE DataOK'
  <1> USE SettingsBounds
  <1>1. ASSUME NEW p \in Proc, Launch(p) PROVE DataOK'
    <2>1. CASE GiveUp(p)
      BY <2>1, RefuseData
    <2>2. CASE ~GiveUp(p)
      <3>1. /\ at'[p] \notin {"upgrade", "upgraded", "save", "saved", "last"}
            /\ \A q \in Proc : q # p => at'[q] = at[q] /\ job'[q] = job[q]
        BY <1>1, <2>2 DEF Launch, GoOn, TypeOK, Locks
      <3>2. UNCHANGED <<settings, settingsDisk, reported, disturbed>>
        BY <1>1, <2>2 DEF Launch, Files, History
      <3> QED
        BY <3>1, <3>2, QuietData
    <2> QED
      BY <2>1, <2>2
  <1>2. ASSUME NEW p \in Proc, Migrate(p) PROVE DataOK'
    <2>1. /\ at'[p] \in {"idle", "migrated"}
          /\ \A q \in Proc : q # p => at'[q] = at[q]
          /\ UNCHANGED <<job, reported>>
      BY <1>2 DEF Migrate, GoOn, TypeOK
    <2>2. CASE UNCHANGED <<Files, disturbed>>
      BY <2>1, <2>2, QuietData DEF Files
    <2>3. CASE /\ settings' = Content({}) /\ settingsDisk' = settingsDisk \union {settings'}
               /\ disturbed' = (disturbed \/ settings.there)
      <3>1. settings'.there /\ settings'.has = {}
        BY <2>3 DEF Content
      <3>2. ~disturbed' => ~disturbed /\ settings.has = {} /\ settings \in settingsDisk
        BY <2>3 DEF DataOK, TypeOK
      <3>3. ~disturbed' => reported = {}
        BY <3>2 DEF DataOK
      <3>4. ASSUME NEW q \in Proc, ~disturbed', job[q].alone
            PROVE  /\ at'[q] = "saved" => job[q].changes = {}
                   /\ at'[q] = "last" => job[q].changes = {}
        BY <2>1, <3>2, <3>4 DEF DataOK
      <3> QED
        BY <2>1, <2>3, <3>1, <3>2, <3>3, <3>4 DEF DataOK
    <2> QED
      BY <1>2, <2>2, <2>3 DEF Migrate
  <1>3. ASSUME NEW p \in Proc, Migrated(p) PROVE DataOK'
    <2>1. /\ at'[p] = "idle" /\ \A q \in Proc : q # p => at'[q] = at[q]
          /\ settingsDisk' = {settings} /\ UNCHANGED <<settings, job, reported, disturbed>>
      BY <1>3 DEF Migrated, GoOn, TypeOK, History
    <2> QED
      BY <2>1 DEF DataOK, TypeOK
  <1>4. ASSUME NEW p \in Proc, Begin(p) PROVE DataOK'
    <2>1. CASE GiveUp(p)
      BY <2>1, RefuseData
    <2>2. CASE ~GiveUp(p)
      <3>1. /\ at'[p] \notin {"upgrade", "upgraded", "save", "saved", "last"}
            /\ \A q \in Proc : q # p => at'[q] = at[q] /\ job'[q] = job[q]
        BY <1>4, <2>2 DEF Begin, GoOn, TypeOK, Locks
      <3>2. UNCHANGED <<settings, settingsDisk, reported, disturbed>>
        BY <1>4, <2>2 DEF Begin, Files, History
      <3> QED
        BY <3>1, <3>2, QuietData
    <2> QED
      BY <2>1, <2>2
  <1>5. ASSUME NEW p \in Proc, Open(p) PROVE DataOK'
    <2>1. CASE GiveUp(p)
      BY <2>1, RefuseData
    <2>2. CASE ~GiveUp(p)
      <3>1. /\ at'[p] \notin {"upgrade", "upgraded", "save", "saved", "last"}
            /\ \A q \in Proc : q # p => at'[q] = at[q] /\ job'[q] = job[q]
        BY <1>5, <2>2 DEF Open, GoOn, TypeOK, Locks
      <3>2. UNCHANGED <<settings, settingsDisk, reported, disturbed>>
        BY <1>5, <2>2 DEF Open, Files, History
      <3> QED
        BY <3>1, <3>2, QuietData
    <2> QED
      BY <2>1, <2>2
  <1>6. ASSUME NEW p \in Proc, TryLock(p) PROVE DataOK'
    <2>1. CASE GiveUp(p)
      BY <2>1, RefuseData
    <2>2. CASE ~GiveUp(p)
      <3>1. /\ at'[p] \notin {"upgrade", "upgraded", "save", "saved", "last"}
            /\ \A q \in Proc : q # p => at'[q] = at[q] /\ job'[q] = job[q]
        BY <1>6, <2>2 DEF TryLock, GoOn, TypeOK, Locks
      <3>2. UNCHANGED <<settings, settingsDisk, reported, disturbed>>
        BY <1>6, <2>2 DEF TryLock, Files, History
      <3> QED
        BY <3>1, <3>2, QuietData
    <2> QED
      BY <2>1, <2>2
  <1>7. ASSUME NEW p \in Proc, Verify(p) PROVE DataOK'
    <2>1. CASE GiveUp(p)
      BY <2>1, RefuseData
    <2>2. CASE ~GiveUp(p)
      <3>1. /\ at'[p] \notin {"upgrade", "upgraded", "save", "saved", "last"}
            /\ \A q \in Proc : q # p => at'[q] = at[q] /\ job'[q] = job[q]
        BY <1>7, <2>2 DEF Verify, GoOn, TypeOK, Locks
      <3>2. UNCHANGED <<settings, settingsDisk, reported, disturbed>>
        BY <1>7, <2>2 DEF Verify, Files, History
      <3> QED
        BY <3>1, <3>2, QuietData
    <2> QED
      BY <2>1, <2>2
  <1>8. ASSUME NEW p \in Proc, Load(p) PROVE DataOK'
    <2>0. PICK l \in {"upgrade", "save", "last"} :
            at' = [at EXCEPT ![p] = l] /\ (l = "last" => job[p].changes = {})
      BY <1>8 DEF Load, GoOn
    <2>1. /\ at'[p] \in {"upgrade", "save", "last"}
          /\ at'[p] = "last" => job[p].changes = {}
          /\ \A q \in Proc : q # p => at'[q] = at[q] /\ job'[q] = job[q]
      <3>1. job' = [job EXCEPT ![p] = [job[p] EXCEPT !.read = settings.has]]
        BY <1>8 DEF Load
      <3>2. \A q \in Proc : q # p => job'[q] = job[q]
        BY <3>1 DEF TypeOK
      <3>3. at'[p] = l /\ \A q \in Proc : q # p => at'[q] = at[q]
        BY <2>0 DEF TypeOK
      <3> QED
        BY <2>0, <3>2, <3>3
    <2>2. job'[p].read = settings.has /\ job'[p].changes = job[p].changes
      BY <1>8 DEF Load, TypeOK, Job
    <2>3. UNCHANGED <<settings, settingsDisk, reported, disturbed>>
      BY <1>8 DEF Load, Files, History
    <2>4. ~disturbed => reported \subseteq settings.has
      BY DEF TypeOK, DataOK
    <2>5. ASSUME NEW q \in Proc, ~disturbed, job'[q].alone
          PROVE  /\ at'[q] \in {"upgrade", "upgraded", "save"} => reported \subseteq job'[q].read
                 /\ at'[q] = "saved" => job'[q].changes \subseteq settings.has
                 /\ at'[q] = "last" => \A c \in settingsDisk : job'[q].changes \subseteq c.has
      <3>1. CASE q = p
        BY <2>1, <2>2, <2>4, <2>5, <3>1
      <3>2. CASE q # p
        BY <2>1, <2>5, <3>2 DEF DataOK
      <3> QED
        BY <3>1, <3>2
    <2> QED
      BY <2>3, <2>5 DEF DataOK
  <1>9. ASSUME NEW p \in Proc, Upgrade(p) PROVE DataOK'
    <2>1. CASE GiveUp(p)
      BY <2>1, RefuseData
    <2>2. CASE ~GiveUp(p)
      <3>1. /\ Rename(p, Content(job[p].read)) /\ GoOn(p, "upgraded") /\ UNCHANGED reported
            /\ at[p] = "upgrade"
        BY <1>9, <2>2 DEF Upgrade, Replace, At
      <3>2. job[p].read \in SUBSET Change
        BY DEF TypeOK, Job
      <3>3. ~disturbed /\ job[p].alone => reported \subseteq job[p].read
        BY <3>1 DEF DataOK
      <3> QED
        BY <3>1, <3>2, <3>3, ReplaceData
    <2> QED
      BY <2>1, <2>2
  <1>10. ASSUME NEW p \in Proc, Save(p) PROVE DataOK'
    <2>1. CASE GiveUp(p)
      BY <2>1, RefuseData
    <2>2. CASE ~GiveUp(p)
      <3>1. /\ Rename(p, Content(job[p].read \union job[p].changes)) /\ GoOn(p, "saved")
            /\ UNCHANGED reported /\ at[p] = "save"
        BY <1>10, <2>2 DEF Save, Replace, At
      <3>2. job[p].read \union job[p].changes \in SUBSET Change
        BY DEF TypeOK, Job
      <3>3. ~disturbed /\ job[p].alone => reported \subseteq job[p].read \union job[p].changes
        BY <3>1 DEF DataOK
      <3> QED
        BY <3>1, <3>2, <3>3, ReplaceData
    <2> QED
      BY <2>1, <2>2
  <1>11. ASSUME NEW p \in Proc, Synced(p) PROVE DataOK'
    <2>1. CASE GiveUp(p)
      BY <2>1, RefuseData
    <2>2. CASE ~GiveUp(p)
      <3>1. /\ settingsDisk' = {settings} /\ UNCHANGED <<settings, job, reported, disturbed>>
            /\ \A q \in Proc : q # p => at'[q] = at[q]
        BY <1>11, <2>2 DEF Synced, GoOn, TypeOK, History
      <3>2. \/ at[p] = "upgraded" /\ at'[p] = "save"
            \/ at[p] = "upgraded" /\ at'[p] = "last" /\ job[p].changes = {}
            \/ at[p] = "saved" /\ at'[p] = "last"
        BY <1>11, <2>2 DEF Synced, GoOn, TypeOK, At
      <3>3. settings \in settingsDisk
        BY DEF TypeOK
      <3> QED
        BY <3>1, <3>2, <3>3 DEF DataOK
    <2> QED
      BY <2>1, <2>2
  <1>12. ASSUME NEW p \in Proc, VerifyLast(p) PROVE DataOK'
    <2>1. CASE GiveUp(p)
      BY <2>1, RefuseData
    <2>2. CASE ~GiveUp(p)
      <3>1. /\ at[p] = "last" /\ lockFile = job[p].lock /\ reported' = reported \union job[p].changes
            /\ at'[p] = "idle"
            /\ \A q \in Proc : q # p => at'[q] = at[q] /\ job'[q] = job[q]
            /\ UNCHANGED <<settings, settingsDisk, disturbed>>
        BY <1>12, <2>2 DEF VerifyLast, End, Mine, At, GoOn, Files, TypeOK
      <3>2. job[p].alone
        BY <3>1 DEF LockOK
      <3>3. ASSUME NEW q \in Proc, q # p, job'[q].alone PROVE at'[q] \notin Holding
        BY <3>1, <3>2, <3>3, OneAlone DEF Holding
      <3>4. ~disturbed => \A c \in settingsDisk : reported' \subseteq c.has
        BY <3>1, <3>2 DEF DataOK
      <3> QED
        BY <3>1, <3>3, <3>4 DEF DataOK, Holding
    <2> QED
      BY <2>1, <2>2
  <1>13. ASSUME NEW p \in Proc, Kill(p) PROVE DataOK'
    <2>1. CASE GiveUp(p)
      BY <2>1, RefuseData
    <2>2. CASE ~GiveUp(p)
      <3>1. /\ at'[p] \notin {"upgrade", "upgraded", "save", "saved", "last"}
            /\ \A q \in Proc : q # p => at'[q] = at[q] /\ job'[q] = job[q]
        BY <1>13, <2>2 DEF Kill, GoOn, TypeOK, Locks
      <3>2. UNCHANGED <<settings, settingsDisk, reported, disturbed>>
        BY <1>13, <2>2 DEF Kill, Files, History
      <3> QED
        BY <3>1, <3>2, QuietData
    <2> QED
      BY <2>1, <2>2
  <1>14. CASE PowerFails
    <2>1. /\ settings' \in settingsDisk /\ settingsDisk' = {settings'} /\ UNCHANGED <<reported, disturbed>>
          /\ \A q \in Proc : at'[q] = "closed"
      BY <1>14 DEF PowerFails, History
    <2> QED
      BY <2>1 DEF DataOK
  <1>15. CASE ReplaceLock
    <2>1. UNCHANGED <<settings, settingsDisk, at, reported, disturbed>>
      BY <1>15 DEF ReplaceLock, Files, History
    <2>2. \A q \in Proc : /\ job'[q].alone => job[q].alone
                          /\ job'[q].read = job[q].read /\ job'[q].changes = job[q].changes
      BY <1>15 DEF ReplaceLock, TypeOK, Job
    <2> QED
      BY <2>1, <2>2 DEF DataOK
  <1>16. CASE UNCHANGED settingsVars
    BY <1>16 DEF settingsVars, DataOK
  <1> QED
    BY <1>1, <1>2, <1>3, <1>4, <1>5, <1>6, <1>7, <1>8, <1>9, <1>10, <1>11, <1>12,
       <1>13, <1>14, <1>15, <1>16 DEF SettingsNext, Operation

\* A process that is not alone does not report success.
LEMMA LiedStep == ASSUME TypeOK, LockOK, ~lied, [SettingsNext]_settingsVars PROVE ~lied'
  <1> USE SettingsBounds
  <1> USE DEF TypeOK, LockOK, Outside, Holding, Job, At, GoOn, Locks, Files, History
  <1>1. ASSUME NEW p \in Proc, Launch(p) PROVE ~lied'
    BY <1>1, SMTT(20) DEF Launch
  <1>2. ASSUME NEW p \in Proc, Migrate(p) PROVE ~lied'
    BY <1>2, SMTT(20) DEF Migrate
  <1>3. ASSUME NEW p \in Proc, Migrated(p) PROVE ~lied'
    BY <1>3, SMTT(20) DEF Migrated
  <1>4. ASSUME NEW p \in Proc, Begin(p) PROVE ~lied'
    BY <1>4, SMTT(20) DEF Begin
  <1>5. ASSUME NEW p \in Proc, Open(p) PROVE ~lied'
    BY <1>5, SMTT(20) DEF Open, GiveUp, End, Release
  <1>6. ASSUME NEW p \in Proc, TryLock(p) PROVE ~lied'
    BY <1>6, SMTT(20) DEF TryLock, GiveUp, End, Release
  <1>7. ASSUME NEW p \in Proc, Verify(p) PROVE ~lied'
    BY <1>7, SMTT(20) DEF Verify, GiveUp, End, Release, Mine
  <1>8. ASSUME NEW p \in Proc, Load(p) PROVE ~lied'
    BY <1>8, SMTT(20) DEF Load
  <1>9. ASSUME NEW p \in Proc, Upgrade(p) PROVE ~lied'
    BY <1>9, SMTT(20) DEF Upgrade, Replace, Rename, Content, GiveUp, End, Release
  <1>10. ASSUME NEW p \in Proc, Save(p) PROVE ~lied'
    BY <1>10, SMTT(20) DEF Save, Replace, Rename, Content, GiveUp, End, Release
  <1>11. ASSUME NEW p \in Proc, Synced(p) PROVE ~lied'
    BY <1>11, SMTT(20) DEF Synced, GiveUp, End, Release
  <1>12. ASSUME NEW p \in Proc, VerifyLast(p) PROVE ~lied'
    BY <1>12, SMTT(20) DEF VerifyLast, GiveUp, End, Release, Mine
  <1>13. ASSUME NEW p \in Proc, Kill(p) PROVE ~lied'
    BY <1>13, SMTT(20) DEF Kill, Fault, Release
  <1>14. CASE PowerFails
    BY <1>14, SMTT(20) DEF PowerFails, Fault
  <1>15. CASE ReplaceLock
    BY <1>15, SMTT(20) DEF ReplaceLock, Fault
  <1>16. CASE UNCHANGED settingsVars
    BY <1>16 DEF settingsVars
  <1> QED
    BY <1>1, <1>2, <1>3, <1>4, <1>5, <1>6, <1>7, <1>8, <1>9, <1>10, <1>11, <1>12, <1>13, <1>14,
       <1>15, <1>16 DEF SettingsNext, Operation

\* The inductive invariant of the settings file.
THEOREM SettingsInvariant == SettingsSpec => []IInv
  <1>1. SettingsInit => IInv
    <2> SUFFICES ASSUME SettingsInit PROVE IInv
      OBVIOUS
    <2>0. /\ settingsDisk = {settings} /\ lockFile = NoLock /\ used = {} /\ reported = {}
          /\ disturbed = FALSE /\ lied = FALSE
      BY DEF SettingsInit
    <2>1. TypeOK
      <3>1. NoJob \in Job
        BY DEF Job, NoJob
      <3>2. settings \in Contents
        <4>1. NoSettings \in Contents /\ [there |-> TRUE, old |-> TRUE, has |-> {}] \in Contents
          BY DEF NoSettings, Contents
        <4> QED
          BY <4>1 DEF SettingsInit
      <3>3. /\ at \in [Proc -> Step] /\ job \in [Proc -> Job]
            /\ holder \in [Lock -> SUBSET Proc]
        BY <3>1 DEF SettingsInit, Step
      <3> QED
        BY <3>2, <3>3, <2>0 DEF TypeOK
    <2>2. LockOK
      BY DEF SettingsInit, LockOK, NoJob, Outside, Holding
    <2>3. DataOK
      BY DEF SettingsInit, DataOK, NoSettings
    <2> QED
      BY <2>1, <2>2, <2>3 DEF IInv, SettingsInit
  <1>2. IInv /\ [SettingsNext]_settingsVars => IInv'
    BY TypeStep, LockStep, DataStep, LiedStep DEF IInv
  <1> QED
    BY <1>1, <1>2, PTL DEF SettingsSpec

\* A change of the settings whose success was reported is never lost, whatever
\* processes are killed, whenever power is lost, and whoever replaces the lock
\* file (acquire_settings_file_lock, save_builder_settings_path_unlocked).
THEOREM ReportedSettingsKept == SettingsSpec => []SettingsKept
  <1>1. IInv => SettingsKept
    BY DEF IInv, TypeOK, DataOK, SettingsKept
  <1> QED
    BY <1>1, SettingsInvariant, PTL

(***************************************************************************)
(* Exported images.                                                        *)
(***************************************************************************)
ExportStep == {"choose", "look", "convert", "recheck", "describe", "rename", "pair",
               "rollback", "over"}

ExportTypeOK ==
  /\ image \in [Number -> File] /\ manifest \in [Number -> File]
  /\ partial \in [Exporter -> [image : File, manifest : File]]
  /\ exportAt \in [Exporter -> ExportStep] /\ name \in [Exporter -> Number \union {0}]
  /\ removed \subseteq Number

\* Between its two renames an exporter has its image, and no manifest, under
\* the name it chose, unless another program removed a file there.
HalfPaired ==
  \A e \in Exporter :
    /\ exportAt[e] \in {"pair", "rollback"} =>
         name[e] \in Number /\ (name[e] \notin removed => image[name[e]] = e)
    /\ exportAt[e] \notin {"choose", "over"} => name[e] \in Number
    /\ exportAt[e] # "over" => \A n \in Number : manifest[n] # e

ExportIInv == ExportTypeOK /\ HalfPaired /\ PairsMatch

LEMMA ExportTypeStep == ASSUME ExportIInv, [ExportNext]_exportVars PROVE ExportTypeOK'
  <1> USE DEF ExportIInv, ExportTypeOK, HalfPaired, ExportStep, File, IsAt, Proceed, Finals,
              Image, Manifest, Moved, FailExport, NoPartial, Other
  <1>1. ASSUME NEW e \in Exporter, LookImage(e) PROVE ExportTypeOK'
    BY <1>1, SMTT(20) DEF LookImage
  <1>2. ASSUME NEW e \in Exporter, LookManifest(e) PROVE ExportTypeOK'
    BY <1>2, SMTT(20) DEF LookManifest
  <1>3. ASSUME NEW e \in Exporter, Convert(e) PROVE ExportTypeOK'
    BY <1>3, SMTT(20) DEF Convert
  <1>4. ASSUME NEW e \in Exporter, Recheck(e) PROVE ExportTypeOK'
    BY <1>4, SMTT(20) DEF Recheck
  <1>5. ASSUME NEW e \in Exporter, Describe(e) PROVE ExportTypeOK'
    BY <1>5, SMTT(20) DEF Describe
  <1>6. ASSUME NEW e \in Exporter, RenameImage(e) PROVE ExportTypeOK'
    BY <1>6, SMTT(20) DEF RenameImage
  <1>7. ASSUME NEW e \in Exporter, RenameManifest(e) PROVE ExportTypeOK'
    BY <1>7, SMTT(20) DEF RenameManifest
  <1>8. ASSUME NEW e \in Exporter, Rollback(e) PROVE ExportTypeOK'
    BY <1>8, SMTT(20) DEF Rollback
  <1>9. ASSUME NEW e \in Exporter, KillExport(e) PROVE ExportTypeOK'
    BY <1>9, SMTT(20) DEF KillExport
  <1>10. ASSUME NEW n \in Number, PlaceFile(n) PROVE ExportTypeOK'
    BY <1>10, SMTT(20) DEF PlaceFile
  <1>11. ASSUME NEW n \in Number, RemoveFile(n) PROVE ExportTypeOK'
    BY <1>11, SMTT(20) DEF RemoveFile
  <1>12. CASE UNCHANGED exportVars
    BY <1>12 DEF exportVars
  <1> QED
    BY <1>1, <1>2, <1>3, <1>4, <1>5, <1>6, <1>7, <1>8, <1>9, <1>10, <1>11, <1>12
       DEF ExportNext, Export

LEMMA ExportPairStep ==
  ASSUME ExportIInv, [ExportNext]_exportVars PROVE (HalfPaired /\ PairsMatch)'
  <1> USE ExportAssumption
  <1> USE DEF ExportIInv, ExportTypeOK, HalfPaired, PairsMatch, Revealable, File, IsAt, Proceed,
              Finals, Image, Manifest, Moved, FailExport, Other
  <1> DEFINE Kept == (HalfPaired /\ PairsMatch)'
  <1>1. ASSUME NEW e \in Exporter, LookImage(e) PROVE Kept
    BY <1>1, SMTT(30) DEF LookImage
  <1>2. ASSUME NEW e \in Exporter, LookManifest(e) PROVE Kept
    BY <1>2, SMTT(30) DEF LookManifest
  <1>3. ASSUME NEW e \in Exporter, Convert(e) PROVE Kept
    BY <1>3, SMTT(30) DEF Convert
  <1>4. ASSUME NEW e \in Exporter, Recheck(e) PROVE Kept
    BY <1>4, SMTT(30) DEF Recheck
  <1>5. ASSUME NEW e \in Exporter, Describe(e) PROVE Kept
    BY <1>5, SMTT(30) DEF Describe
  <1>6. ASSUME NEW e \in Exporter, RenameImage(e) PROVE Kept
    BY <1>6, SMTT(30) DEF RenameImage
  <1>7. ASSUME NEW e \in Exporter, RenameManifest(e) PROVE Kept
    BY <1>7, SMTT(30) DEF RenameManifest
  <1>8. ASSUME NEW e \in Exporter, Rollback(e) PROVE Kept
    BY <1>8, SMTT(30) DEF Rollback
  <1>9. ASSUME NEW e \in Exporter, KillExport(e) PROVE Kept
    BY <1>9, SMTT(30) DEF KillExport
  <1>10. ASSUME NEW n \in Number, PlaceFile(n) PROVE Kept
    BY <1>10, SMTT(30) DEF PlaceFile
  <1>11. ASSUME NEW n \in Number, RemoveFile(n) PROVE Kept
    BY <1>11, SMTT(30) DEF RemoveFile
  <1>12. CASE UNCHANGED exportVars
    BY <1>12 DEF exportVars
  <1> QED
    BY <1>1, <1>2, <1>3, <1>4, <1>5, <1>6, <1>7, <1>8, <1>9, <1>10, <1>11, <1>12
       DEF ExportNext, Export

\* The inductive invariant of the exports.
THEOREM ExportInvariant == ExportSpec => []ExportIInv
  <1>1. ExportInit => ExportIInv
    BY ExportAssumption DEF ExportInit, ExportIInv, ExportTypeOK, HalfPaired, PairsMatch,
       ExportStep, File, NoPartial, Revealable
  <1>2. ExportIInv /\ [ExportNext]_exportVars => ExportIInv'
    BY ExportTypeStep, ExportPairStep DEF ExportIInv
  <1> QED
    BY <1>1, <1>2, PTL DEF ExportSpec

\* An exporter renames onto free names only, and takes back what is its own.
LEMMA ExportKeepsStep == ASSUME ExportIInv PROVE ExportKeeps
  <1> SUFFICES ASSUME NEW e \in Exporter, NEW n \in Number, Export(e)
               PROVE /\ image[n] \notin {image'[n], Nothing, e} => n \in removed
                     /\ manifest[n] # Nothing => manifest'[n] = manifest[n]
    BY DEF ExportKeeps
  <1> USE DEF ExportIInv, ExportTypeOK, HalfPaired, IsAt, Finals, Image, Manifest, Moved
  <1>1. CASE LookImage(e) \/ LookManifest(e) \/ Convert(e) \/ Recheck(e) \/ Describe(e)
             \/ KillExport(e)
    BY <1>1 DEF LookImage, LookManifest, Convert, Recheck, Describe, KillExport
  <1>2. CASE RenameImage(e)
    BY <1>2 DEF RenameImage
  <1>3. CASE RenameManifest(e)
    BY <1>3 DEF RenameManifest
  <1>4. CASE Rollback(e)
    BY <1>4 DEF Rollback
  <1> QED
    BY <1>1, <1>2, <1>3, <1>4 DEF Export

(***************************************************************************)
(* Expanded images.                                                        *)
(***************************************************************************)
UnpackTypeOK ==
  /\ stream \in Nat /\ produced \in 0..stream /\ pipe \in Nat /\ written \in 0..Limit
  /\ tool \in {"none", "running", "succeeded", "failed"}
  /\ reader \in {"none", "read", "send", "done"} /\ holds \in {"none", "data", "error"}
  /\ channel \in Seq({"data", "error"}) /\ Len(channel) <= ChannelSize
  /\ unpackAt \in {"start", "look", "take", "library", "join", "finish", "done"}
  /\ cancel \in BOOLEAN /\ result \in {"none", "ok", "failed", "cancelled"}

\* Until the tool is started nothing moves; the library uses no tool.
Untouched == /\ tool = "none" /\ produced = 0 /\ pipe = 0 /\ reader = "none"
             /\ holds = "none" /\ channel = <<>> /\ result = "none"

\* The reader met an error that the preparation has not seen.
Broken == holds = "error" \/ \E i \in 1..Len(channel) : channel[i] = "error"

\* Each buffer of the tool is in the pipe, with the reader, in the channel or
\* in the image; and the reader is done at the end of the output only.
NothingLost ==
  ~Broken => produced = pipe + (IF holds = "data" THEN 1 ELSE 0) + Len(channel) + written

FlowOK ==
  /\ reader # "send" <=> holds = "none"
  /\ tool = "succeeded" => produced = stream
  /\ unpackAt \in {"start", "library"} => Untouched
  /\ unpackAt = "start" => written = 0
  /\ unpackAt \in {"look", "take"} =>
       /\ NothingLost
       /\ reader = "done" /\ ~Broken => pipe = 0 /\ tool # "running"
  /\ unpackAt = "finish" => tool # "running" /\ written = produced
  /\ unpackAt \in {"start", "look", "take", "library", "finish"} => result = "none"
  /\ unpackAt = "join" => result # "ok"

UnpackIInv == UnpackTypeOK /\ FlowOK /\ AcceptedWhole

LEMMA UnpackStep == ASSUME UnpackIInv, [UnpackNext]_unpackVars PROVE UnpackIInv'
  <1> USE UnpackBounds
  <1> USE DEF UnpackIInv, UnpackTypeOK, FlowOK, AcceptedWhole, NothingLost, Broken, Untouched,
              toolVars, readerVars, ChannelSize
  <1>1. CASE Cancel
    BY <1>1, SMTT(20) DEF Cancel
  <1>2. CASE Produce
    BY <1>2, SMTT(20) DEF Produce
  <1>3. CASE Exit
    BY <1>3, SMTT(20) DEF Exit
  <1>4. CASE Reader
    BY <1>4, SMTT(20) DEF Reader, ReaderStep
  <1>5. CASE StartTool
    BY <1>5, SMTT(20) DEF StartTool
  <1>6. CASE Look
    BY <1>6, SMTT(20) DEF Look, KillTool
  <1>7. CASE Take
    BY <1>7, SMTT(20) DEF Take, TakeBuffer, TakeNothing, KillTool
  <1>8. CASE Join
    BY <1>8, SMTT(20) DEF Join
  <1>9. CASE Finish
    BY <1>9, SMTT(20) DEF Finish
  <1>10. CASE Library
    BY <1>10, SMTT(20) DEF Library
  <1>11. CASE UNCHANGED unpackVars
    BY <1>11, SMTT(20) DEF unpackVars
  <1> QED
    BY <1>1, <1>2, <1>3, <1>4, <1>5, <1>6, <1>7, <1>8, <1>9, <1>10, <1>11
       DEF UnpackNext, Preparation

\* The inductive invariant of the expansion.
THEOREM UnpackInvariant == UnpackSpec => []UnpackIInv
  <1>1. UnpackInit => UnpackIInv
    <2> SUFFICES ASSUME UnpackInit PROVE UnpackIInv
      OBVIOUS
    <2>1. stream \in Nat /\ channel \in Seq({"data", "error"}) /\ Len(channel) = 0
      BY UnpackBounds DEF UnpackInit
    <2>2. UnpackTypeOK
      <3>1. /\ produced = 0 /\ pipe = 0 /\ written = 0 /\ tool = "none" /\ reader = "none"
            /\ holds = "none" /\ unpackAt = "start" /\ cancel = FALSE /\ result = "none"
        BY DEF UnpackInit
      <3>2. produced \in 0..stream /\ pipe \in Nat /\ written \in 0..Limit
        BY <2>1, <3>1, UnpackBounds
      <3>3. Len(channel) <= ChannelSize
        BY <2>1 DEF ChannelSize
      <3> QED
        BY <2>1, <3>1, <3>2, <3>3 DEF UnpackTypeOK
    <2>3. FlowOK /\ AcceptedWhole
      BY DEF UnpackInit, FlowOK, AcceptedWhole, Untouched
    <2> QED
      BY <2>2, <2>3 DEF UnpackIInv
  <1> QED
    BY <1>1, UnpackStep, PTL DEF UnpackSpec

\* An image that was accepted, or that is presented as complete, is whole.
THEOREM WholeImages == UnpackSpec /\ ExportSpec => ImagesWhole
  <1>1. UnpackIInv' => AcceptedWhole'
    BY DEF UnpackIInv
  <1>2. ExportIInv' => PairsMatch'
    BY DEF ExportIInv
  <1>3. ExportIInv => ExportKeeps
    BY ExportKeepsStep
  <1> QED
    BY <1>1, <1>2, <1>3, UnpackInvariant, ExportInvariant, PTL DEF ImagesWhole

(***************************************************************************)
(* The inputs of an NVIDIA installation.                                   *)
(***************************************************************************)
State       == {"none", "partial", "whole", "changed"}
AnyArchive  == DriverArchive \union {NoArchive}
Numbered    == Stamp \union {0}
AnyBundle   == BundleKind \union {"none"}
Status      == {"none", "plan", "compatible"}
Kernel      == {"none", "target", "other"}
Stage       == {"none", "ready", "handoff", "handoff-validated", "nvidia-installed"}
BoxStage    == {"ready", "building", "validating", "installing", "gone"}
Operations  == {"none", "resolve", "userspace", "bundle", "build", "validate", "install"}
Stations    == {"idle", "create", "sidecars", "archive", "validate", "record", "bundle", "fill",
                "bundled", "stage", "claim", "setup", "make", "copy", "release", "check",
                "package", "packages", "verdict", "mutate"}
Resolved    == [status : Status, version : Nat, archive : AnyArchive, place : Numbered]
Installed   == [said : AnyArchive, used : AnyArchive, whole : BOOLEAN, bundle : State]
Sessions    == [live : BOOLEAN, state : Stage, res : Resolved, packages : Numbered,
                bundle : AnyBundle, valid : BOOLEAN, inst : Installed]
Received    == [archive : AnyArchive, whole : BOOLEAN, bundle : State]
Box         == [state : BoxStage, sum : AnyArchive, guest : Received]
Command     == [op : Operations, at : Stations, version : Nat, kernel : Kernel, archive : AnyArchive,
                place : Numbered, packages : Numbered, bundle : AnyBundle]

FilesTyped == /\ pub \in [Stamp -> [Part -> State]] /\ named \subseteq Stamp
              /\ packages \in [Stamp -> State] /\ bundles \in [BundleKind -> State]
              /\ built \in State \union {"absent"}

InputsTypeOK == /\ session \in Sessions /\ box \in Box /\ cmd \in [Call -> Command]
                /\ FilesTyped

\* What a command carries, by what it is doing.
Fitting(a, v) == a \in DriverArchive /\ a.version = v /\ a.kernel = "target"
Carries(k) ==
  /\ k.at = "claim" => k.op \in {"build", "validate", "install"}
  /\ k.at = "fill" => k.op \in {"userspace", "bundle"}
  /\ k.op = "resolve" =>
       /\ k.at # "record" => k.kernel = "target"
       /\ k.at = "create" => k.place = 0 /\ k.archive = NoArchive
       /\ k.at \in {"sidecars", "archive", "validate"} => k.place # 0
       /\ k.at = "record" /\ k.archive # NoArchive => Fitting(k.archive, k.version)
       /\ k.place = 0 <=> k.archive = NoArchive
  /\ k.op = "build" =>
       /\ k.kernel = "target" /\ k.place = 0
       /\ k.archive # NoArchive => Fitting(k.archive, k.version)
       /\ k.at \in {"copy", "check", "record"} => k.archive # NoArchive
       /\ k.at \in {"claim", "setup", "make"} => k.archive = NoArchive
  /\ k.op \in {"userspace", "bundle"} /\ k.at # "bundle" => k.bundle # "none"
  /\ k.op = "userspace" /\ k.at \in {"stage", "record"} => k.packages # 0
  /\ k.op = "bundle" => k.packages # 0
  /\ k.op \in {"validate", "install"} => k.bundle # "none" /\ k.packages # 0
  /\ k.op = "install" => Fitting(k.archive, Reviewed)
CarriesOK == \A c \in Call : Carries(cmd[c])

\* One command at a time has the x86_64 session; what the guest received is
\* what the command sent, until its result is recorded.
Boxed(c) == \/ CmdIn(c, "build", {"setup", "make", "copy", "release"})
            \/ CmdIn(c, "validate", {"package", "archive", "packages", "verdict"})
            \/ CmdAt(c, "install", "mutate")
BoxOK ==
  /\ \A c \in Call : Boxed(c) => box.state = Claims[cmd[c].op]
  /\ \A b, c \in Call : Boxed(b) /\ Boxed(c) => b = c
  /\ \A c \in Call : CmdAt(c, "install", "record") =>
       box.state = "gone" /\ GuestAccepts /\ ResultMatches(c)

\* What a session records was made for the image's kernel and its version.
ResolvedOK == session.res.status = "compatible" => Fitting(session.res.archive, session.res.version)

\* A directory of downloads belongs to one command until it is recorded.
Downloads(c) ==
  LET part == pub[cmd[c].place] IN
    /\ cmd[c].at = "sidecars" => part["sidecars"] = "partial" /\ part["archive"] = "none"
    /\ cmd[c].at = "archive" => part["sidecars"] = "whole" /\ part["archive"] = "partial"
    /\ cmd[c].at \in {"validate", "record"} =>
         Inspected(part["sidecars"]) /\ Inspected(part["archive"])
Resolves(c) == cmd[c].op = "resolve" /\ cmd[c].place # 0
DownloadsOK ==
  /\ Live => \A c \in Call : Resolves(c) =>
       /\ cmd[c].place \in named /\ cmd[c].place # session.res.place
       /\ Downloads(c)
  /\ Live => \A b, c \in Call : Resolves(b) /\ Resolves(c) /\ cmd[b].place = cmd[c].place => b = c
  /\ Live /\ session.res.place # 0 => session.res.place \in named
  /\ \A d \in Stamp \ named : \A p \in Part : pub[d][p] = "none"

\* So does what is staged of the packages, and a bundle.
Stages(c) == CmdAt(c, "userspace", "stage")
Fills(c)  == Prepares(c) /\ cmd[c].at = "fill"
StagesOK ==
  Live => /\ \A c \in Call :
               /\ Stages(c) => packages[cmd[c].packages] = "partial"
               /\ CmdAt(c, "userspace", "record") \/ cmd[c].op = "bundle" =>
                    Inspected(packages[cmd[c].packages])
               /\ Fills(c) => bundles[cmd[c].bundle] = "partial"
               /\ Prepares(c) /\ ~Fills(c) /\ cmd[c].bundle # "none" => Inspected(bundles[cmd[c].bundle])
          /\ \A b, c \in Call : /\ Stages(b) /\ Stages(c) /\ cmd[b].packages = cmd[c].packages => b = c
                                /\ Fills(b) /\ Fills(c) /\ cmd[b].bundle = cmd[c].bundle => b = c

\* The files of a build, whose names are always the same.
BuiltOK ==
  Live => \A c \in Call :
    /\ CmdIn(c, "build", {"make", "copy"}) => built \in {"none", "partial"}
    /\ CmdIn(c, "build", {"release", "check", "record"}) /\ cmd[c].archive # NoArchive =>
         Inspected(built)

\* Of a session that ended nothing is left but what a build still makes.
EndedOK ==
  ~Live => /\ session = NoSession /\ named = {}
           /\ \A d \in Stamp : packages[d] = "none"
           /\ \A k \in BundleKind : bundles[k] = "none"

InputsIInv == /\ InputsTypeOK /\ CarriesOK /\ BoxOK /\ ResolvedOK /\ DownloadsOK /\ StagesOK
              /\ BuiltOK /\ EndedOK /\ InputsExact

\* The values that a step starts from are of their types.
LEMMA InputTypes ==
  /\ 0 \in Numbered /\ NoArchive \in AnyArchive /\ "none" \in AnyBundle
  /\ DriverArchive \subseteq AnyArchive /\ BundleKind \subseteq AnyBundle /\ Stamp \subseteq Numbered
  /\ NoArchive \notin DriverArchive /\ 0 \notin Stamp /\ "none" \notin BundleKind
  /\ NoCommand \in Command /\ NoInst \in Installed /\ NoSession \in Sessions /\ NoGuest \in Received
  <1>1. NoArchive \notin DriverArchive
    <2>1. NoArchive.kernel = "none" /\ \A a \in DriverArchive : a.kernel \in {"target", "other"}
      BY DEF NoArchive, DriverArchive
    <2> QED
      BY <2>1
  <1>2. 0 \notin Stamp /\ "none" \notin BundleKind
    BY InputBounds DEF BundleKind
  <1> QED
    BY <1>1, <1>2, InputBounds
       DEF Numbered, AnyArchive, AnyBundle, Command, NoCommand, Installed, NoInst, Sessions,
           NoSession, Resolved, NoRes, Received, NoGuest, State, Stage, Status, Kernel,
           Operations, Stations

\* What a selection comes to: a publication is one for the target's kernel.
LEMMA PickTypes ==
  \A s \in Picks : /\ s.version \in Nat /\ s.kernel \in Kernel
                   /\ s.status = "publication" => s.kernel = "target"
                   /\ s.version = 0 => s.status = "none"
  <1>1. ASSUME NEW r \in DriverRelease
        PROVE  LET s == Selected({r}) IN
                 /\ s.version \in Nat \ {0} /\ s.kernel \in Kernel
                 /\ s.status = "publication" => s.kernel = "target"
    <2>1. Newest({r}) = r
      <3>1. \E x \in {r} : \A o \in {r} : Before(o, x)
        BY DEF Before, DriverRelease
      <3> QED
        BY <3>1 DEF Newest
    <2>2. Compatible({r}) # {} => Compatible({r}) = {r} /\ r.kernel = "target"
      BY DEF Compatible
    <2>3. Nearest({r}) = {r}
      BY DEF Nearest, DriverRelease, Target
    <2>4. r.nvidia \in Nat \ {0}
      BY InputBounds DEF DriverRelease
    <2>5. CASE Compatible({r}) # {}
      BY <2>1, <2>2, <2>4, <2>5 DEF Selected, Kernel
    <2>6. CASE Compatible({r}) = {}
      BY <2>1, <2>3, <2>4, <2>6 DEF Selected, Plan, Kernel
    <2> QED
      BY <2>5, <2>6
  <1>2. ASSUME NEW s \in Branches \union {NoRelease}
        PROVE  /\ s.version \in Nat /\ s.kernel \in Kernel /\ s.status # "publication"
               /\ s.version = 0 => s.status = "none"
    BY InputBounds DEF Branches, Plan, NoRelease, Kernel
  <1> QED
    BY <1>1, <1>2 DEF Picks

\* An update of a command.
LEMMA CommandUpdates ==
  ASSUME NEW f \in [Call -> Command], NEW c \in Call, NEW l \in Stations
  PROVE  /\ [f EXCEPT ![c].at = l] \in [Call -> Command]
         /\ \A k \in Command : [f EXCEPT ![c] = k] \in [Call -> Command]
         /\ \A d \in Numbered, a \in AnyArchive :
              [f EXCEPT ![c].at = l, ![c].place = d, ![c].archive = a] \in [Call -> Command]
         /\ \A d \in Numbered : [f EXCEPT ![c].at = l, ![c].packages = d] \in [Call -> Command]
         /\ \A k \in AnyBundle : [f EXCEPT ![c].at = l, ![c].bundle = k] \in [Call -> Command]
         /\ \A a \in AnyArchive : [f EXCEPT ![c].at = l, ![c].archive = a] \in [Call -> Command]
  BY DEF Command

\* Every step keeps the types of the commands, the session, the box and the files.
CmdTyped == cmd \in [Call -> Command]
LEMMA CmdTypedStep == ASSUME InputsTypeOK, CarriesOK, [InputsNext]_inputVars PROVE CmdTyped'
  <1> USE InputTypes DEF Only, Refused, Over, Continue, BeginCommand, Conclude, CmdAt, CmdIn,
        Drop, Send, InputsTypeOK, CmdTyped, Command, Stations, Receive, Offered
  <1>1. ASSUME NEW c \in Call, Resolve(c) PROVE CmdTyped'
    <2>1. PICK s \in Picks : cmd' = [cmd EXCEPT ![c] =
            [NoCommand EXCEPT !.op = "resolve", !.version = s.version, !.kernel = s.kernel,
                              !.at = IF s.status = "publication" THEN "create" ELSE "record"]]
      BY <1>1 DEF Resolve
    <2>2. \A a \in {"create", "record"} :
            [NoCommand EXCEPT !.op = "resolve", !.version = s.version, !.kernel = s.kernel, !.at = a]
              \in Command
      BY InputTypes, PickTypes DEF Command, NoCommand, Operations, Stations
    <2> HIDE DEF Command
    <2>3. CASE s.status = "publication"
      <3>1. cmd' = [cmd EXCEPT ![c] = [NoCommand EXCEPT !.op = "resolve", !.version = s.version,
                                                        !.kernel = s.kernel, !.at = "create"]]
        BY <2>1, <2>3
      <3> QED
        BY <2>2, <3>1
    <2>4. CASE s.status # "publication"
      <3>1. cmd' = [cmd EXCEPT ![c] = [NoCommand EXCEPT !.op = "resolve", !.version = s.version,
                                                        !.kernel = s.kernel, !.at = "record"]]
        BY <2>1, <2>4
      <3> QED
        BY <2>2, <3>1
    <2> QED
      BY <2>3, <2>4
  <1>2. ASSUME NEW c \in Call, ResolveCreate(c) PROVE CmdTyped'
    <2> HIDE DEF Receive, Offered
    <2>1. PICK d \in Least(Stamp \ named), a \in Offered(c) : Receive(c, d, a)
      BY <1>2 DEF ResolveCreate
    <2>2. d \in Numbered /\ a \in AnyArchive
      BY <2>1 DEF Least, Offered
    <2>3. cmd' = [cmd EXCEPT ![c].at = "sidecars", ![c].place = d, ![c].archive = a]
      BY <2>1 DEF Receive
    <2>4. "sidecars" \in Stations /\ cmd \in [Call -> Command]
      OBVIOUS
    <2> HIDE DEF Command, Stations
    <2> QED
      BY <2>2, <2>3, <2>4, CommandUpdates
  <1>3. ASSUME NEW c \in Call, Downloaded(c) PROVE CmdTyped'
    <2>1. After[cmd[c].at] \in Stations
      BY <1>3 DEF Downloaded, After, Part
    <2>2. cmd' = [cmd EXCEPT ![c].at = After[cmd[c].at]]
      BY <1>3 DEF Downloaded
    <2> QED
      BY <2>1, <2>2
  <1>4. ASSUME NEW c \in Call, ResolveCheck(c) PROVE CmdTyped'
    BY <1>4, SMTT(20) DEF ResolveCheck
  <1>5. ASSUME NEW c \in Call, ResolveFail(c) PROVE CmdTyped'
    BY <1>5, SMTT(20) DEF ResolveFail
  <1>6. ASSUME NEW c \in Call, ResolveEnd(c) PROVE CmdTyped'
    BY <1>6, SMTT(20) DEF ResolveEnd
  <1>7. ASSUME NEW c \in Call, Userspace(c) PROVE CmdTyped'
    <2>1. [NoCommand EXCEPT !.op = "userspace", !.at = "bundle", !.version = session.res.version,
                            !.bundle = session.bundle] \in Command
      BY InputTypes DEF InputsTypeOK, Sessions, Resolved, Command, NoCommand, Operations,
         Stations, Kernel
    <2>2. cmd' = [cmd EXCEPT ![c] =
            [NoCommand EXCEPT !.op = "userspace", !.at = "bundle", !.version = session.res.version,
                            !.bundle = session.bundle]]
      BY <1>7 DEF Userspace, BeginCommand
    <2> HIDE DEF Command
    <2> QED
      BY <2>1, <2>2
  <1>8. ASSUME NEW c \in Call, Bundle(c) PROVE CmdTyped'
    <2>1. [NoCommand EXCEPT !.op = "bundle", !.at = "bundle", !.version = session.res.version,
                            !.packages = session.packages, !.bundle = session.bundle] \in Command
      BY InputTypes DEF InputsTypeOK, Sessions, Resolved, Command, NoCommand, Operations,
         Stations, Kernel
    <2>2. cmd' = [cmd EXCEPT ![c] =
            [NoCommand EXCEPT !.op = "bundle", !.at = "bundle", !.version = session.res.version,
                            !.packages = session.packages, !.bundle = session.bundle]]
      BY <1>8 DEF Bundle, BeginCommand
    <2> HIDE DEF Command
    <2> QED
      BY <2>1, <2>2
  <1>9. ASSUME NEW c \in Call, BundleKept(c) PROVE CmdTyped'
    BY <1>9, SMTT(20) DEF BundleKept
  <1>10. ASSUME NEW c \in Call, AcquireBundle(c) PROVE CmdTyped'
    BY <1>10, SMTT(20) DEF AcquireBundle
  <1>11. ASSUME NEW c \in Call, Fill(c) PROVE CmdTyped'
    BY <1>11, SMTT(20) DEF Fill
  <1>12. ASSUME NEW c \in Call, UserspaceBundle(c) PROVE CmdTyped'
    BY <1>12, SMTT(20) DEF UserspaceBundle
  <1>13. ASSUME NEW c \in Call, UserspaceCreate(c) PROVE CmdTyped'
    <2>1. \/ cmd' = [cmd EXCEPT ![c] = NoCommand]
          \/ \E d \in Numbered : cmd' = [cmd EXCEPT ![c].at = "stage", ![c].packages = d]
      BY <1>13 DEF UserspaceCreate, Least
    <2> QED
      BY <2>1
  <1>14. ASSUME NEW c \in Call, UserspaceStage(c) PROVE CmdTyped'
    BY <1>14, SMTT(20) DEF UserspaceStage
  <1>15. ASSUME NEW c \in Call, UserspaceEnd(c) PROVE CmdTyped'
    BY <1>15, SMTT(20) DEF UserspaceEnd
  <1>16. ASSUME NEW c \in Call, BundleClosure(c) PROVE CmdTyped'
    BY <1>16, SMTT(20) DEF BundleClosure
  <1>17. ASSUME NEW c \in Call, BundleEnd(c) PROVE CmdTyped'
    BY <1>17, SMTT(20) DEF BundleEnd
  <1>18. ASSUME NEW c \in Call, Build(c) PROVE CmdTyped'
    <2>1. [NoCommand EXCEPT !.op = "build", !.at = "claim", !.version = session.res.version,
                            !.kernel = "target"] \in Command
      BY InputTypes DEF InputsTypeOK, Sessions, Resolved, Command, NoCommand, Operations,
         Stations, Kernel
    <2>2. cmd' = [cmd EXCEPT ![c] =
            [NoCommand EXCEPT !.op = "build", !.at = "claim", !.version = session.res.version,
                            !.kernel = "target"]]
      BY <1>18 DEF Build, BeginCommand
    <2> HIDE DEF Command
    <2> QED
      BY <2>1, <2>2
  <1>19. ASSUME NEW c \in Call, Claim(c) PROVE CmdTyped'
    <2>0. CmdAt(c, cmd[c].op, "claim") => cmd[c].op \in {"build", "validate", "install"}
      BY DEF CarriesOK, Carries
    <2>1. \/ cmd' = [cmd EXCEPT ![c] = NoCommand]
          \/ \E l \in Stations : cmd' = [cmd EXCEPT ![c].at = l]
      BY <1>19, <2>0 DEF Claim, Begins
    <2> QED
      BY <2>1
  <1>20. ASSUME NEW c \in Call, BuildSetup(c) PROVE CmdTyped'
    BY <1>20, SMTT(20) DEF BuildSetup
  <1>21. ASSUME NEW c \in Call, BuildMake(c) PROVE CmdTyped'
    BY <1>21, SMTT(20) DEF BuildMake
  <1>22. ASSUME NEW c \in Call, BuildCopy(c) PROVE CmdTyped'
    BY <1>22, SMTT(20) DEF BuildCopy
  <1>23. ASSUME NEW c \in Call, BuildRelease(c) PROVE CmdTyped'
    BY <1>23, SMTT(20) DEF BuildRelease
  <1>24. ASSUME NEW c \in Call, BuildCheck(c) PROVE CmdTyped'
    BY <1>24, SMTT(20) DEF BuildCheck
  <1>25. ASSUME NEW c \in Call, BuildEnd(c) PROVE CmdTyped'
    BY <1>25, SMTT(20) DEF BuildEnd
  <1>26. ASSUME NEW c \in Call, Validate(c) PROVE CmdTyped'
    <2>1. Inputs(c, "validate") \in Command
      BY InputTypes DEF InputsTypeOK, Sessions, Resolved, Command, NoCommand, Operations,
         Stations, Kernel, Inputs
    <2>2. cmd' = [cmd EXCEPT ![c] = Inputs(c, "validate")]
      BY <1>26 DEF Validate, BeginCommand
    <2> HIDE DEF Command
    <2> QED
      BY <2>1, <2>2
  <1>27. ASSUME NEW c \in Call, Package(c) PROVE CmdTyped'
    BY <1>27, SMTT(20) DEF Package
  <1>28. ASSUME NEW c \in Call, SendArchive(c) PROVE CmdTyped'
    BY <1>28, SMTT(20) DEF SendArchive
  <1>29. ASSUME NEW c \in Call, SendPackages(c) PROVE CmdTyped'
    BY <1>29, SMTT(20) DEF SendPackages
  <1>30. ASSUME NEW c \in Call, ValidateWork(c) PROVE CmdTyped'
    BY <1>30, SMTT(20) DEF ValidateWork
  <1>31. ASSUME NEW c \in Call, ValidateEnd(c) PROVE CmdTyped'
    BY <1>31, SMTT(20) DEF ValidateEnd
  <1>32. ASSUME NEW c \in Call, Install(c) PROVE CmdTyped'
    <2>1. Inputs(c, "install") \in Command
      BY InputTypes DEF InputsTypeOK, Sessions, Resolved, Command, NoCommand, Operations,
         Stations, Kernel, Inputs
    <2>2. cmd' = [cmd EXCEPT ![c] = Inputs(c, "install")]
      BY <1>32 DEF Install, BeginCommand
    <2> HIDE DEF Command
    <2> QED
      BY <2>1, <2>2
  <1>33. ASSUME NEW c \in Call, InstallWork(c) PROVE CmdTyped'
    BY <1>33, SMTT(20) DEF InstallWork
  <1>34. ASSUME NEW c \in Call, InstallEnd(c) PROVE CmdTyped'
    BY <1>34, SMTT(20) DEF InstallEnd
  <1>35. CASE HandOff
    BY <1>35, SMTT(20) DEF HandOff
  <1>36. CASE FileChanged
    BY <1>36, SMTT(20) DEF FileChanged
  <1>37. CASE SessionEnds
    BY <1>37, SMTT(20) DEF SessionEnds
  <1>38. CASE UNCHANGED inputVars
    BY <1>38, SMTT(20) DEF inputVars
  <1> QED
        BY <1>1, <1>2, <1>3, <1>4, <1>5, <1>6, <1>7, <1>8, <1>9, <1>10, <1>11, <1>12, <1>13,
       <1>14, <1>15, <1>16, <1>17, <1>18, <1>19, <1>20, <1>21, <1>22, <1>23, <1>24, <1>25,
       <1>26, <1>27, <1>28, <1>29, <1>30, <1>31, <1>32, <1>33, <1>34, <1>35, <1>36, <1>37, <1>38
       DEF InputsNext, CommandStep

SessionTyped == session \in Sessions
LEMMA SessionTypedStep ==
  ASSUME InputsTypeOK, CarriesOK, [InputsNext]_inputVars
  PROVE  SessionTyped'
  <1> USE InputTypes DEF Only, Refused, Over, Continue, BeginCommand, Drop, Send, CmdAt, CmdIn,
        InputsTypeOK, SessionTyped, Sessions, Stage, Command, Resolved, Status, Live
  <1>1. ASSUME NEW c \in Call, Resolve(c) PROVE SessionTyped'
    BY <1>1, SMTT(20) DEF Resolve
  <1>2. ASSUME NEW c \in Call, ResolveCreate(c) PROVE SessionTyped'
    BY <1>2, SMTT(20) DEF ResolveCreate
  <1>3. ASSUME NEW c \in Call, Downloaded(c) PROVE SessionTyped'
    BY <1>3, SMTT(20) DEF Downloaded
  <1>4. ASSUME NEW c \in Call, ResolveCheck(c) PROVE SessionTyped'
    BY <1>4, SMTT(20) DEF ResolveCheck
  <1>5. ASSUME NEW c \in Call, ResolveFail(c) PROVE SessionTyped'
    BY <1>5, SMTT(20) DEF ResolveFail
  <1>6. ASSUME NEW c \in Call, ResolveEnd(c) PROVE SessionTyped'
    <2>0. Found(c) \in Resolved
      BY DEF Found
    <2>1. Renewed(Found(c)) \in Sessions
      BY <1>6, <2>0 DEF ResolveEnd, Renewed
    <2>2. session' = Renewed(Found(c)) \/ session' = session
      BY <1>6 DEF ResolveEnd, Conclude
    <2> HIDE DEF Sessions
    <2> QED
      BY <2>1, <2>2
  <1>7. ASSUME NEW c \in Call, Userspace(c) PROVE SessionTyped'
    BY <1>7, SMTT(20) DEF Userspace
  <1>8. ASSUME NEW c \in Call, Bundle(c) PROVE SessionTyped'
    BY <1>8, SMTT(20) DEF Bundle
  <1>9. ASSUME NEW c \in Call, BundleKept(c) PROVE SessionTyped'
    BY <1>9, SMTT(20) DEF BundleKept
  <1>10. ASSUME NEW c \in Call, AcquireBundle(c) PROVE SessionTyped'
    BY <1>10, SMTT(20) DEF AcquireBundle
  <1>11. ASSUME NEW c \in Call, Fill(c) PROVE SessionTyped'
    BY <1>11, SMTT(20) DEF Fill
  <1>12. ASSUME NEW c \in Call, UserspaceBundle(c) PROVE SessionTyped'
    BY <1>12, SMTT(20) DEF UserspaceBundle
  <1>13. ASSUME NEW c \in Call, UserspaceCreate(c) PROVE SessionTyped'
    BY <1>13, SMTT(20) DEF UserspaceCreate
  <1>14. ASSUME NEW c \in Call, UserspaceStage(c) PROVE SessionTyped'
    BY <1>14, SMTT(20) DEF UserspaceStage
  <1>15. ASSUME NEW c \in Call, UserspaceEnd(c) PROVE SessionTyped'
    <2>1. [session EXCEPT !.packages = cmd[c].packages, !.bundle = cmd[c].bundle,
                               !.valid = FALSE, !.inst = NoInst] \in Sessions
      BY <1>15 DEF UserspaceEnd
    <2>2. session' = [session EXCEPT !.packages = cmd[c].packages, !.bundle = cmd[c].bundle,
                               !.valid = FALSE, !.inst = NoInst] \/ session' = session
      BY <1>15 DEF UserspaceEnd, Conclude
    <2> HIDE DEF Sessions
    <2> QED
      BY <2>1, <2>2
  <1>16. ASSUME NEW c \in Call, BundleClosure(c) PROVE SessionTyped'
    BY <1>16, SMTT(20) DEF BundleClosure
  <1>17. ASSUME NEW c \in Call, BundleEnd(c) PROVE SessionTyped'
    <2>1. [session EXCEPT !.bundle = cmd[c].bundle,
                               !.packages = IF @ = 0 THEN 0 ELSE cmd[c].packages] \in Sessions
      BY <1>17 DEF BundleEnd
    <2>2. session' = [session EXCEPT !.bundle = cmd[c].bundle,
                               !.packages = IF @ = 0 THEN 0 ELSE cmd[c].packages]
          \/ session' = session
      BY <1>17 DEF BundleEnd, Conclude
    <2> HIDE DEF Sessions
    <2> QED
      BY <2>1, <2>2
  <1>18. ASSUME NEW c \in Call, Build(c) PROVE SessionTyped'
    BY <1>18, SMTT(20) DEF Build
  <1>19. ASSUME NEW c \in Call, Claim(c) PROVE SessionTyped'
    BY <1>19, SMTT(20) DEF Claim
  <1>20. ASSUME NEW c \in Call, BuildSetup(c) PROVE SessionTyped'
    BY <1>20, SMTT(20) DEF BuildSetup
  <1>21. ASSUME NEW c \in Call, BuildMake(c) PROVE SessionTyped'
    BY <1>21, SMTT(20) DEF BuildMake
  <1>22. ASSUME NEW c \in Call, BuildCopy(c) PROVE SessionTyped'
    BY <1>22, SMTT(20) DEF BuildCopy
  <1>23. ASSUME NEW c \in Call, BuildRelease(c) PROVE SessionTyped'
    BY <1>23, SMTT(20) DEF BuildRelease
  <1>24. ASSUME NEW c \in Call, BuildCheck(c) PROVE SessionTyped'
    BY <1>24, SMTT(20) DEF BuildCheck
  <1>25. ASSUME NEW c \in Call, BuildEnd(c) PROVE SessionTyped'
    <2>0. Found(c) \in Resolved
      BY DEF Found
    <2>1. Renewed(Found(c)) \in Sessions
      BY <1>25, <2>0 DEF BuildEnd, Renewed
    <2>2. session' = Renewed(Found(c)) \/ session' = session
      BY <1>25 DEF BuildEnd, Conclude
    <2> HIDE DEF Sessions
    <2> QED
      BY <2>1, <2>2
  <1>26. ASSUME NEW c \in Call, Validate(c) PROVE SessionTyped'
    BY <1>26, SMTT(20) DEF Validate
  <1>27. ASSUME NEW c \in Call, Package(c) PROVE SessionTyped'
    BY <1>27, SMTT(20) DEF Package
  <1>28. ASSUME NEW c \in Call, SendArchive(c) PROVE SessionTyped'
    BY <1>28, SMTT(20) DEF SendArchive
  <1>29. ASSUME NEW c \in Call, SendPackages(c) PROVE SessionTyped'
    BY <1>29, SMTT(20) DEF SendPackages
  <1>30. ASSUME NEW c \in Call, ValidateWork(c) PROVE SessionTyped'
    BY <1>30, SMTT(20) DEF ValidateWork
  <1>31. ASSUME NEW c \in Call, ValidateEnd(c) PROVE SessionTyped'
    <2>1. [session EXCEPT !.state = "handoff-validated", !.valid = TRUE] \in Sessions
      BY <1>31 DEF ValidateEnd
    <2>2. session' = [session EXCEPT !.state = "handoff-validated", !.valid = TRUE]
          \/ session' = session
      BY <1>31 DEF ValidateEnd, Conclude
    <2> HIDE DEF Sessions
    <2> QED
      BY <2>1, <2>2
  <1>32. ASSUME NEW c \in Call, Install(c) PROVE SessionTyped'
    BY <1>32, SMTT(20) DEF Install
  <1>33. ASSUME NEW c \in Call, InstallWork(c) PROVE SessionTyped'
    BY <1>33, SMTT(20) DEF InstallWork
  <1>34. ASSUME NEW c \in Call, InstallEnd(c) PROVE SessionTyped'
    <2>1. [session EXCEPT !.state = "nvidia-installed",
                  !.inst = [said |-> cmd[c].archive, used |-> box.guest.archive,
                            whole |-> box.guest.whole, bundle |-> box.guest.bundle]] \in Sessions
      BY <1>34 DEF InstallEnd, Installed, Box, Received
    <2>2. session' = [session EXCEPT !.state = "nvidia-installed",
                  !.inst = [said |-> cmd[c].archive, used |-> box.guest.archive,
                            whole |-> box.guest.whole, bundle |-> box.guest.bundle]]
          \/ session' = session
      BY <1>34 DEF InstallEnd, Conclude
    <2> HIDE DEF Sessions
    <2> QED
      BY <2>1, <2>2
  <1>35. CASE HandOff
    BY <1>35, SMTT(20) DEF HandOff
  <1>36. CASE FileChanged
    BY <1>36, SMTT(20) DEF FileChanged
  <1>37. CASE SessionEnds
    BY <1>37, SMTT(20) DEF SessionEnds
  <1>38. CASE UNCHANGED inputVars
    BY <1>38, SMTT(20) DEF inputVars
  <1> QED
        BY <1>1, <1>2, <1>3, <1>4, <1>5, <1>6, <1>7, <1>8, <1>9, <1>10, <1>11, <1>12, <1>13,
       <1>14, <1>15, <1>16, <1>17, <1>18, <1>19, <1>20, <1>21, <1>22, <1>23, <1>24, <1>25,
       <1>26, <1>27, <1>28, <1>29, <1>30, <1>31, <1>32, <1>33, <1>34, <1>35, <1>36, <1>37, <1>38
       DEF InputsNext, CommandStep

BoxTyped == box \in Box
LEMMA BoxTypedStep == ASSUME InputsTypeOK, CarriesOK, [InputsNext]_inputVars PROVE BoxTyped'
  <1> USE InputTypes DEF Only, Refused, Over, Continue, BeginCommand, Drop, Send, Conclude,
        InputsTypeOK, BoxTyped, Box, BoxStage, Received, Command, FilesTyped
  <1>1. ASSUME NEW c \in Call, Resolve(c) PROVE BoxTyped'
    BY <1>1, SMTT(20) DEF Resolve
  <1>2. ASSUME NEW c \in Call, ResolveCreate(c) PROVE BoxTyped'
    BY <1>2, SMTT(20) DEF ResolveCreate
  <1>3. ASSUME NEW c \in Call, Downloaded(c) PROVE BoxTyped'
    BY <1>3, SMTT(20) DEF Downloaded
  <1>4. ASSUME NEW c \in Call, ResolveCheck(c) PROVE BoxTyped'
    BY <1>4, SMTT(20) DEF ResolveCheck
  <1>5. ASSUME NEW c \in Call, ResolveFail(c) PROVE BoxTyped'
    BY <1>5, SMTT(20) DEF ResolveFail
  <1>6. ASSUME NEW c \in Call, ResolveEnd(c) PROVE BoxTyped'
    BY <1>6, SMTT(20) DEF ResolveEnd
  <1>7. ASSUME NEW c \in Call, Userspace(c) PROVE BoxTyped'
    BY <1>7, SMTT(20) DEF Userspace
  <1>8. ASSUME NEW c \in Call, Bundle(c) PROVE BoxTyped'
    BY <1>8, SMTT(20) DEF Bundle
  <1>9. ASSUME NEW c \in Call, BundleKept(c) PROVE BoxTyped'
    BY <1>9, SMTT(20) DEF BundleKept
  <1>10. ASSUME NEW c \in Call, AcquireBundle(c) PROVE BoxTyped'
    BY <1>10, SMTT(20) DEF AcquireBundle
  <1>11. ASSUME NEW c \in Call, Fill(c) PROVE BoxTyped'
    BY <1>11, SMTT(20) DEF Fill
  <1>12. ASSUME NEW c \in Call, UserspaceBundle(c) PROVE BoxTyped'
    BY <1>12, SMTT(20) DEF UserspaceBundle
  <1>13. ASSUME NEW c \in Call, UserspaceCreate(c) PROVE BoxTyped'
    BY <1>13, SMTT(20) DEF UserspaceCreate
  <1>14. ASSUME NEW c \in Call, UserspaceStage(c) PROVE BoxTyped'
    BY <1>14, SMTT(20) DEF UserspaceStage
  <1>15. ASSUME NEW c \in Call, UserspaceEnd(c) PROVE BoxTyped'
    BY <1>15, SMTT(20) DEF UserspaceEnd
  <1>16. ASSUME NEW c \in Call, BundleClosure(c) PROVE BoxTyped'
    BY <1>16, SMTT(20) DEF BundleClosure
  <1>17. ASSUME NEW c \in Call, BundleEnd(c) PROVE BoxTyped'
    BY <1>17, SMTT(20) DEF BundleEnd
  <1>18. ASSUME NEW c \in Call, Build(c) PROVE BoxTyped'
    BY <1>18, SMTT(20) DEF Build
  <1>19. ASSUME NEW c \in Call, Claim(c) PROVE BoxTyped'
    <2>1. \E s \in BoxStage : box' = [box EXCEPT !.state = s] \/ UNCHANGED box
      BY <1>19 DEF Claim, Claims, CmdAt, CarriesOK, Carries
    <2> QED
      BY <2>1
  <1>20. ASSUME NEW c \in Call, BuildSetup(c) PROVE BoxTyped'
    BY <1>20, SMTT(20) DEF BuildSetup
  <1>21. ASSUME NEW c \in Call, BuildMake(c) PROVE BoxTyped'
    BY <1>21, SMTT(20) DEF BuildMake
  <1>22. ASSUME NEW c \in Call, BuildCopy(c) PROVE BoxTyped'
    BY <1>22, SMTT(20) DEF BuildCopy
  <1>23. ASSUME NEW c \in Call, BuildRelease(c) PROVE BoxTyped'
    BY <1>23, SMTT(20) DEF BuildRelease
  <1>24. ASSUME NEW c \in Call, BuildCheck(c) PROVE BoxTyped'
    BY <1>24, SMTT(20) DEF BuildCheck
  <1>25. ASSUME NEW c \in Call, BuildEnd(c) PROVE BoxTyped'
    BY <1>25, SMTT(20) DEF BuildEnd
  <1>26. ASSUME NEW c \in Call, Validate(c) PROVE BoxTyped'
    BY <1>26, SMTT(20) DEF Validate
  <1>27. ASSUME NEW c \in Call, Package(c) PROVE BoxTyped'
    <2>1. cmd[c].bundle \in BundleKind
      BY <1>27 DEF Package, CmdAt, CarriesOK, Carries, AnyBundle
    <2>2. [NoGuest EXCEPT !.bundle = bundles[cmd[c].bundle]] \in Received
      BY <2>1 DEF NoGuest
    <2>3. \/ box' = [box EXCEPT !.state = "gone"]
          \/ box' = [box EXCEPT !.guest = [NoGuest EXCEPT !.bundle = bundles[cmd[c].bundle]]]
      BY <1>27 DEF Package
    <2> HIDE DEF Received
    <2> QED
      BY <2>2, <2>3
  <1>28. ASSUME NEW c \in Call, SendArchive(c) PROVE BoxTyped'
    <2>1. CASE box' = [box EXCEPT !.state = "gone"]
      BY <2>1
    <2>2. ASSUME NEW s \in BOOLEAN, NEW a \in AnyArchive,
                 box' = [box EXCEPT !.sum = a, !.guest.archive = a, !.guest.whole = s]
          PROVE  BoxTyped'
      BY <2>2
    <2>3. Sound(cmd[c].place) \in BOOLEAN /\ cmd[c].archive \in AnyArchive
      BY DEF Sound
    <2> HIDE DEF Sound, BoxTyped
    <2> QED
      BY <1>28, <2>1, <2>2, <2>3 DEF SendArchive
  <1>29. ASSUME NEW c \in Call, SendPackages(c) PROVE BoxTyped'
    <2>1. [box.guest EXCEPT !.whole = box.guest.whole /\ packages[cmd[c].packages] = "whole"]
            \in Received
      OBVIOUS
    <2>2. box' = [box EXCEPT !.state = "gone"] \/ \E g \in Received : box' = [box EXCEPT !.guest = g]
      BY <1>29, <2>1 DEF SendPackages
    <2> HIDE DEF Received
    <2> QED
      BY <2>2
  <1>30. ASSUME NEW c \in Call, ValidateWork(c) PROVE BoxTyped'
    <2>1. \E s \in BoxStage : box' = [box EXCEPT !.state = s] \/ UNCHANGED box
      BY <1>30 DEF ValidateWork
    <2> QED
      BY <2>1
  <1>31. ASSUME NEW c \in Call, ValidateEnd(c) PROVE BoxTyped'
    BY <1>31, SMTT(20) DEF ValidateEnd
  <1>32. ASSUME NEW c \in Call, Install(c) PROVE BoxTyped'
    BY <1>32, SMTT(20) DEF Install
  <1>33. ASSUME NEW c \in Call, InstallWork(c) PROVE BoxTyped'
    BY <1>33, SMTT(20) DEF InstallWork
  <1>34. ASSUME NEW c \in Call, InstallEnd(c) PROVE BoxTyped'
    BY <1>34, SMTT(20) DEF InstallEnd
  <1>35. CASE HandOff
    BY <1>35, SMTT(20) DEF HandOff
  <1>36. CASE FileChanged
    BY <1>36, SMTT(20) DEF FileChanged
  <1>37. CASE SessionEnds
    BY <1>37, SMTT(20) DEF SessionEnds
  <1>38. CASE UNCHANGED inputVars
    BY <1>38, SMTT(20) DEF inputVars
  <1> QED
        BY <1>1, <1>2, <1>3, <1>4, <1>5, <1>6, <1>7, <1>8, <1>9, <1>10, <1>11, <1>12, <1>13,
       <1>14, <1>15, <1>16, <1>17, <1>18, <1>19, <1>20, <1>21, <1>22, <1>23, <1>24, <1>25,
       <1>26, <1>27, <1>28, <1>29, <1>30, <1>31, <1>32, <1>33, <1>34, <1>35, <1>36, <1>37, <1>38
       DEF InputsNext, CommandStep

LEMMA FilesTypedStep == ASSUME InputsTypeOK, CarriesOK, [InputsNext]_inputVars PROVE FilesTyped'
  <1> USE InputTypes DEF Only, Refused, Over, Continue, BeginCommand, Drop, Send, Conclude,
        CmdAt, CmdIn, Prepares, InputsTypeOK, FilesTyped, Command, State, Part, inputFiles
  <1>1. ASSUME NEW c \in Call, Resolve(c) PROVE FilesTyped'
    BY <1>1, SMTT(20) DEF Resolve
  <1>2. ASSUME NEW c \in Call, ResolveCreate(c) PROVE FilesTyped'
    <2>1. PICK d \in Least(Stamp \ named), a \in Offered(c) : Receive(c, d, a)
      BY <1>2 DEF ResolveCreate
    <2>2. d \in Stamp
      BY <2>1 DEF Least
    <2>3. named' = named \union {d} /\ pub' = [pub EXCEPT ![d]["sidecars"] = "partial"]
          /\ UNCHANGED <<packages, bundles, built>>
      BY <1>2, <2>1 DEF Receive, ResolveCreate
    <2> QED
      BY <2>2, <2>3
  <1>3. ASSUME NEW c \in Call, Downloaded(c) PROVE FilesTyped'
    <2>1. cmd[c].at \in Part /\ UNCHANGED <<named, packages, bundles, built>>
      BY <1>3 DEF Downloaded
    <2>2. [f \in Part |-> IF f = cmd[c].at THEN "whole" ELSE IF f = After[cmd[c].at] THEN "partial"
                          ELSE pub[cmd[c].place][f]] \in [Part -> State]
      BY <1>3 DEF Downloaded, CarriesOK, Carries, Numbered
    <2> QED
      BY <1>3, <2>1, <2>2 DEF Downloaded
  <1>4. ASSUME NEW c \in Call, ResolveCheck(c) PROVE FilesTyped'
    BY <1>4, SMTT(20) DEF ResolveCheck
  <1>5. ASSUME NEW c \in Call, ResolveFail(c) PROVE FilesTyped'
    <2>1. pub' = pub \/ pub' = Emptied(cmd[c].place)
      BY <1>5 DEF ResolveFail
    <2>2. Emptied(cmd[c].place) \in [Stamp -> [Part -> State]]
      BY DEF Emptied
    <2> QED
      BY <1>5, <2>1, <2>2 DEF ResolveFail
  <1>6. ASSUME NEW c \in Call, ResolveEnd(c) PROVE FilesTyped'
    BY <1>6, SMTT(20) DEF ResolveEnd
  <1>7. ASSUME NEW c \in Call, Userspace(c) PROVE FilesTyped'
    BY <1>7, SMTT(20) DEF Userspace
  <1>8. ASSUME NEW c \in Call, Bundle(c) PROVE FilesTyped'
    BY <1>8, SMTT(20) DEF Bundle
  <1>9. ASSUME NEW c \in Call, BundleKept(c) PROVE FilesTyped'
    BY <1>9, SMTT(20) DEF BundleKept
  <1>10. ASSUME NEW c \in Call, AcquireBundle(c) PROVE FilesTyped'
    BY <1>10, SMTT(20) DEF AcquireBundle
  <1>11. ASSUME NEW c \in Call, Fill(c) PROVE FilesTyped'
    BY <1>11, SMTT(20) DEF Fill
  <1>12. ASSUME NEW c \in Call, UserspaceBundle(c) PROVE FilesTyped'
    BY <1>12, SMTT(20) DEF UserspaceBundle
  <1>13. ASSUME NEW c \in Call, UserspaceCreate(c) PROVE FilesTyped'
    <2>1. \/ UNCHANGED packages
          \/ \E d \in Stamp : packages' = [packages EXCEPT ![d] = "partial"]
      BY <1>13 DEF UserspaceCreate, Least
    <2>2. UNCHANGED <<pub, named, bundles, built>>
      BY <1>13 DEF UserspaceCreate
    <2> QED
      BY <2>1, <2>2
  <1>14. ASSUME NEW c \in Call, UserspaceStage(c) PROVE FilesTyped'
    <2>1. cmd[c].bundle \in BundleKind
      BY <1>14 DEF UserspaceStage, CarriesOK, Carries, AnyBundle
    <2> QED
      BY <1>14, <2>1 DEF UserspaceStage
  <1>15. ASSUME NEW c \in Call, UserspaceEnd(c) PROVE FilesTyped'
    BY <1>15, SMTT(20) DEF UserspaceEnd
  <1>16. ASSUME NEW c \in Call, BundleClosure(c) PROVE FilesTyped'
    BY <1>16, SMTT(20) DEF BundleClosure
  <1>17. ASSUME NEW c \in Call, BundleEnd(c) PROVE FilesTyped'
    BY <1>17, SMTT(20) DEF BundleEnd
  <1>18. ASSUME NEW c \in Call, Build(c) PROVE FilesTyped'
    BY <1>18, SMTT(20) DEF Build
  <1>19. ASSUME NEW c \in Call, Claim(c) PROVE FilesTyped'
    BY <1>19, SMTT(20) DEF Claim
  <1>20. ASSUME NEW c \in Call, BuildSetup(c) PROVE FilesTyped'
    BY <1>20, SMTT(20) DEF BuildSetup
  <1>21. ASSUME NEW c \in Call, BuildMake(c) PROVE FilesTyped'
    BY <1>21, SMTT(20) DEF BuildMake
  <1>22. ASSUME NEW c \in Call, BuildCopy(c) PROVE FilesTyped'
    BY <1>22, SMTT(20) DEF BuildCopy
  <1>23. ASSUME NEW c \in Call, BuildRelease(c) PROVE FilesTyped'
    BY <1>23, SMTT(20) DEF BuildRelease
  <1>24. ASSUME NEW c \in Call, BuildCheck(c) PROVE FilesTyped'
    BY <1>24, SMTT(20) DEF BuildCheck
  <1>25. ASSUME NEW c \in Call, BuildEnd(c) PROVE FilesTyped'
    BY <1>25, SMTT(20) DEF BuildEnd
  <1>26. ASSUME NEW c \in Call, Validate(c) PROVE FilesTyped'
    BY <1>26, SMTT(20) DEF Validate
  <1>27. ASSUME NEW c \in Call, Package(c) PROVE FilesTyped'
    BY <1>27, SMTT(20) DEF Package
  <1>28. ASSUME NEW c \in Call, SendArchive(c) PROVE FilesTyped'
    BY <1>28, SMTT(20) DEF SendArchive
  <1>29. ASSUME NEW c \in Call, SendPackages(c) PROVE FilesTyped'
    BY <1>29, SMTT(20) DEF SendPackages
  <1>30. ASSUME NEW c \in Call, ValidateWork(c) PROVE FilesTyped'
    BY <1>30, SMTT(20) DEF ValidateWork
  <1>31. ASSUME NEW c \in Call, ValidateEnd(c) PROVE FilesTyped'
    BY <1>31, SMTT(20) DEF ValidateEnd
  <1>32. ASSUME NEW c \in Call, Install(c) PROVE FilesTyped'
    BY <1>32, SMTT(20) DEF Install
  <1>33. ASSUME NEW c \in Call, InstallWork(c) PROVE FilesTyped'
    BY <1>33, SMTT(20) DEF InstallWork
  <1>34. ASSUME NEW c \in Call, InstallEnd(c) PROVE FilesTyped'
    BY <1>34, SMTT(20) DEF InstallEnd
  <1>35. CASE HandOff
    BY <1>35, SMTT(20) DEF HandOff
  <1>36. CASE FileChanged
    BY <1>36, SMTT(20) DEF FileChanged
  <1>37. CASE SessionEnds
    BY <1>37, SMTT(20) DEF SessionEnds
  <1>38. CASE UNCHANGED inputVars
    BY <1>38, SMTT(20) DEF inputVars
  <1> QED
        BY <1>1, <1>2, <1>3, <1>4, <1>5, <1>6, <1>7, <1>8, <1>9, <1>10, <1>11, <1>12, <1>13,
       <1>14, <1>15, <1>16, <1>17, <1>18, <1>19, <1>20, <1>21, <1>22, <1>23, <1>24, <1>25,
       <1>26, <1>27, <1>28, <1>29, <1>30, <1>31, <1>32, <1>33, <1>34, <1>35, <1>36, <1>37, <1>38
       DEF InputsNext, CommandStep

\* What a step does to the command that it is a step of, and to the others.
Advanced(c, l) == /\ cmd'[c].at = l /\ cmd'[c].op = cmd[c].op
                  /\ cmd'[c].version = cmd[c].version /\ cmd'[c].kernel = cmd[c].kernel
Carried(c)    == /\ cmd'[c].archive = cmd[c].archive /\ cmd'[c].place = cmd[c].place
                 /\ cmd'[c].packages = cmd[c].packages /\ cmd'[c].bundle = cmd[c].bundle
OthersStay(c) == \A b \in Call \ {c} : cmd'[b] = cmd[b]

LEMMA CommandEffects ==
  ASSUME cmd \in [Call -> Command]
  PROVE  \A c \in Call :
           /\ Over(c) => cmd'[c] = NoCommand /\ OthersStay(c)
           /\ \A l : Continue(c, l) => Advanced(c, l) /\ Carried(c) /\ OthersStay(c)
           /\ \A k : BeginCommand(c, k) => cmd'[c] = k /\ OthersStay(c)
  BY DEF Over, Continue, BeginCommand, Advanced, Carried, OthersStay, Command

\* In these terms, what the steps do that change more than a place.
LEMMA ResolveDoes ==
  ASSUME cmd \in [Call -> Command], NEW c \in Call, Resolve(c)
  PROVE  /\ OthersStay(c) /\ UNCHANGED <<session, box, inputFiles>>
         /\ cmd'[c].op = "resolve" /\ cmd'[c].archive = NoArchive /\ cmd'[c].place = 0
         /\ cmd'[c].bundle = "none" /\ cmd'[c].packages = 0
         /\ \/ cmd'[c].at = "create" /\ cmd'[c].kernel = "target"
            \/ cmd'[c].at = "record"
  <1>1. PICK s \in Picks : BeginCommand(c,
          [NoCommand EXCEPT !.op = "resolve", !.version = s.version, !.kernel = s.kernel,
                            !.at = IF s.status = "publication" THEN "create" ELSE "record"])
    BY DEF Resolve
  <1>2. s.status = "publication" => s.kernel = "target"
    BY <1>1, PickTypes
  <1> QED
    BY <1>1, <1>2, CommandEffects DEF BeginCommand, NoCommand, inputFiles

LEMMA ResolveCreateDoes ==
  ASSUME cmd \in [Call -> Command], NEW c \in Call, ResolveCreate(c)
  PROVE  /\ OthersStay(c) /\ UNCHANGED <<session, box, packages, bundles, built>> /\ Live
         /\ cmd[c].op = "resolve" /\ cmd[c].at = "create" /\ Advanced(c, "sidecars")
         /\ cmd'[c].place \in Stamp \ named /\ cmd'[c].archive \in DriverArchive
         /\ named' = named \union {cmd'[c].place}
         /\ pub' = [pub EXCEPT ![cmd'[c].place]["sidecars"] = "partial"]
  BY DEF ResolveCreate, Receive, Offered, Least, Command, Advanced, OthersStay, CmdAt

LEMMA UserspaceDoes ==
  ASSUME cmd \in [Call -> Command], NEW c \in Call, Userspace(c)
  PROVE  /\ OthersStay(c) /\ UNCHANGED <<session, box, inputFiles>> /\ Live
         /\ cmd[c].op = "none"
         /\ cmd'[c].op = "userspace" /\ cmd'[c].at = "bundle" /\ cmd'[c].bundle = session.bundle
  <1>1. cmd'[c] = [NoCommand EXCEPT !.op = "userspace", !.at = "bundle",
                            !.version = session.res.version, !.bundle = session.bundle] /\ OthersStay(c)
    BY CommandEffects DEF Userspace
  <1>2. UNCHANGED <<session, box, inputFiles>> /\ Live
    BY DEF Userspace, BeginCommand, Free
  <1>4. cmd[c].op = "none"
    BY DEF Userspace, Free
  <1> QED
    BY <1>1, <1>2, <1>4 DEF NoCommand

LEMMA BundleDoes ==
  ASSUME cmd \in [Call -> Command], NEW c \in Call, Bundle(c)
  PROVE  /\ OthersStay(c) /\ UNCHANGED <<session, box, inputFiles>> /\ Live
         /\ cmd[c].op = "none"
         /\ cmd'[c].op = "bundle" /\ cmd'[c].at = "bundle" /\ cmd'[c].bundle = session.bundle
         /\ cmd'[c].packages = session.packages /\ session.packages # 0
  <1>1. cmd'[c] = [NoCommand EXCEPT !.op = "bundle", !.at = "bundle",
                            !.version = session.res.version, !.packages = session.packages,
                            !.bundle = session.bundle] /\ OthersStay(c)
    BY CommandEffects DEF Bundle
  <1>2. UNCHANGED <<session, box, inputFiles>> /\ Live
    BY DEF Bundle, BeginCommand, Free
  <1>4. cmd[c].op = "none"
    BY DEF Bundle, Free
  <1>3. session.packages # 0
    BY DEF Bundle, Prepared
  <1> QED
    BY <1>1, <1>2, <1>4, <1>3 DEF NoCommand

LEMMA AcquireBundleDoes ==
  ASSUME cmd \in [Call -> Command], NEW c \in Call, AcquireBundle(c)
  PROVE  /\ OthersStay(c) /\ UNCHANGED <<session, box, pub, named, packages, built>> /\ Live
         /\ cmd[c].op \in {"userspace", "bundle"} /\ cmd[c].at = "bundle" /\ cmd[c].bundle = "none"
         /\ \/ cmd'[c] = NoCommand /\ UNCHANGED bundles
            \/ /\ Advanced(c, "fill") /\ cmd'[c].packages = cmd[c].packages
               /\ cmd'[c].bundle \in BundleKind /\ bundles[cmd'[c].bundle] = "none"
               /\ bundles' = [bundles EXCEPT ![cmd'[c].bundle] = "partial"]
  BY DEF AcquireBundle, Prepares, Over, Command, Advanced, OthersStay

LEMMA UserspaceCreateDoes ==
  ASSUME cmd \in [Call -> Command], NEW c \in Call, UserspaceCreate(c)
  PROVE  /\ OthersStay(c) /\ UNCHANGED <<session, box, pub, named, bundles, built>>
         /\ cmd[c].op = "userspace" /\ cmd[c].at = "create"
         /\ \/ cmd'[c] = NoCommand /\ UNCHANGED packages
            \/ /\ Live /\ Advanced(c, "stage") /\ cmd'[c].bundle = cmd[c].bundle
               /\ cmd'[c].packages \in Stamp /\ packages[cmd'[c].packages] = "none"
               /\ packages' = [packages EXCEPT ![cmd'[c].packages] = "partial"]
  BY DEF UserspaceCreate, Least, Refused, Over, inputFiles, Command, Advanced, OthersStay, CmdAt

LEMMA BuildDoes ==
  ASSUME cmd \in [Call -> Command], NEW c \in Call, Build(c)
  PROVE  /\ OthersStay(c) /\ UNCHANGED <<session, box, inputFiles>>
         /\ cmd[c].op = "none"
         /\ cmd'[c].op = "build" /\ cmd'[c].at = "claim" /\ cmd'[c].kernel = "target"
         /\ cmd'[c].archive = NoArchive /\ cmd'[c].place = 0
  <1>1. cmd'[c] = [NoCommand EXCEPT !.op = "build", !.at = "claim",
                            !.version = session.res.version, !.kernel = "target"] /\ OthersStay(c)
    BY CommandEffects DEF Build
  <1>2. UNCHANGED <<session, box, inputFiles>>
    BY DEF Build, BeginCommand
  <1>4. cmd[c].op = "none"
    BY DEF Build, Free
  <1> QED
    BY <1>1, <1>2, <1>4 DEF NoCommand

LEMMA ClaimDoes ==
  ASSUME cmd \in [Call -> Command], CarriesOK, NEW c \in Call, Claim(c)
  PROVE  /\ OthersStay(c) /\ UNCHANGED <<session, inputFiles>>
         /\ cmd[c].op \in {"build", "validate", "install"} /\ cmd[c].at = "claim"
         /\ \/ cmd'[c] = NoCommand /\ UNCHANGED box
            \/ /\ box.state = "ready" /\ box' = [box EXCEPT !.state = Claims[cmd[c].op]]
               /\ Advanced(c, Begins[cmd[c].op]) /\ Carried(c)
  <1>1. cmd[c].op \in {"build", "validate", "install"} /\ cmd[c].at = "claim"
    BY DEF Claim, CarriesOK, Carries
  <1> QED
    BY <1>1, CommandEffects DEF Claim, Refused, inputFiles

LEMMA BuildMakeDoes ==
  ASSUME cmd \in [Call -> Command], NEW c \in Call, BuildMake(c)
  PROVE  /\ OthersStay(c) /\ UNCHANGED <<session, box, inputFiles>>
         /\ cmd[c].op = "build" /\ cmd[c].at = "make" /\ cmd'[c].place = cmd[c].place
         /\ \/ Advanced(c, "release") /\ cmd'[c].archive = cmd[c].archive
            \/ /\ Advanced(c, "copy") /\ cmd'[c].archive \in DriverArchive
               /\ Specified(cmd'[c].archive, c)
  BY DEF BuildMake, Continue, Command, Advanced, OthersStay, CmdAt, inputFiles, Specified

LEMMA BuildCopyDoes ==
  ASSUME cmd \in [Call -> Command], NEW c \in Call, BuildCopy(c)
  PROVE  /\ OthersStay(c) /\ UNCHANGED <<session, box, pub, named, packages, bundles>>
         /\ cmd[c].op = "build" /\ cmd[c].at = "copy" /\ cmd'[c].place = cmd[c].place
         /\ \/ UNCHANGED cmd /\ built = "none" /\ built' = "partial"
            \/ Advanced(c, "release") /\ Carried(c) /\ built = "partial" /\ built' = "whole"
            \/ /\ Advanced(c, "release") /\ cmd'[c].archive = NoArchive
               /\ built' = IF built = "absent" THEN "absent" ELSE "none"
  BY DEF BuildCopy, Continue, Command, Advanced, Carried, OthersStay, CmdAt

LEMMA ValidateDoes ==
  ASSUME cmd \in [Call -> Command], NEW c \in Call, Validate(c)
  PROVE  /\ OthersStay(c) /\ UNCHANGED <<session, box, inputFiles>>
         /\ cmd[c].op = "none"
         /\ cmd'[c].op = "validate" /\ cmd'[c].at = "claim" /\ cmd'[c].bundle # "none" /\ cmd'[c].packages # 0
  <1>1. cmd'[c] = Inputs(c, "validate") /\ OthersStay(c)
    BY CommandEffects DEF Validate
  <1>2. UNCHANGED <<session, box, inputFiles>>
    BY DEF Validate, BeginCommand
  <1>4. cmd[c].op = "none"
    BY DEF Validate, Free
  <1>3. /\ session.res.status = "compatible" /\ session.res.version = Reviewed
        /\ session.packages # 0 /\ session.bundle # "none"
    BY DEF Validate, Collected, Prepared
  <1> QED
    BY <1>1, <1>2, <1>4, <1>3 DEF NoCommand, Inputs

LEMMA InstallDoes ==
  ASSUME cmd \in [Call -> Command], NEW c \in Call, Install(c)
  PROVE  /\ OthersStay(c) /\ UNCHANGED <<session, box, inputFiles>>
         /\ cmd[c].op = "none"
         /\ cmd'[c].op = "install" /\ cmd'[c].at = "claim" /\ cmd'[c].bundle # "none" /\ cmd'[c].packages # 0
         /\ cmd'[c].archive = session.res.archive /\ session.res.status = "compatible"
         /\ session.res.version = Reviewed
  <1>1. cmd'[c] = Inputs(c, "install") /\ OthersStay(c)
    BY CommandEffects DEF Install
  <1>2. UNCHANGED <<session, box, inputFiles>>
    BY DEF Install, BeginCommand
  <1>4. cmd[c].op = "none"
    BY DEF Install, Free
  <1>3. /\ session.res.status = "compatible" /\ session.res.version = Reviewed
        /\ session.packages # 0 /\ session.bundle # "none"
    BY DEF Install, Collected, Prepared
  <1> QED
    BY <1>1, <1>2, <1>4, <1>3 DEF NoCommand, Inputs

\* The command of a step carries what its next place needs.
LEMMA CarriesOfStep == ASSUME InputsTypeOK, CarriesOK, ResolvedOK, NEW c \in Call, CommandStep(c)
                       PROVE  Carries(cmd'[c]) /\ OthersStay(c)
  <1> DEFINE Goal == Carries(cmd'[c]) /\ OthersStay(c)
  <1>0. Carries(cmd[c]) /\ cmd \in [Call -> Command] /\ cmd[c] \in Command
    BY DEF CarriesOK, InputsTypeOK
  <1> USE <1>0, CommandEffects
  <1> USE DEF Only, Refused, Conclude, CmdAt, CmdIn, Drop, Send, Carries, Advanced, Carried,
        NoCommand
  <1>1. ASSUME Resolve(c) PROVE Goal
    BY <1>1, ResolveDoes
  <1>2. ASSUME ResolveCreate(c) PROVE Goal
    BY <1>2, ResolveCreateDoes, InputTypes
  <1>3. ASSUME Downloaded(c) PROVE Goal
    <2>1. /\ Advanced(c, After[cmd[c].at]) /\ Carried(c) /\ OthersStay(c)
          /\ cmd[c].op = "resolve" /\ cmd[c].at \in Part
      BY <1>3 DEF Downloaded
    <2> QED
      BY <2>1 DEF Part, After
  <1>4. ASSUME ResolveCheck(c) PROVE Goal
    <2>1. /\ Advanced(c, "record") /\ Carried(c) /\ OthersStay(c)
          /\ cmd[c].op = "resolve" /\ cmd[c].at = "validate" /\ Specified(cmd[c].archive, c)
      BY <1>4 DEF ResolveCheck
    <2>2. cmd[c].archive \in AnyArchive
      BY DEF Command
    <2> QED
      BY <2>1, <2>2 DEF Specified, Fitting, AnyArchive, NoArchive
  <1>5. ASSUME ResolveFail(c) PROVE Goal
    BY <1>5 DEF ResolveFail
  <1>6. ASSUME ResolveEnd(c) PROVE Goal
    BY <1>6 DEF ResolveEnd
  <1>7. ASSUME Userspace(c) PROVE Goal
    BY <1>7, UserspaceDoes
  <1>8. ASSUME Bundle(c) PROVE Goal
    BY <1>8, BundleDoes
  <1>9. ASSUME BundleKept(c) PROVE Goal
    BY <1>9 DEF BundleKept
  <1>10. ASSUME AcquireBundle(c) PROVE Goal
    BY <1>10, AcquireBundleDoes, InputTypes
  <1>11. ASSUME Fill(c) PROVE Goal
    BY <1>11 DEF Fill
  <1>12. ASSUME UserspaceBundle(c) PROVE Goal
    BY <1>12 DEF UserspaceBundle
  <1>13. ASSUME UserspaceCreate(c) PROVE Goal
    BY <1>13, UserspaceCreateDoes, InputTypes
  <1>14. ASSUME UserspaceStage(c) PROVE Goal
    BY <1>14 DEF UserspaceStage
  <1>15. ASSUME UserspaceEnd(c) PROVE Goal
    BY <1>15 DEF UserspaceEnd
  <1>16. ASSUME BundleClosure(c) PROVE Goal
    BY <1>16 DEF BundleClosure
  <1>17. ASSUME BundleEnd(c) PROVE Goal
    BY <1>17 DEF BundleEnd
  <1>18. ASSUME Build(c) PROVE Goal
    BY <1>18, BuildDoes
  <1>19. ASSUME Claim(c) PROVE Goal
    BY <1>19, ClaimDoes, CarriesOK DEF Begins
  <1>20. ASSUME BuildSetup(c) PROVE Goal
    BY <1>20 DEF BuildSetup
  <1>21. ASSUME BuildMake(c) PROVE Goal
    BY <1>21, BuildMakeDoes, InputTypes DEF Specified, Fitting
  <1>22. ASSUME BuildCopy(c) PROVE Goal
    BY <1>22, BuildCopyDoes
  <1>23. ASSUME BuildRelease(c) PROVE Goal
    BY <1>23 DEF BuildRelease
  <1>24. ASSUME BuildCheck(c) PROVE Goal
    BY <1>24 DEF BuildCheck
  <1>25. ASSUME BuildEnd(c) PROVE Goal
    BY <1>25 DEF BuildEnd
  <1>26. ASSUME Validate(c) PROVE Goal
    BY <1>26, ValidateDoes
  <1>27. ASSUME Package(c) PROVE Goal
    BY <1>27 DEF Package
  <1>28. ASSUME SendArchive(c) PROVE Goal
    BY <1>28 DEF SendArchive
  <1>29. ASSUME SendPackages(c) PROVE Goal
    BY <1>29 DEF SendPackages
  <1>30. ASSUME ValidateWork(c) PROVE Goal
    BY <1>30 DEF ValidateWork
  <1>31. ASSUME ValidateEnd(c) PROVE Goal
    BY <1>31 DEF ValidateEnd
  <1>32. ASSUME Install(c) PROVE Goal
    BY <1>32, InstallDoes, ResolvedOK DEF ResolvedOK
  <1>33. ASSUME InstallWork(c) PROVE Goal
    BY <1>33 DEF InstallWork
  <1>34. ASSUME InstallEnd(c) PROVE Goal
    BY <1>34 DEF InstallEnd
  <1> QED
        BY <1>1, <1>2, <1>3, <1>4, <1>5, <1>6, <1>7, <1>8, <1>9, <1>10, <1>11, <1>12, <1>13,
       <1>14, <1>15, <1>16, <1>17, <1>18, <1>19, <1>20, <1>21, <1>22, <1>23, <1>24, <1>25,
       <1>26, <1>27, <1>28, <1>29, <1>30, <1>31, <1>32, <1>33, <1>34 DEF CommandStep

\* What a step says of the session of the x86_64 guest.
BoxKept(c) ==
  /\ Boxed(c)' => box'.state = Claims[cmd'[c].op]
  /\ ~Boxed(c) => box' = box \/ box.state = "ready"
  /\ ~Boxed(c) /\ Boxed(c)' => box.state = "ready"
  /\ CmdAt(c, "install", "record")' => box'.state = "gone" /\ GuestAccepts' /\ ResultMatches(c)'

LEMMA BoxOfStep == ASSUME InputsTypeOK, CarriesOK, BoxOK, NEW c \in Call, CommandStep(c)
                   PROVE  BoxKept(c)
  <1>0. Carries(cmd[c]) /\ cmd \in [Call -> Command] /\ cmd[c] \in Command
    BY DEF CarriesOK, InputsTypeOK
  <1> USE <1>0, CommandEffects
  <1> USE DEF Only, Refused, Conclude, CmdAt, CmdIn, Drop, Send, Advanced, Carried, NoCommand,
        BoxKept, Boxed, Claims
  <1>1. ASSUME Resolve(c) PROVE BoxKept(c)
    BY <1>1, ResolveDoes
  <1>2. ASSUME ResolveCreate(c) PROVE BoxKept(c)
    BY <1>2, ResolveCreateDoes
  <1>3. ASSUME Downloaded(c) PROVE BoxKept(c)
    BY <1>3 DEF Downloaded
  <1>4. ASSUME ResolveCheck(c) PROVE BoxKept(c)
    BY <1>4 DEF ResolveCheck
  <1>5. ASSUME ResolveFail(c) PROVE BoxKept(c)
    BY <1>5 DEF ResolveFail
  <1>6. ASSUME ResolveEnd(c) PROVE BoxKept(c)
    BY <1>6 DEF ResolveEnd
  <1>7. ASSUME Userspace(c) PROVE BoxKept(c)
    BY <1>7, UserspaceDoes
  <1>8. ASSUME Bundle(c) PROVE BoxKept(c)
    BY <1>8, BundleDoes
  <1>9. ASSUME BundleKept(c) PROVE BoxKept(c)
    BY <1>9 DEF BundleKept
  <1>10. ASSUME AcquireBundle(c) PROVE BoxKept(c)
    BY <1>10, AcquireBundleDoes
  <1>11. ASSUME Fill(c) PROVE BoxKept(c)
    BY <1>11 DEF Fill
  <1>12. ASSUME UserspaceBundle(c) PROVE BoxKept(c)
    BY <1>12 DEF UserspaceBundle
  <1>13. ASSUME UserspaceCreate(c) PROVE BoxKept(c)
    BY <1>13, UserspaceCreateDoes
  <1>14. ASSUME UserspaceStage(c) PROVE BoxKept(c)
    BY <1>14 DEF UserspaceStage
  <1>15. ASSUME UserspaceEnd(c) PROVE BoxKept(c)
    BY <1>15 DEF UserspaceEnd
  <1>16. ASSUME BundleClosure(c) PROVE BoxKept(c)
    BY <1>16 DEF BundleClosure
  <1>17. ASSUME BundleEnd(c) PROVE BoxKept(c)
    BY <1>17 DEF BundleEnd
  <1>18. ASSUME Build(c) PROVE BoxKept(c)
    BY <1>18, BuildDoes
  <1>19. ASSUME Claim(c) PROVE BoxKept(c)
    BY <1>19, ClaimDoes, CarriesOK DEF Begins, Box, InputsTypeOK
  <1>20. ASSUME BuildSetup(c) PROVE BoxKept(c)
    BY <1>20 DEF BuildSetup, BoxOK, InputsTypeOK, Box
  <1>21. ASSUME BuildMake(c) PROVE BoxKept(c)
    BY <1>21, BuildMakeDoes, BoxOK DEF BoxOK
  <1>22. ASSUME BuildCopy(c) PROVE BoxKept(c)
    BY <1>22, BuildCopyDoes, BoxOK DEF BoxOK
  <1>23. ASSUME BuildRelease(c) PROVE BoxKept(c)
    BY <1>23 DEF BuildRelease
  <1>24. ASSUME BuildCheck(c) PROVE BoxKept(c)
    BY <1>24 DEF BuildCheck
  <1>25. ASSUME BuildEnd(c) PROVE BoxKept(c)
    BY <1>25 DEF BuildEnd
  <1>26. ASSUME Validate(c) PROVE BoxKept(c)
    BY <1>26, ValidateDoes
  <1>27. ASSUME Package(c) PROVE BoxKept(c)
    BY <1>27 DEF Package, BoxOK, InputsTypeOK, Box
  <1>28. ASSUME SendArchive(c) PROVE BoxKept(c)
    <2>1. CmdAt(c, "validate", "archive")
      BY <1>28 DEF SendArchive
    <2>2. \/ cmd'[c] = NoCommand
          \/ Advanced(c, "packages") /\ \E s \in AnyArchive, g \in Received :
               box' = [state |-> box.state, sum |-> s, guest |-> g]
      <3>1. CASE Drop(c)
        BY <3>1
      <3>2. CASE ~Drop(c)
        <4>1. Advanced(c, "packages") /\ cmd[c].archive \in AnyArchive /\ Sound(cmd[c].place) \in BOOLEAN
          BY <1>28, <3>2 DEF SendArchive, Command, Sound
        <4>2. box' = [box EXCEPT !.sum = cmd[c].archive, !.guest.archive = cmd[c].archive,
                                 !.guest.whole = Sound(cmd[c].place)]
          BY <1>28, <3>2 DEF SendArchive
        <4> HIDE DEF Sound
        <4>3. box' = [state |-> box.state, sum |-> cmd[c].archive,
                      guest |-> [archive |-> cmd[c].archive, whole |-> Sound(cmd[c].place),
                                 bundle |-> box.guest.bundle]]
          BY <4>1, <4>2 DEF InputsTypeOK, Box, Received
        <4>4. [archive |-> cmd[c].archive, whole |-> Sound(cmd[c].place), bundle |-> box.guest.bundle]
                \in Received
          BY <4>1 DEF InputsTypeOK, Box, Received
        <4> QED
          BY <4>1, <4>3, <4>4
      <3> QED
        BY <3>1, <3>2
    <2> QED
      BY <2>1, <2>2 DEF BoxOK
  <1>29. ASSUME SendPackages(c) PROVE BoxKept(c)
    BY <1>29 DEF SendPackages, BoxOK, InputsTypeOK, Box
  <1>30. ASSUME ValidateWork(c) PROVE BoxKept(c)
    BY <1>30 DEF ValidateWork
  <1>31. ASSUME ValidateEnd(c) PROVE BoxKept(c)
    BY <1>31 DEF ValidateEnd
  <1>32. ASSUME Install(c) PROVE BoxKept(c)
    BY <1>32, InstallDoes
  <1>33. ASSUME InstallWork(c) PROVE BoxKept(c)
    <2>1. CmdAt(c, "install", "mutate") /\ box' = [box EXCEPT !.state = "gone"]
      BY <1>33 DEF InstallWork
    <2>2. box'.state = "gone" /\ box'.guest = box.guest
      BY <2>1 DEF InputsTypeOK, Box
    <2>3. \/ cmd'[c] = NoCommand
          \/ Advanced(c, "record") /\ Carried(c) /\ GuestAccepts /\ ResultMatches(c)
      BY <1>33 DEF InstallWork
    <2> QED
      BY <2>1, <2>2, <2>3 DEF GuestAccepts, ResultMatches
  <1>34. ASSUME InstallEnd(c) PROVE BoxKept(c)
    BY <1>34 DEF InstallEnd
  <1> QED
    BY <1>1, <1>2, <1>3, <1>4, <1>5, <1>6, <1>7, <1>8, <1>9, <1>10, <1>11, <1>12, <1>13, <1>14,
       <1>15, <1>16, <1>17, <1>18, <1>19, <1>20, <1>21, <1>22, <1>23, <1>24, <1>25, <1>26,
       <1>27, <1>28, <1>29, <1>30, <1>31, <1>32, <1>33, <1>34 DEF CommandStep

\* What a step says of the directories of downloads.
Vacant(d)  == \A p \in Part : pub[d][p] = "none"
Cleared(d) == \A p \in Part : pub'[d][p] = "none"
PubChange(c) ==
  \/ UNCHANGED <<pub, named>>
  \/ \E d \in Stamp :
       /\ \A x \in Stamp \ {d} : pub'[x] = pub[x]
       /\ \/ /\ Live /\ named' = named \union {d} /\ d \notin named
             /\ Resolves(c)' /\ cmd'[c].place = d
          \/ /\ named' = named /\ Resolves(c) /\ cmd[c].place = d
             /\ (Live /\ Resolves(c)' /\ cmd'[c].place = d) \/ Cleared(d)
Quiet(c) == /\ UNCHANGED <<pub, named>> /\ session'.res = session.res /\ session'.live = session.live
            /\ ~Resolves(c) /\ ~Resolves(c)'
DownloadKept(c) ==
  /\ session'.live = session.live /\ PubChange(c)
  /\ Live /\ Resolves(c)' =>
       /\ cmd'[c].place \in named' /\ Downloads(c)'
       /\ cmd'[c].place \notin named \/ (Resolves(c) /\ cmd'[c].place = cmd[c].place)
  /\ \/ session'.res = session.res
     \/ session'.res.place = 0 /\ (session'.res.status = "compatible" => Inspected(built'))
     \/ /\ Resolves(c) /\ ~Resolves(c)' /\ session'.res.place = cmd[c].place
        /\ session'.res.place \in named' /\ There(session.res.place)'
  /\ Resolves(c) /\ Resolves(c)' => cmd'[c].place = cmd[c].place
  /\ Resolves(c) /\ ~Resolves(c)' =>
       (\A f \in Part : Inspected(pub'[cmd[c].place][f])) \/ Cleared(cmd[c].place)

LEMMA DownloadOfStep ==
  ASSUME InputsTypeOK, CarriesOK, DownloadsOK, BuiltOK, EndedOK, NEW c \in Call, CommandStep(c)
  PROVE  DownloadKept(c)
  <1>0. Carries(cmd[c]) /\ cmd \in [Call -> Command] /\ cmd[c] \in Command
    BY DEF CarriesOK, InputsTypeOK
  <1> USE <1>0, CommandEffects
  <1> USE DEF Only, Refused, Conclude, CmdAt, CmdIn, Drop, Send, Advanced, Carried, NoCommand,
        DownloadKept, PubChange, Resolves, inputFiles, Live
  <1>1. ASSUME Resolve(c) PROVE DownloadKept(c)
    <2>1. UNCHANGED <<pub, named, session>> /\ ~Resolves(c)'
      BY <1>1, ResolveDoes DEF inputFiles, Resolves
    <2>2. ~Resolves(c)
      BY <1>1 DEF Resolve, Free, Resolves
    <2> QED
      BY <2>1, <2>2
  <1>2. ASSUME ResolveCreate(c) PROVE DownloadKept(c)
    <2> DEFINE d == cmd'[c].place
    <2>1. d \in Stamp \ named /\ d # 0 /\ named' = named \union {d} /\ UNCHANGED session /\ Live
      BY <1>2, ResolveCreateDoes, InputTypes
    <2>2. pub' = [pub EXCEPT ![d]["sidecars"] = "partial"]
      BY <1>2, ResolveCreateDoes
    <2>0. cmd[c].op = "resolve" /\ cmd[c].at = "create"
      BY <1>2, ResolveCreateDoes
    <2>a. cmd[c].place = 0
      BY <2>0 DEF Carries
    <2>b. cmd'[c].op = "resolve" /\ cmd'[c].at = "sidecars"
      BY <1>2, <2>0, ResolveCreateDoes
    <2>3. ~Resolves(c) /\ Resolves(c)' /\ cmd'[c].at = "sidecars"
      BY <2>a, <2>b, <2>1 DEF Resolves
    <2>4. /\ \A x \in Stamp \ {d} : pub'[x] = pub[x]
          /\ pub'[d]["sidecars"] = "partial" /\ pub'[d]["archive"] = "none"
      BY <2>1, <2>2 DEF InputsTypeOK, FilesTyped, DownloadsOK, Part
    <2> HIDE DEF d
    <2>5. Downloads(c)'
      BY <2>3, <2>4 DEF Downloads, d
    <2> QED
      BY <2>1, <2>3, <2>4, <2>5 DEF d
  <1>3. ASSUME Downloaded(c) PROVE DownloadKept(c)
    <2> DEFINE d == cmd[c].place
    <2>1. /\ cmd[c].op = "resolve" /\ cmd[c].at \in Part /\ Advanced(c, After[cmd[c].at]) /\ Carried(c)
          /\ UNCHANGED <<session, named>> /\ Live
      BY <1>3 DEF Downloaded
    <2>a. d # 0
      BY <2>1 DEF Carries, Part
    <2>b. cmd'[c].place = d /\ cmd'[c].op = "resolve"
      BY <2>1
    <2>2. d \in Stamp /\ d # 0 /\ Resolves(c) /\ Resolves(c)'
      BY <2>1, <2>a, <2>b DEF Command, Numbered, Resolves
    <2>3. pub' = [pub EXCEPT ![d] = [f \in Part |-> IF f = cmd[c].at THEN "whole"
                                       ELSE IF f = After[cmd[c].at] THEN "partial" ELSE pub[d][f]]]
      BY <1>3 DEF Downloaded, InputsTypeOK, FilesTyped
    <2>4. d \in named /\ Downloads(c)
      BY <2>1, <2>2 DEF DownloadsOK
    <2>5. Downloads(c)'
      BY <2>1, <2>2, <2>3, <2>4 DEF Downloads, InputsTypeOK, FilesTyped, Part, After, Inspected
    <2>6. \A x \in Stamp \ {d} : pub'[x] = pub[x]
      BY <2>2, <2>3 DEF InputsTypeOK, FilesTyped
    <2> QED
      BY <2>1, <2>2, <2>4, <2>5, <2>6
  <1>4. ASSUME ResolveCheck(c) PROVE DownloadKept(c)
    <2>1. /\ cmd[c].op = "resolve" /\ cmd[c].at = "validate" /\ Advanced(c, "record") /\ Carried(c)
          /\ UNCHANGED <<session, pub, named>> /\ Live
      BY <1>4 DEF ResolveCheck
    <2>a. cmd[c].place # 0
      BY <2>1 DEF Carries
    <2>b. cmd'[c].place = cmd[c].place /\ cmd'[c].op = "resolve" /\ cmd'[c].at = "record"
      BY <2>1
    <2>2. Resolves(c) /\ Resolves(c)'
      BY <2>1, <2>a, <2>b DEF Resolves
    <2>3. Downloads(c)'
      BY <2>1, <2>2, <2>b DEF DownloadsOK, Downloads
    <2> QED
      BY <2>1, <2>2, <2>3 DEF DownloadsOK
  <1>5. ASSUME ResolveFail(c) PROVE DownloadKept(c)
    <2>1. cmd[c].op = "resolve" /\ cmd'[c] = NoCommand /\ UNCHANGED <<session, named>>
      BY <1>5 DEF ResolveFail
    <2>2. ~Resolves(c)'
      BY <2>1 DEF Resolves
    <2>3. CASE cmd[c].place = 0
      <3>1. pub' = pub
        BY <1>5, <2>3 DEF ResolveFail
      <3> QED
        BY <3>1, <2>1, <2>2, <2>3 DEF Resolves
    <2>4. CASE cmd[c].place # 0
      <3> DEFINE d == cmd[c].place
      <3>1. pub' = Emptied(d) /\ d \in Stamp /\ Resolves(c)
        BY <1>5, <2>1, <2>4 DEF ResolveFail, Command, Numbered, Resolves
      <3> HIDE DEF d
      <3>0. pub \in [Stamp -> [Part -> State]]
        BY DEF InputsTypeOK, FilesTyped
      <3>a. pub'[d] = [p \in Part |-> "none"] /\ \A x \in Stamp \ {d} : pub'[x] = pub[x]
        BY <3>0, <3>1 DEF Emptied
      <3>2. Cleared(d) /\ \A x \in Stamp \ {d} : pub'[x] = pub[x]
        BY <3>a DEF Cleared
      <3> USE DEF d
      <3>3. named' = named /\ Resolves(c) /\ cmd[c].place = d /\ Cleared(d) /\ d \in Stamp
        BY <3>1, <3>2, <2>1
      <3>4. PubChange(c)
        BY <3>2, <3>3
      <3> QED
        BY <3>3, <3>4, <2>1, <2>2
    <2> QED
      BY <2>3, <2>4
  <1>6. ASSUME ResolveEnd(c) PROVE DownloadKept(c)
    <2>1. cmd[c].op = "resolve" /\ cmd[c].at = "record" /\ ~Resolves(c)' /\ UNCHANGED <<pub, named>>
      BY <1>6 DEF ResolveEnd, Resolves
    <2>2. session' = session \/ (Live /\ session' = Renewed(Found(c)))
      BY <1>6 DEF ResolveEnd
    <2>3. Renewed(Found(c)).res = Found(c) /\ Renewed(Found(c)).live = session.live
      BY DEF Renewed, InputsTypeOK, Sessions
    <2>4. Found(c).place = cmd[c].place
      BY DEF Found
    <2>5. CASE ~Live
      <3>0. Resolves(c) => cmd[c].place \in Stamp
        BY DEF Resolves, Command, Numbered
      <3>1. Resolves(c) => cmd[c].place \in Stamp \ named
        BY <2>5, <3>0 DEF EndedOK
      <3>a. pub' = pub /\ \A x \in Stamp \ named : Vacant(x)
        BY <2>1 DEF DownloadsOK, Vacant
      <3>2. Resolves(c) => Cleared(cmd[c].place)
        <4> SUFFICES ASSUME Resolves(c) PROVE Cleared(cmd[c].place)
          OBVIOUS
        <4> QED
          BY <3>1, <3>a DEF Vacant, Cleared
      <3> QED
        BY <2>1, <2>2, <2>5, <3>2
    <2>6. CASE Live /\ Resolves(c)
      <3>1. cmd[c].place \in named /\ cmd[c].place # 0 /\ \A f \in Part : Inspected(pub[cmd[c].place][f])
        BY <2>1, <2>6 DEF DownloadsOK, Downloads, Resolves, Part
      <3>2. There(cmd[c].place)
        BY <3>1 DEF There
      <3>3. session'.res = session.res \/ session'.res.place = cmd[c].place
        BY <2>2, <2>3, <2>4
      <3>4. session'.res.place = cmd[c].place => There(session.res.place)'
        BY <3>1, <2>1 DEF There
      <3> QED
        BY <2>1, <2>2, <2>3, <2>6, <3>1, <3>3, <3>4
    <2>7. CASE Live /\ ~Resolves(c)
      <3>0. cmd[c].place = 0
        BY <2>1, <2>7 DEF Resolves
      <3>1. cmd[c].place = 0 /\ cmd[c].archive = NoArchive
        BY <3>0, <2>1 DEF Carries
      <3>2. Found(c).status # "compatible"
        BY <3>1 DEF Found
      <3>3. session'.res = session.res \/ (session'.res = Found(c) /\ session'.res.place = 0)
        BY <2>2, <2>3, <2>4, <3>0
      <3>4. session'.live = session.live
        BY <2>2, <2>3
      <3> HIDE DEF Found, Renewed
      <3> QED
        BY <2>1, <2>7, <3>2, <3>3, <3>4
    <2> QED
      BY <2>5, <2>6, <2>7
  <1>7. ASSUME Userspace(c) PROVE DownloadKept(c)
    <2>1. Quiet(c)
      BY <1>7, UserspaceDoes DEF Quiet, Resolves, inputFiles
    <2> QED
      BY <2>1 DEF Quiet
  <1>8. ASSUME Bundle(c) PROVE DownloadKept(c)
    <2>1. Quiet(c)
      BY <1>8, BundleDoes DEF Quiet, Resolves, inputFiles
    <2> QED
      BY <2>1 DEF Quiet
  <1>9. ASSUME BundleKept(c) PROVE DownloadKept(c)
    <2>1. Quiet(c)
      BY <1>9 DEF Quiet, Resolves, inputFiles, BundleKept, Prepares
    <2> QED
      BY <2>1 DEF Quiet
  <1>10. ASSUME AcquireBundle(c) PROVE DownloadKept(c)
    <2>1. Quiet(c)
      BY <1>10, AcquireBundleDoes DEF Quiet, Resolves, inputFiles
    <2> QED
      BY <2>1 DEF Quiet
  <1>11. ASSUME Fill(c) PROVE DownloadKept(c)
    <2>1. Quiet(c)
      BY <1>11 DEF Quiet, Resolves, inputFiles, Fill, Prepares
    <2> QED
      BY <2>1 DEF Quiet
  <1>12. ASSUME UserspaceBundle(c) PROVE DownloadKept(c)
    <2>1. Quiet(c)
      BY <1>12 DEF Quiet, Resolves, inputFiles, UserspaceBundle, InputsTypeOK, Sessions, Live
    <2> QED
      BY <2>1 DEF Quiet
  <1>13. ASSUME UserspaceCreate(c) PROVE DownloadKept(c)
    <2>1. Quiet(c)
      BY <1>13, UserspaceCreateDoes DEF Quiet, Resolves, inputFiles
    <2> QED
      BY <2>1 DEF Quiet
  <1>14. ASSUME UserspaceStage(c) PROVE DownloadKept(c)
    BY <1>14 DEF UserspaceStage
  <1>15. ASSUME UserspaceEnd(c) PROVE DownloadKept(c)
    <2>1. Quiet(c)
      BY <1>15 DEF Quiet, Resolves, inputFiles, UserspaceEnd, InputsTypeOK, Sessions, Live
    <2> QED
      BY <2>1 DEF Quiet
  <1>16. ASSUME BundleClosure(c) PROVE DownloadKept(c)
    BY <1>16 DEF BundleClosure
  <1>17. ASSUME BundleEnd(c) PROVE DownloadKept(c)
    <2>1. Quiet(c)
      BY <1>17 DEF Quiet, Resolves, inputFiles, BundleEnd, InputsTypeOK, Sessions, Live
    <2> QED
      BY <2>1 DEF Quiet
  <1>18. ASSUME Build(c) PROVE DownloadKept(c)
    <2>1. Quiet(c)
      BY <1>18, BuildDoes DEF Quiet, Resolves, inputFiles
    <2> QED
      BY <2>1 DEF Quiet
  <1>19. ASSUME Claim(c) PROVE DownloadKept(c)
    <2>1. Quiet(c)
      BY <1>19, ClaimDoes DEF Quiet, Resolves, inputFiles
    <2> QED
      BY <2>1 DEF Quiet
  <1>20. ASSUME BuildSetup(c) PROVE DownloadKept(c)
    BY <1>20 DEF BuildSetup
  <1>21. ASSUME BuildMake(c) PROVE DownloadKept(c)
    <2>1. Quiet(c)
      BY <1>21, BuildMakeDoes DEF Quiet, Resolves, inputFiles
    <2> QED
      BY <2>1 DEF Quiet
  <1>22. ASSUME BuildCopy(c) PROVE DownloadKept(c)
    <2>1. Quiet(c)
      BY <1>22, BuildCopyDoes DEF Quiet, Resolves, inputFiles
    <2> QED
      BY <2>1 DEF Quiet
  <1>23. ASSUME BuildRelease(c) PROVE DownloadKept(c)
    BY <1>23 DEF BuildRelease
  <1>24. ASSUME BuildCheck(c) PROVE DownloadKept(c)
    BY <1>24 DEF BuildCheck
  <1>25. ASSUME BuildEnd(c) PROVE DownloadKept(c)
    <2>1. cmd[c].op = "build" /\ cmd[c].at = "record"
      BY <1>25 DEF BuildEnd
    <2>0. cmd[c].place = 0 /\ cmd[c].archive # NoArchive
      BY <2>1 DEF Carries
    <2>2. ~Resolves(c) /\ ~Resolves(c)' /\ UNCHANGED <<pub, named, built>>
      BY <1>25, <2>1 DEF BuildEnd, Resolves
    <2>3. session' = session \/ (Live /\ session' = Renewed(Found(c)))
      BY <1>25 DEF BuildEnd
    <2>4. Renewed(Found(c)).res = Found(c) /\ Renewed(Found(c)).live = session.live
      BY DEF Renewed, InputsTypeOK, Sessions
    <2>5. Found(c).place = 0
      BY <2>0 DEF Found
    <2>6. Live => Inspected(built')
      BY <2>0, <2>1, <2>2 DEF BuiltOK, Inspected
    <2> QED
      BY <2>2, <2>3, <2>4, <2>5, <2>6
  <1>26. ASSUME Validate(c) PROVE DownloadKept(c)
    <2>1. Quiet(c)
      BY <1>26, ValidateDoes DEF Quiet, Resolves, inputFiles
    <2> QED
      BY <2>1 DEF Quiet
  <1>27. ASSUME Package(c) PROVE DownloadKept(c)
    BY <1>27 DEF Package
  <1>28. ASSUME SendArchive(c) PROVE DownloadKept(c)
    BY <1>28 DEF SendArchive
  <1>29. ASSUME SendPackages(c) PROVE DownloadKept(c)
    BY <1>29 DEF SendPackages
  <1>30. ASSUME ValidateWork(c) PROVE DownloadKept(c)
    BY <1>30 DEF ValidateWork
  <1>31. ASSUME ValidateEnd(c) PROVE DownloadKept(c)
    <2>1. Quiet(c)
      BY <1>31 DEF Quiet, Resolves, inputFiles, ValidateEnd, InputsTypeOK, Sessions, Live
    <2> QED
      BY <2>1 DEF Quiet
  <1>32. ASSUME Install(c) PROVE DownloadKept(c)
    <2>1. Quiet(c)
      BY <1>32, InstallDoes DEF Quiet, Resolves, inputFiles
    <2> QED
      BY <2>1 DEF Quiet
  <1>33. ASSUME InstallWork(c) PROVE DownloadKept(c)
    BY <1>33 DEF InstallWork
  <1>34. ASSUME InstallEnd(c) PROVE DownloadKept(c)
    <2>1. Quiet(c)
      BY <1>34 DEF Quiet, Resolves, inputFiles, InstallEnd, InputsTypeOK, Sessions, Live
    <2> QED
      BY <2>1 DEF Quiet
  <1> QED
    BY <1>1, <1>2, <1>3, <1>4, <1>5, <1>6, <1>7, <1>8, <1>9, <1>10, <1>11, <1>12, <1>13, <1>14,
       <1>15, <1>16, <1>17, <1>18, <1>19, <1>20, <1>21, <1>22, <1>23, <1>24, <1>25, <1>26,
       <1>27, <1>28, <1>29, <1>30, <1>31, <1>32, <1>33, <1>34 DEF CommandStep

\* What a step says of the directories of packages.
HoldsPackages(c) == CmdAt(c, "userspace", "record") \/ cmd[c].op = "bundle"
PackChange(c) ==
  \/ UNCHANGED packages
  \/ \E d \in Stamp :
       /\ \A x \in Stamp \ {d} : packages'[x] = packages[x]
       /\ \/ /\ Live /\ packages[d] = "none" /\ packages'[d] = "partial"
             /\ Stages(c)' /\ cmd'[c].packages = d
          \/ /\ Stages(c) /\ ~Stages(c)' /\ cmd[c].packages = d
             /\ packages'[d] = "none" \/ (Live /\ Inspected(packages'[d]))
PackagesKept(c) ==
  /\ PackChange(c)
  /\ Stages(c)' => packages[cmd'[c].packages] = "none" /\ packages'[cmd'[c].packages] = "partial"
  /\ Stages(c) => packages'[cmd[c].packages] # "partial"
  /\ Live /\ HoldsPackages(c)' => Inspected(packages'[cmd'[c].packages])
  /\ \/ session'.packages \in {session.packages, 0}
     \/ Live /\ HoldsPackages(c) /\ UNCHANGED packages /\ session'.packages = cmd[c].packages

LEMMA PackagesOfStep ==
  ASSUME InputsTypeOK, CarriesOK, StagesOK, RecordedThere, NEW c \in Call, CommandStep(c)
  PROVE  PackagesKept(c)
  <1>0. Carries(cmd[c]) /\ cmd \in [Call -> Command] /\ cmd[c] \in Command
    BY DEF CarriesOK, InputsTypeOK
  <1> USE <1>0, CommandEffects
  <1> USE DEF Only, Refused, Conclude, CmdAt, CmdIn, Drop, Send, Advanced, Carried, NoCommand,
        PackagesKept, PackChange, HoldsPackages, Stages, Live, inputFiles
  <1>1. ASSUME Resolve(c) PROVE PackagesKept(c)
    <2>1. UNCHANGED <<packages, session>> /\ cmd'[c].op = "resolve"
      BY <1>1, ResolveDoes DEF inputFiles
    <2>2. cmd[c].op = "none"
      BY <1>1 DEF Resolve, Free
    <2> QED
      BY <2>1, <2>2
  <1>2. ASSUME ResolveCreate(c) PROVE PackagesKept(c)
    BY <1>2, ResolveCreateDoes
  <1>3. ASSUME Downloaded(c) PROVE PackagesKept(c)
    BY <1>3 DEF Downloaded
  <1>4. ASSUME ResolveCheck(c) PROVE PackagesKept(c)
    BY <1>4 DEF ResolveCheck
  <1>5. ASSUME ResolveFail(c) PROVE PackagesKept(c)
    BY <1>5 DEF ResolveFail
  <1>6. ASSUME ResolveEnd(c) PROVE PackagesKept(c)
    BY <1>6 DEF ResolveEnd, Renewed, InputsTypeOK, Sessions
  <1>7. ASSUME Userspace(c) PROVE PackagesKept(c)
    BY <1>7, UserspaceDoes
  <1>8. ASSUME Bundle(c) PROVE PackagesKept(c)
    BY <1>8, BundleDoes, RecordedThere, InputsTypeOK DEF RecordedThere, Inspected
  <1>9. ASSUME BundleKept(c) PROVE PackagesKept(c)
    BY <1>9 DEF BundleKept, Prepares, StagesOK, Inspected
  <1>10. ASSUME AcquireBundle(c) PROVE PackagesKept(c)
    <2>1. UNCHANGED <<packages, session>> /\ cmd[c].op \in {"userspace", "bundle"} /\ cmd[c].at = "bundle"
      BY <1>10, AcquireBundleDoes
    <2>2. \/ cmd'[c].op = "none"
          \/ cmd'[c].op = cmd[c].op /\ cmd'[c].at = "fill" /\ cmd'[c].packages = cmd[c].packages
      BY <1>10, AcquireBundleDoes
    <2>3. Live /\ cmd[c].op = "bundle" => Inspected(packages[cmd[c].packages])
      BY DEF StagesOK
    <2> QED
      BY <2>1, <2>2, <2>3 DEF Inspected
  <1>11. ASSUME Fill(c) PROVE PackagesKept(c)
    BY <1>11 DEF Fill, Prepares, StagesOK, Inspected
  <1>12. ASSUME UserspaceBundle(c) PROVE PackagesKept(c)
    BY <1>12 DEF UserspaceBundle, InputsTypeOK, Sessions
  <1>13. ASSUME UserspaceCreate(c) PROVE PackagesKept(c)
    <2>1. UNCHANGED session /\ cmd[c].op = "userspace"
      BY <1>13, UserspaceCreateDoes
    <2>0. cmd[c].at = "create"
      BY <1>13, UserspaceCreateDoes
    <2>2. CASE cmd'[c] = NoCommand /\ UNCHANGED packages
      BY <2>0, <2>1, <2>2
    <2>3. CASE ~(cmd'[c] = NoCommand /\ UNCHANGED packages)
      <3> DEFINE d == cmd'[c].packages
      <3>1. /\ Live /\ cmd'[c].op = "userspace" /\ cmd'[c].at = "stage"
            /\ d \in Stamp /\ packages[d] = "none" /\ packages' = [packages EXCEPT ![d] = "partial"]
        BY <1>13, <2>1, <2>3, UserspaceCreateDoes
      <3> HIDE DEF d
      <3>2. packages'[d] = "partial" /\ \A x \in Stamp \ {d} : packages'[x] = packages[x]
        BY <3>1 DEF InputsTypeOK, FilesTyped
      <3> QED
        BY <2>0, <2>1, <3>1, <3>2 DEF d
    <2> QED
      BY <2>2, <2>3
  <1>14. ASSUME UserspaceStage(c) PROVE PackagesKept(c)
    <2> DEFINE d == cmd[c].packages
    <2>1. Stages(c) /\ UNCHANGED session /\ ~Stages(c)'
      BY <1>14 DEF UserspaceStage
    <2>a. d # 0 /\ cmd[c].bundle # "none"
      BY <2>1 DEF Carries
    <2>2. d \in Stamp
      BY <2>a DEF Command, Numbered
    <2>3. CASE cmd'[c] = NoCommand /\ packages' = [packages EXCEPT ![d] = "none"]
      <3>1. packages'[d] = "none" /\ \A x \in Stamp \ {d} : packages'[x] = packages[x]
        BY <2>2, <2>3 DEF InputsTypeOK, FilesTyped
      <3> QED
        BY <2>1, <2>2, <2>3, <3>1
    <2>4. CASE Live /\ Continue(c, "record") /\ packages' = [packages EXCEPT ![d] = bundles[cmd[c].bundle]]
      <3>1. Inspected(bundles[cmd[c].bundle])
        BY <2>1, <2>4, <2>a DEF StagesOK, Prepares, Fills
      <3>2. Inspected(packages'[d]) /\ \A x \in Stamp \ {d} : packages'[x] = packages[x]
        BY <2>2, <2>4, <3>1 DEF InputsTypeOK, FilesTyped
      <3>3. cmd'[c].packages = d
        BY <2>4
      <3>4. packages'[d] # "partial"
        BY <3>2 DEF Inspected
      <3> QED
        BY <2>1, <2>2, <2>4, <3>2, <3>3, <3>4
    <2> QED
      BY <1>14, <2>3, <2>4 DEF UserspaceStage
  <1>15. ASSUME UserspaceEnd(c) PROVE PackagesKept(c)
    BY <1>15 DEF UserspaceEnd, InputsTypeOK, Sessions
  <1>16. ASSUME BundleClosure(c) PROVE PackagesKept(c)
    BY <1>16 DEF BundleClosure, Prepares, StagesOK, Inspected
  <1>17. ASSUME BundleEnd(c) PROVE PackagesKept(c)
    BY <1>17 DEF BundleEnd, InputsTypeOK, Sessions
  <1>18. ASSUME Build(c) PROVE PackagesKept(c)
    BY <1>18, BuildDoes
  <1>19. ASSUME Claim(c) PROVE PackagesKept(c)
    BY <1>19, ClaimDoes
  <1>20. ASSUME BuildSetup(c) PROVE PackagesKept(c)
    BY <1>20 DEF BuildSetup
  <1>21. ASSUME BuildMake(c) PROVE PackagesKept(c)
    BY <1>21, BuildMakeDoes
  <1>22. ASSUME BuildCopy(c) PROVE PackagesKept(c)
    BY <1>22, BuildCopyDoes
  <1>23. ASSUME BuildRelease(c) PROVE PackagesKept(c)
    BY <1>23 DEF BuildRelease
  <1>24. ASSUME BuildCheck(c) PROVE PackagesKept(c)
    BY <1>24 DEF BuildCheck
  <1>25. ASSUME BuildEnd(c) PROVE PackagesKept(c)
    BY <1>25 DEF BuildEnd, Renewed, InputsTypeOK, Sessions
  <1>26. ASSUME Validate(c) PROVE PackagesKept(c)
    BY <1>26, ValidateDoes
  <1>27. ASSUME Package(c) PROVE PackagesKept(c)
    BY <1>27 DEF Package
  <1>28. ASSUME SendArchive(c) PROVE PackagesKept(c)
    BY <1>28 DEF SendArchive
  <1>29. ASSUME SendPackages(c) PROVE PackagesKept(c)
    BY <1>29 DEF SendPackages
  <1>30. ASSUME ValidateWork(c) PROVE PackagesKept(c)
    BY <1>30 DEF ValidateWork
  <1>31. ASSUME ValidateEnd(c) PROVE PackagesKept(c)
    BY <1>31 DEF ValidateEnd, InputsTypeOK, Sessions
  <1>32. ASSUME Install(c) PROVE PackagesKept(c)
    BY <1>32, InstallDoes
  <1>33. ASSUME InstallWork(c) PROVE PackagesKept(c)
    BY <1>33 DEF InstallWork
  <1>34. ASSUME InstallEnd(c) PROVE PackagesKept(c)
    BY <1>34 DEF InstallEnd, InputsTypeOK, Sessions
  <1> QED
    BY <1>1, <1>2, <1>3, <1>4, <1>5, <1>6, <1>7, <1>8, <1>9, <1>10, <1>11, <1>12, <1>13, <1>14,
       <1>15, <1>16, <1>17, <1>18, <1>19, <1>20, <1>21, <1>22, <1>23, <1>24, <1>25, <1>26,
       <1>27, <1>28, <1>29, <1>30, <1>31, <1>32, <1>33, <1>34 DEF CommandStep

\* What a step says of the installer bundles.
HoldsBundle(c) == Prepares(c) /\ ~Fills(c) /\ cmd[c].bundle # "none"
BundleChange(c) ==
  \/ UNCHANGED bundles
  \/ \E k \in BundleKind :
       /\ \A x \in BundleKind \ {k} : bundles'[x] = bundles[x]
       /\ \/ /\ Live /\ bundles[k] = "none" /\ bundles'[k] = "partial"
             /\ Fills(c)' /\ cmd'[c].bundle = k
          \/ /\ Fills(c) /\ ~Fills(c)' /\ cmd[c].bundle = k
             /\ bundles'[k] = "none" \/ (Live /\ bundles'[k] = "whole")
BundlesKept(c) ==
  /\ BundleChange(c)
  /\ Fills(c)' => bundles[cmd'[c].bundle] = "none" /\ bundles'[cmd'[c].bundle] = "partial"
  /\ Fills(c) => bundles'[cmd[c].bundle] # "partial"
  /\ Live /\ HoldsBundle(c)' => Inspected(bundles'[cmd'[c].bundle])
  /\ \/ session'.bundle \in {session.bundle, "none"}
     \/ Live /\ HoldsBundle(c) /\ UNCHANGED bundles /\ session'.bundle = cmd[c].bundle

LEMMA BundlesOfStep ==
  ASSUME InputsTypeOK, CarriesOK, StagesOK, RecordedThere, NEW c \in Call, CommandStep(c)
  PROVE  BundlesKept(c)
  <1>0. Carries(cmd[c]) /\ cmd \in [Call -> Command] /\ cmd[c] \in Command
    BY DEF CarriesOK, InputsTypeOK
  <1> USE <1>0, CommandEffects
  <1> USE DEF Only, Refused, Conclude, CmdAt, CmdIn, Drop, Send, Advanced, Carried, NoCommand,
        BundlesKept, BundleChange, HoldsBundle, Fills, Prepares, Live, inputFiles
  <1>1. ASSUME Resolve(c) PROVE BundlesKept(c)
    <2>1. UNCHANGED <<bundles, session>> /\ cmd'[c].op = "resolve"
      BY <1>1, ResolveDoes DEF inputFiles
    <2>2. cmd[c].op = "none"
      BY <1>1 DEF Resolve, Free
    <2> QED
      BY <2>1, <2>2
  <1>2. ASSUME ResolveCreate(c) PROVE BundlesKept(c)
    BY <1>2, ResolveCreateDoes
  <1>3. ASSUME Downloaded(c) PROVE BundlesKept(c)
    BY <1>3 DEF Downloaded
  <1>4. ASSUME ResolveCheck(c) PROVE BundlesKept(c)
    BY <1>4 DEF ResolveCheck
  <1>5. ASSUME ResolveFail(c) PROVE BundlesKept(c)
    BY <1>5 DEF ResolveFail
  <1>6. ASSUME ResolveEnd(c) PROVE BundlesKept(c)
    BY <1>6 DEF ResolveEnd, Renewed, InputsTypeOK, Sessions
  <1>7. ASSUME Userspace(c) PROVE BundlesKept(c)
    <2>1. /\ UNCHANGED <<bundles, session>> /\ cmd'[c].bundle = session.bundle
          /\ cmd'[c].at = "bundle" /\ cmd[c].op = "none"
      BY <1>7, UserspaceDoes
    <2>2. Live /\ session.bundle # "none" => Inspected(bundles[session.bundle])
      BY DEF RecordedThere, Inspected
    <2> QED
      BY <2>1, <2>2 DEF Inspected
  <1>8. ASSUME Bundle(c) PROVE BundlesKept(c)
    <2>1. /\ UNCHANGED <<bundles, session>> /\ cmd'[c].bundle = session.bundle
          /\ cmd'[c].at = "bundle" /\ cmd[c].op = "none"
      BY <1>8, BundleDoes
    <2>2. Live /\ session.bundle # "none" => Inspected(bundles[session.bundle])
      BY DEF RecordedThere, Inspected
    <2> QED
      BY <2>1, <2>2 DEF Inspected
  <1>9. ASSUME BundleKept(c) PROVE BundlesKept(c)
    <2>1. Live /\ HoldsBundle(c) => Inspected(bundles[cmd[c].bundle])
      BY DEF StagesOK
    <2> QED
      BY <1>9, <2>1 DEF BundleKept, Inspected
  <1>10. ASSUME AcquireBundle(c) PROVE BundlesKept(c)
    <2>1. UNCHANGED session /\ cmd[c].at = "bundle" /\ cmd[c].bundle = "none" /\ Live
      BY <1>10, AcquireBundleDoes
    <2>2. CASE cmd'[c] = NoCommand /\ UNCHANGED bundles
      BY <2>1, <2>2
    <2>3. CASE ~(cmd'[c] = NoCommand /\ UNCHANGED bundles)
      <3> DEFINE k == cmd'[c].bundle
      <3>1. /\ cmd'[c].op \in {"userspace", "bundle"} /\ cmd'[c].at = "fill"
            /\ k \in BundleKind /\ bundles[k] = "none" /\ bundles' = [bundles EXCEPT ![k] = "partial"]
        BY <1>10, <2>1, <2>3, AcquireBundleDoes
      <3> HIDE DEF k
      <3>2. bundles'[k] = "partial" /\ \A x \in BundleKind \ {k} : bundles'[x] = bundles[x]
        BY <3>1 DEF InputsTypeOK, FilesTyped
      <3> QED
        BY <2>1, <3>1, <3>2 DEF k
    <2> QED
      BY <2>2, <2>3
  <1>11. ASSUME Fill(c) PROVE BundlesKept(c)
    <2> DEFINE k == cmd[c].bundle
    <2>1. Fills(c) /\ UNCHANGED session
      BY <1>11 DEF Fill
    <2>2. k \in BundleKind
      BY <2>1 DEF Carries, Command, AnyBundle
    <2>3. CASE cmd'[c] = NoCommand /\ bundles' = [bundles EXCEPT ![k] = "none"]
      <3>1. bundles'[k] = "none" /\ \A x \in BundleKind \ {k} : bundles'[x] = bundles[x]
        BY <2>2, <2>3 DEF InputsTypeOK, FilesTyped
      <3> QED
        BY <2>1, <2>2, <2>3, <3>1
    <2>4. CASE Live /\ Continue(c, "bundled") /\ bundles' = [bundles EXCEPT ![k] = "whole"]
      <3>2. bundles'[k] = "whole" /\ \A x \in BundleKind \ {k} : bundles'[x] = bundles[x]
        BY <2>2, <2>4 DEF InputsTypeOK, FilesTyped
      <3>3. cmd'[c].bundle = k /\ cmd'[c].at = "bundled"
        BY <2>4
      <3> QED
        BY <2>1, <2>2, <2>4, <3>2, <3>3 DEF Inspected
    <2> QED
      BY <1>11, <2>3, <2>4 DEF Fill
  <1>12. ASSUME UserspaceBundle(c) PROVE BundlesKept(c)
    <2>1. Live /\ HoldsBundle(c) => Inspected(bundles[cmd[c].bundle])
      BY DEF StagesOK
    <2> QED
      BY <1>12, <2>1 DEF UserspaceBundle, Inspected, Carries, InputsTypeOK, Sessions
  <1>13. ASSUME UserspaceCreate(c) PROVE BundlesKept(c)
    <2>1. Live /\ HoldsBundle(c) => Inspected(bundles[cmd[c].bundle])
      BY DEF StagesOK
    <2> QED
      BY <1>13, <2>1, UserspaceCreateDoes DEF Inspected
  <1>14. ASSUME UserspaceStage(c) PROVE BundlesKept(c)
    <2>1. Live /\ HoldsBundle(c) => Inspected(bundles[cmd[c].bundle])
      BY DEF StagesOK
    <2> QED
      BY <1>14, <2>1 DEF UserspaceStage, Inspected
  <1>15. ASSUME UserspaceEnd(c) PROVE BundlesKept(c)
    <2>1. Live /\ HoldsBundle(c) => Inspected(bundles[cmd[c].bundle])
      BY DEF StagesOK
    <2> QED
      BY <1>15, <2>1 DEF UserspaceEnd, Inspected, Carries, InputsTypeOK, Sessions
  <1>16. ASSUME BundleClosure(c) PROVE BundlesKept(c)
    <2>1. Live /\ HoldsBundle(c) => Inspected(bundles[cmd[c].bundle])
      BY DEF StagesOK
    <2> QED
      BY <1>16, <2>1 DEF BundleClosure, Inspected
  <1>17. ASSUME BundleEnd(c) PROVE BundlesKept(c)
    <2>1. Live /\ HoldsBundle(c) => Inspected(bundles[cmd[c].bundle])
      BY DEF StagesOK
    <2> QED
      BY <1>17, <2>1 DEF BundleEnd, Inspected, Carries, InputsTypeOK, Sessions
  <1>18. ASSUME Build(c) PROVE BundlesKept(c)
    BY <1>18, BuildDoes
  <1>19. ASSUME Claim(c) PROVE BundlesKept(c)
    BY <1>19, ClaimDoes
  <1>20. ASSUME BuildSetup(c) PROVE BundlesKept(c)
    BY <1>20 DEF BuildSetup
  <1>21. ASSUME BuildMake(c) PROVE BundlesKept(c)
    BY <1>21, BuildMakeDoes
  <1>22. ASSUME BuildCopy(c) PROVE BundlesKept(c)
    BY <1>22, BuildCopyDoes
  <1>23. ASSUME BuildRelease(c) PROVE BundlesKept(c)
    BY <1>23 DEF BuildRelease
  <1>24. ASSUME BuildCheck(c) PROVE BundlesKept(c)
    BY <1>24 DEF BuildCheck
  <1>25. ASSUME BuildEnd(c) PROVE BundlesKept(c)
    BY <1>25 DEF BuildEnd, Renewed, InputsTypeOK, Sessions
  <1>26. ASSUME Validate(c) PROVE BundlesKept(c)
    BY <1>26, ValidateDoes
  <1>27. ASSUME Package(c) PROVE BundlesKept(c)
    BY <1>27 DEF Package
  <1>28. ASSUME SendArchive(c) PROVE BundlesKept(c)
    BY <1>28 DEF SendArchive
  <1>29. ASSUME SendPackages(c) PROVE BundlesKept(c)
    BY <1>29 DEF SendPackages
  <1>30. ASSUME ValidateWork(c) PROVE BundlesKept(c)
    BY <1>30 DEF ValidateWork
  <1>31. ASSUME ValidateEnd(c) PROVE BundlesKept(c)
    BY <1>31 DEF ValidateEnd, InputsTypeOK, Sessions
  <1>32. ASSUME Install(c) PROVE BundlesKept(c)
    BY <1>32, InstallDoes
  <1>33. ASSUME InstallWork(c) PROVE BundlesKept(c)
    BY <1>33 DEF InstallWork
  <1>34. ASSUME InstallEnd(c) PROVE BundlesKept(c)
    BY <1>34 DEF InstallEnd, InputsTypeOK, Sessions
  <1> QED
    BY <1>1, <1>2, <1>3, <1>4, <1>5, <1>6, <1>7, <1>8, <1>9, <1>10, <1>11, <1>12, <1>13, <1>14,
       <1>15, <1>16, <1>17, <1>18, <1>19, <1>20, <1>21, <1>22, <1>23, <1>24, <1>25, <1>26,
       <1>27, <1>28, <1>29, <1>30, <1>31, <1>32, <1>33, <1>34 DEF CommandStep

\* What a step says of the files that are built.
BuiltKept(c) ==
  /\ built' # built => \/ CmdAt(c, "build", "setup") /\ built = "absent" /\ built' = "none"
                      \/ CmdAt(c, "build", "copy")
  /\ built' = "partial" => built = "partial" \/ CmdAt(c, "build", "copy")'
  /\ built' = "partial" /\ CmdAt(c, "build", "copy") => CmdAt(c, "build", "copy")'
  /\ Live => /\ CmdIn(c, "build", {"make", "copy"})' => built' \in {"none", "partial"}
             /\ CmdIn(c, "build", {"release", "check", "record"})' /\ cmd'[c].archive # NoArchive
                  => Inspected(built')

LEMMA BuiltOfStep == ASSUME InputsTypeOK, CarriesOK, BuiltOK, NEW c \in Call, CommandStep(c)
                     PROVE  BuiltKept(c)
  <1>0. Carries(cmd[c]) /\ cmd \in [Call -> Command] /\ cmd[c] \in Command
    BY DEF CarriesOK, InputsTypeOK
  <1> USE <1>0, CommandEffects
  <1> USE DEF Only, Refused, Conclude, CmdAt, CmdIn, Drop, Send, Advanced, Carried, NoCommand,
        BuiltKept, Live, inputFiles
  <1>1. ASSUME Resolve(c) PROVE BuiltKept(c)
    <2>1. UNCHANGED built /\ cmd'[c].op = "resolve"
      BY <1>1, ResolveDoes
    <2>2. cmd[c].op = "none"
      BY <1>1 DEF Resolve, Free
    <2> QED
      BY <2>1, <2>2
  <1>2. ASSUME ResolveCreate(c) PROVE BuiltKept(c)
    BY <1>2, ResolveCreateDoes
  <1>3. ASSUME Downloaded(c) PROVE BuiltKept(c)
    BY <1>3 DEF Downloaded
  <1>4. ASSUME ResolveCheck(c) PROVE BuiltKept(c)
    BY <1>4 DEF ResolveCheck
  <1>5. ASSUME ResolveFail(c) PROVE BuiltKept(c)
    BY <1>5 DEF ResolveFail
  <1>6. ASSUME ResolveEnd(c) PROVE BuiltKept(c)
    BY <1>6 DEF ResolveEnd
  <1>7. ASSUME Userspace(c) PROVE BuiltKept(c)
    BY <1>7, UserspaceDoes
  <1>8. ASSUME Bundle(c) PROVE BuiltKept(c)
    BY <1>8, BundleDoes
  <1>9. ASSUME BundleKept(c) PROVE BuiltKept(c)
    BY <1>9 DEF BundleKept
  <1>10. ASSUME AcquireBundle(c) PROVE BuiltKept(c)
    BY <1>10, AcquireBundleDoes
  <1>11. ASSUME Fill(c) PROVE BuiltKept(c)
    BY <1>11 DEF Fill
  <1>12. ASSUME UserspaceBundle(c) PROVE BuiltKept(c)
    BY <1>12 DEF UserspaceBundle
  <1>13. ASSUME UserspaceCreate(c) PROVE BuiltKept(c)
    BY <1>13, UserspaceCreateDoes
  <1>14. ASSUME UserspaceStage(c) PROVE BuiltKept(c)
    BY <1>14 DEF UserspaceStage
  <1>15. ASSUME UserspaceEnd(c) PROVE BuiltKept(c)
    BY <1>15 DEF UserspaceEnd
  <1>16. ASSUME BundleClosure(c) PROVE BuiltKept(c)
    BY <1>16 DEF BundleClosure
  <1>17. ASSUME BundleEnd(c) PROVE BuiltKept(c)
    BY <1>17 DEF BundleEnd
  <1>18. ASSUME Build(c) PROVE BuiltKept(c)
    BY <1>18, BuildDoes
  <1>19. ASSUME Claim(c) PROVE BuiltKept(c)
    BY <1>19, ClaimDoes DEF Begins
  <1>20. ASSUME BuildSetup(c) PROVE BuiltKept(c)
    <2>1. cmd[c].archive = NoArchive
      BY <1>20 DEF BuildSetup, Carries
    <2> QED
      BY <1>20, <2>1 DEF BuildSetup, InputsTypeOK, FilesTyped, State
  <1>21. ASSUME BuildMake(c) PROVE BuiltKept(c)
    <2>1. cmd[c].archive = NoArchive
      BY <1>21, BuildMakeDoes DEF Carries
    <2> QED
      BY <1>21, <2>1, BuildMakeDoes DEF BuiltOK
  <1>22. ASSUME BuildCopy(c) PROVE BuiltKept(c)
    BY <1>22, BuildCopyDoes DEF BuiltOK, Inspected
  <1>23. ASSUME BuildRelease(c) PROVE BuiltKept(c)
    BY <1>23 DEF BuildRelease, BuiltOK
  <1>24. ASSUME BuildCheck(c) PROVE BuiltKept(c)
    BY <1>24 DEF BuildCheck, BuiltOK
  <1>25. ASSUME BuildEnd(c) PROVE BuiltKept(c)
    BY <1>25 DEF BuildEnd
  <1>26. ASSUME Validate(c) PROVE BuiltKept(c)
    BY <1>26, ValidateDoes
  <1>27. ASSUME Package(c) PROVE BuiltKept(c)
    BY <1>27 DEF Package
  <1>28. ASSUME SendArchive(c) PROVE BuiltKept(c)
    BY <1>28 DEF SendArchive
  <1>29. ASSUME SendPackages(c) PROVE BuiltKept(c)
    BY <1>29 DEF SendPackages
  <1>30. ASSUME ValidateWork(c) PROVE BuiltKept(c)
    BY <1>30 DEF ValidateWork
  <1>31. ASSUME ValidateEnd(c) PROVE BuiltKept(c)
    BY <1>31 DEF ValidateEnd
  <1>32. ASSUME Install(c) PROVE BuiltKept(c)
    BY <1>32, InstallDoes
  <1>33. ASSUME InstallWork(c) PROVE BuiltKept(c)
    BY <1>33 DEF InstallWork
  <1>34. ASSUME InstallEnd(c) PROVE BuiltKept(c)
    BY <1>34 DEF InstallEnd
  <1> QED
    BY <1>1, <1>2, <1>3, <1>4, <1>5, <1>6, <1>7, <1>8, <1>9, <1>10, <1>11, <1>12, <1>13, <1>14,
       <1>15, <1>16, <1>17, <1>18, <1>19, <1>20, <1>21, <1>22, <1>23, <1>24, <1>25, <1>26,
       <1>27, <1>28, <1>29, <1>30, <1>31, <1>32, <1>33, <1>34 DEF CommandStep

\* What a step says of the record of the session.
SessionKept(c) ==
  /\ session'.live = session.live /\ (~Live => UNCHANGED session)
  /\ \/ session'.res = session.res
     \/ session'.res.status = "compatible" => Fitting(session'.res.archive, session'.res.version)
  /\ \/ session'.inst \in {session.inst, NoInst}
     \/ /\ CmdAt(c, "install", "record") /\ Fitting(cmd[c].archive, Reviewed)
        /\ session'.inst = [said |-> cmd[c].archive, used |-> box.guest.archive,
                            whole |-> box.guest.whole, bundle |-> box.guest.bundle]

LEMMA SessionOfStep == ASSUME InputsTypeOK, CarriesOK, NEW c \in Call, CommandStep(c)
                       PROVE  SessionKept(c)
  <1>0. Carries(cmd[c]) /\ cmd \in [Call -> Command] /\ cmd[c] \in Command
    BY DEF CarriesOK, InputsTypeOK
  <1> USE <1>0, CommandEffects
  <1> USE DEF Only, Refused, Conclude, CmdAt, CmdIn, Drop, Send, SessionKept, Live, inputFiles
  <1>1. ASSUME Resolve(c) PROVE SessionKept(c)
    BY <1>1, ResolveDoes
  <1>2. ASSUME ResolveCreate(c) PROVE SessionKept(c)
    BY <1>2, ResolveCreateDoes
  <1>3. ASSUME Downloaded(c) PROVE SessionKept(c)
    BY <1>3 DEF Downloaded
  <1>4. ASSUME ResolveCheck(c) PROVE SessionKept(c)
    BY <1>4 DEF ResolveCheck
  <1>5. ASSUME ResolveFail(c) PROVE SessionKept(c)
    BY <1>5 DEF ResolveFail
  <1>6. ASSUME ResolveEnd(c) PROVE SessionKept(c)
    <2>1. session' = session \/ (Live /\ session' = Renewed(Found(c)))
      BY <1>6 DEF ResolveEnd
    <2>2. /\ Renewed(Found(c)).res = Found(c) /\ Renewed(Found(c)).live = session.live
          /\ Renewed(Found(c)).inst = NoInst
      BY DEF Renewed, InputsTypeOK, Sessions
    <2>3. cmd[c].archive # NoArchive => Fitting(cmd[c].archive, cmd[c].version)
      BY <1>6 DEF ResolveEnd, Carries
    <2>4. Found(c).status = "compatible" => Fitting(Found(c).archive, Found(c).version)
      BY <2>3 DEF Found
    <2> HIDE DEF Renewed, Found
    <2> QED
      BY <2>1, <2>2, <2>4
  <1>7. ASSUME Userspace(c) PROVE SessionKept(c)
    BY <1>7, UserspaceDoes
  <1>8. ASSUME Bundle(c) PROVE SessionKept(c)
    BY <1>8, BundleDoes
  <1>9. ASSUME BundleKept(c) PROVE SessionKept(c)
    BY <1>9 DEF BundleKept
  <1>10. ASSUME AcquireBundle(c) PROVE SessionKept(c)
    BY <1>10, AcquireBundleDoes
  <1>11. ASSUME Fill(c) PROVE SessionKept(c)
    BY <1>11 DEF Fill
  <1>12. ASSUME UserspaceBundle(c) PROVE SessionKept(c)
    BY <1>12 DEF UserspaceBundle, InputsTypeOK, Sessions
  <1>13. ASSUME UserspaceCreate(c) PROVE SessionKept(c)
    BY <1>13, UserspaceCreateDoes
  <1>14. ASSUME UserspaceStage(c) PROVE SessionKept(c)
    BY <1>14 DEF UserspaceStage
  <1>15. ASSUME UserspaceEnd(c) PROVE SessionKept(c)
    BY <1>15 DEF UserspaceEnd, InputsTypeOK, Sessions
  <1>16. ASSUME BundleClosure(c) PROVE SessionKept(c)
    BY <1>16 DEF BundleClosure
  <1>17. ASSUME BundleEnd(c) PROVE SessionKept(c)
    BY <1>17 DEF BundleEnd, InputsTypeOK, Sessions
  <1>18. ASSUME Build(c) PROVE SessionKept(c)
    BY <1>18, BuildDoes
  <1>19. ASSUME Claim(c) PROVE SessionKept(c)
    BY <1>19, ClaimDoes
  <1>20. ASSUME BuildSetup(c) PROVE SessionKept(c)
    BY <1>20 DEF BuildSetup
  <1>21. ASSUME BuildMake(c) PROVE SessionKept(c)
    BY <1>21, BuildMakeDoes
  <1>22. ASSUME BuildCopy(c) PROVE SessionKept(c)
    BY <1>22, BuildCopyDoes
  <1>23. ASSUME BuildRelease(c) PROVE SessionKept(c)
    BY <1>23 DEF BuildRelease
  <1>24. ASSUME BuildCheck(c) PROVE SessionKept(c)
    BY <1>24 DEF BuildCheck
  <1>25. ASSUME BuildEnd(c) PROVE SessionKept(c)
    <2>1. session' = session \/ (Live /\ session' = Renewed(Found(c)))
      BY <1>25 DEF BuildEnd
    <2>2. /\ Renewed(Found(c)).res = Found(c) /\ Renewed(Found(c)).live = session.live
          /\ Renewed(Found(c)).inst = NoInst
      BY DEF Renewed, InputsTypeOK, Sessions
    <2>3. cmd[c].archive # NoArchive => Fitting(cmd[c].archive, cmd[c].version)
      BY <1>25 DEF BuildEnd, Carries
    <2>4. Found(c).status = "compatible" => Fitting(Found(c).archive, Found(c).version)
      BY <2>3 DEF Found
    <2> HIDE DEF Renewed, Found
    <2> QED
      BY <2>1, <2>2, <2>4
  <1>26. ASSUME Validate(c) PROVE SessionKept(c)
    BY <1>26, ValidateDoes
  <1>27. ASSUME Package(c) PROVE SessionKept(c)
    BY <1>27 DEF Package
  <1>28. ASSUME SendArchive(c) PROVE SessionKept(c)
    BY <1>28 DEF SendArchive
  <1>29. ASSUME SendPackages(c) PROVE SessionKept(c)
    BY <1>29 DEF SendPackages
  <1>30. ASSUME ValidateWork(c) PROVE SessionKept(c)
    BY <1>30 DEF ValidateWork
  <1>31. ASSUME ValidateEnd(c) PROVE SessionKept(c)
    BY <1>31 DEF ValidateEnd, InputsTypeOK, Sessions
  <1>32. ASSUME Install(c) PROVE SessionKept(c)
    BY <1>32, InstallDoes
  <1>33. ASSUME InstallWork(c) PROVE SessionKept(c)
    BY <1>33 DEF InstallWork
  <1>34. ASSUME InstallEnd(c) PROVE SessionKept(c)
    BY <1>34 DEF InstallEnd, Carries, InputsTypeOK, Sessions
  <1> QED
    BY <1>1, <1>2, <1>3, <1>4, <1>5, <1>6, <1>7, <1>8, <1>9, <1>10, <1>11, <1>12, <1>13, <1>14,
       <1>15, <1>16, <1>17, <1>18, <1>19, <1>20, <1>21, <1>22, <1>23, <1>24, <1>25, <1>26,
       <1>27, <1>28, <1>29, <1>30, <1>31, <1>32, <1>33, <1>34 DEF CommandStep

\* The steps that are no command's leave the commands and the guest alone.
LEMMA OtherSteps ==
  ASSUME [InputsNext]_inputVars, ~ \E c \in Call : CommandStep(c)
  PROVE  UNCHANGED <<cmd, box>> /\ (HandOff \/ FileChanged \/ SessionEnds \/ UNCHANGED inputVars)
  BY DEF InputsNext, inputVars, HandOff, FileChanged, SessionEnds

\* Each part of the invariant is kept by the command's step, and by the others.
LEMMA BoxStep == ASSUME InputsIInv, [InputsNext]_inputVars PROVE BoxOK'
  <1> USE DEF InputsIInv
  <1>1. ASSUME NEW c \in Call, CommandStep(c) PROVE BoxOK'
    <2>1. BoxKept(c) /\ OthersStay(c)
      BY <1>1, BoxOfStep, CarriesOfStep
    <2>2. \A b \in Call : Boxed(b) => box.state # "ready" /\ box.state # "gone"
      BY DEF BoxOK, Boxed, Claims, CmdAt, CmdIn
    <2>3. \A b \in Call \ {c} : /\ Boxed(b)' <=> Boxed(b)
                                /\ CmdAt(b, "install", "record")' <=> CmdAt(b, "install", "record")
                                /\ cmd'[b] = cmd[b]
      BY <2>1 DEF OthersStay, Boxed, CmdAt, CmdIn
    <2>4. \A b \in Call \ {c} : Boxed(b) => box' = box /\ ~Boxed(c) /\ ~Boxed(c)'
      BY <2>1, <2>2 DEF BoxKept, BoxOK
    <2>5. \A b \in Call : Boxed(b)' => box'.state = Claims[cmd'[b].op]
      BY <2>1, <2>3, <2>4 DEF BoxKept, BoxOK
    <2>6. \A a, b \in Call : Boxed(a)' /\ Boxed(b)' => a = b
      BY <2>3, <2>4 DEF BoxOK
    <2>7. ASSUME NEW b \in Call, CmdAt(b, "install", "record")'
          PROVE  box'.state = "gone" /\ GuestAccepts' /\ ResultMatches(b)'
      <3>1. CASE b = c
        BY <2>1, <2>7, <3>1 DEF BoxKept
      <3>2. CASE b # c
        <4>1. box.state = "gone" /\ GuestAccepts /\ ResultMatches(b)
          BY <2>3, <2>7, <3>2 DEF BoxOK
        <4>2. box' = box /\ cmd'[b] = cmd[b]
          BY <2>1, <2>2, <2>3, <3>2, <4>1 DEF BoxKept
        <4> QED
          BY <4>1, <4>2 DEF GuestAccepts, ResultMatches
      <3> QED
        BY <3>1, <3>2
    <2> QED
      BY <2>5, <2>6, <2>7 DEF BoxOK
  <1>2. CASE ~ \E c \in Call : CommandStep(c)
    <2>1. UNCHANGED <<cmd, box>>
      BY <1>2, OtherSteps
    <2> QED
      BY <2>1 DEF BoxOK, Boxed, CmdAt, CmdIn, GuestAccepts, ResultMatches
  <1> QED
    BY <1>1, <1>2

LEMMA CarriesStep == ASSUME InputsIInv, [InputsNext]_inputVars PROVE CarriesOK'
  <1> USE DEF InputsIInv
  <1>1. ASSUME NEW c \in Call, CommandStep(c) PROVE CarriesOK'
    BY <1>1, CarriesOfStep DEF CarriesOK, OthersStay
  <1>2. CASE ~ \E c \in Call : CommandStep(c)
    BY <1>2, OtherSteps DEF CarriesOK
  <1> QED
    BY <1>1, <1>2

\* A step leaves a directory alone that another command downloads to.
LEMMA OthersDownloads ==
  ASSUME InputsIInv, NEW c \in Call, CommandStep(c), NEW d \in Stamp, d \in named,
         ~(Resolves(c) /\ cmd[c].place = d)
  PROVE  pub'[d] = pub[d] /\ d \in named'
  BY DownloadOfStep DEF InputsIInv, DownloadKept, PubChange

\* A new directory is nobody's, and one that is recorded has its files.
LEMMA DownloadsStep == ASSUME InputsIInv, [InputsNext]_inputVars PROVE DownloadsOK'
  <1> USE DEF InputsIInv
  <1>t. cmd \in [Call -> Command] /\ pub \in [Stamp -> [Part -> State]] /\ named \subseteq Stamp
    BY DEF InputsTypeOK, FilesTyped
  <1>1. ASSUME NEW c \in Call, CommandStep(c) PROVE DownloadsOK'
    <2>1. DownloadKept(c) /\ OthersStay(c) /\ session'.live = session.live
      BY <1>1, DownloadOfStep, CarriesOfStep DEF DownloadKept
    <2>2. \A b \in Call \ {c} : Resolves(b)' <=> Resolves(b)
      BY <2>1 DEF OthersStay, Resolves
    <2>3. named \subseteq named'
      BY <2>1 DEF DownloadKept, PubChange
    <2>4. ASSUME Live, NEW b \in Call \ {c}, Resolves(b)
          PROVE  /\ cmd[b].place \in named /\ ~(Resolves(c) /\ cmd[c].place = cmd[b].place)
                 /\ pub'[cmd[b].place] = pub[cmd[b].place] /\ Downloads(b)'
      <3>1. cmd[b].place \in named /\ ~(Resolves(c) /\ cmd[c].place = cmd[b].place) /\ Downloads(b)
        BY <2>4 DEF DownloadsOK
      <3>2. pub'[cmd[b].place] = pub[cmd[b].place]
        BY <1>1, <1>t, <3>1, OthersDownloads
      <3>3. cmd'[b] = cmd[b]
        BY <2>1 DEF OthersStay
      <3> QED
        BY <3>1, <3>2, <3>3 DEF Downloads, Inspected
    <2>5. ASSUME Live, Resolves(c)' PROVE cmd'[c].place # session'.res.place
      <3>0. cmd'[c].place # 0 /\ (session.res.place # 0 => session.res.place \in named)
        BY <2>5 DEF Resolves, DownloadsOK
      <3>1. CASE session'.res = session.res
        BY <2>1, <2>5, <3>0, <3>1 DEF DownloadKept, DownloadsOK
      <3>2. CASE session'.res # session.res
        BY <2>1, <2>5, <3>0, <3>2 DEF DownloadKept
      <3> QED
        BY <3>1, <3>2
    <2>6. ASSUME Live, NEW b \in Call \ {c}, Resolves(b) PROVE cmd[b].place # session'.res.place
      <3>1. cmd[b].place # session.res.place /\ cmd[b].place # 0
        BY <2>6 DEF DownloadsOK, Resolves
      <3> QED
        BY <3>1, <2>1, <2>4, <2>6 DEF DownloadKept
    <2>7. ASSUME Live, NEW b \in Call, Resolves(b)'
          PROVE  cmd'[b].place \in named' /\ cmd'[b].place # session'.res.place /\ Downloads(b)'
      <3>1. CASE b = c
        BY <2>1, <2>5, <2>7, <3>1 DEF DownloadKept
      <3>2. CASE b # c
        <4>1. Resolves(b) /\ cmd'[b] = cmd[b] /\ b \in Call \ {c}
          BY <2>1, <2>2, <2>7, <3>2 DEF OthersStay
        <4> QED
          BY <2>3, <2>4, <2>6, <2>7, <4>1
      <3> QED
        BY <3>1, <3>2
    <2>8. ASSUME Live, NEW b \in Call \ {c}, Resolves(b)', Resolves(c)'
          PROVE  cmd'[b].place # cmd'[c].place
      <3>1. Resolves(b) /\ cmd'[b] = cmd[b]
        BY <2>1, <2>2, <2>8 DEF OthersStay
      <3>2. cmd'[c].place \notin named \/ (Resolves(c) /\ cmd'[c].place = cmd[c].place)
        BY <2>1, <2>8 DEF DownloadKept
      <3> QED
        BY <3>1, <3>2, <2>4, <2>8
    <2>9. ASSUME Live, NEW a \in Call, NEW b \in Call, Resolves(a)', Resolves(b)',
                 cmd'[a].place = cmd'[b].place
          PROVE  a = b
      <3>1. CASE a = c \/ b = c
        BY <2>8, <2>9, <3>1
      <3>2. CASE a # c /\ b # c
        BY <2>1, <2>2, <2>9, <3>2 DEF OthersStay, DownloadsOK
      <3> QED
        BY <3>1, <3>2
    <2>10. Live /\ session'.res.place # 0 => session'.res.place \in named'
      BY <2>1, <2>3 DEF DownloadKept, DownloadsOK
    <2>11. ASSUME NEW d \in Stamp \ named' PROVE \A p \in Part : pub'[d][p] = "none"
      <3>1. \A p \in Part : pub[d][p] = "none"
        BY <2>3 DEF DownloadsOK
      <3>2. pub'[d] = pub[d] \/ Cleared(d) \/ (Live /\ Resolves(c) /\ cmd[c].place = d)
        BY <2>1, <2>11 DEF DownloadKept, PubChange
      <3>3. Live /\ Resolves(c) => cmd[c].place \in named
        BY DEF DownloadsOK
      <3> QED
        BY <2>3, <3>1, <3>2, <3>3 DEF Cleared
    <2> QED
      BY <2>1, <2>7, <2>9, <2>10, <2>11 DEF DownloadsOK, Live
  <1>2. CASE ~ \E c \in Call : CommandStep(c)
    <2>0. UNCHANGED cmd
      BY <1>2, OtherSteps
    <2>1. CASE UNCHANGED <<pub, named>> /\ session'.res = session.res /\ session'.live = session.live
      BY <2>0, <2>1 DEF DownloadsOK, Downloads, Resolves, Inspected, Live
    <2>2. CASE FileChanged
      <3>1. UNCHANGED <<session, named>>
        BY <2>2 DEF FileChanged
      <3>2. CASE UNCHANGED pub
        BY <3>1, <3>2, <2>1
      <3>3. CASE ~ UNCHANGED pub
        <4>1. PICK d \in Stamp : /\ pub[d]["archive"] = "whole"
                                 /\ pub' = [pub EXCEPT ![d]["archive"] = "changed"]
          BY <2>2, <3>3 DEF FileChanged
        <4>2. /\ \A x \in Stamp \ {d} : pub'[x] = pub[x]
              /\ pub'[d]["sidecars"] = pub[d]["sidecars"] /\ pub'[d]["archive"] = "changed"
          BY <1>t, <4>1 DEF Part
        <4>3. d \in named
          BY <4>1 DEF DownloadsOK, Part
        <4>4. \A c \in Call : Live /\ Resolves(c) => cmd[c].place \in Stamp /\ Downloads(c)
          BY <1>t DEF DownloadsOK
        <4>5. \A c \in Call : Live /\ Resolves(c) => Downloads(c)'
          BY <4>1, <4>2, <4>4, <2>0 DEF Downloads, Inspected
        <4>6. \A x \in Stamp \ named : \A p \in Part : pub'[x][p] = "none"
          BY <4>2, <4>3 DEF DownloadsOK
        <4> QED
          BY <2>0, <3>1, <4>5, <4>6 DEF DownloadsOK, Resolves, Live
      <3> QED
        BY <3>2, <3>3
    <2>3. CASE SessionEnds
      BY <2>3 DEF SessionEnds, DownloadsOK, Live, NoSession
    <2>4. CASE HandOff \/ UNCHANGED inputVars
      BY <2>1, <2>4 DEF HandOff, inputFiles, inputVars, InputsTypeOK, Sessions
    <2> QED
      BY <1>2, <2>2, <2>3, <2>4, OtherSteps
  <1> QED
    BY <1>1, <1>2

\* It leaves packages and a bundle alone that another command holds.
LEMMA OthersPackages ==
  ASSUME InputsIInv, NEW c \in Call, CommandStep(c), NEW d \in Stamp, packages[d] # "none",
         ~(Stages(c) /\ cmd[c].packages = d)
  PROVE  packages'[d] = packages[d]
  BY PackagesOfStep DEF InputsIInv, InputsExact, PackagesKept, PackChange

LEMMA OthersBundles ==
  ASSUME InputsIInv, NEW c \in Call, CommandStep(c), NEW k \in BundleKind, bundles[k] # "none",
         ~(Fills(c) /\ cmd[c].bundle = k)
  PROVE  bundles'[k] = bundles[k]
  BY BundlesOfStep DEF InputsIInv, InputsExact, BundlesKept, BundleChange

\* A free entry is taken by one command, and leaves it whole or not at all.
LEMMA StagesStep == ASSUME InputsIInv, [InputsNext]_inputVars PROVE StagesOK'
  <1> USE DEF InputsIInv
  <1>t. /\ cmd \in [Call -> Command] /\ packages \in [Stamp -> State]
        /\ bundles \in [BundleKind -> State]
    BY DEF InputsTypeOK, FilesTyped
  <1>p. \A c \in Call : Stages(c) \/ HoldsPackages(c) => cmd[c].packages \in Stamp
    BY <1>t, InputTypes DEF CarriesOK, Carries, Stages, HoldsPackages, CmdAt, Command, Numbered
  <1>b. \A c \in Call : Fills(c) \/ HoldsBundle(c) => cmd[c].bundle \in BundleKind
    BY <1>t DEF CarriesOK, Carries, Fills, Prepares, HoldsBundle, Command, AnyBundle
  <1>h. StagesOK <=>
          (Live => /\ \A c \in Call :
                        /\ Stages(c) => packages[cmd[c].packages] = "partial"
                        /\ HoldsPackages(c) => Inspected(packages[cmd[c].packages])
                        /\ Fills(c) => bundles[cmd[c].bundle] = "partial"
                        /\ HoldsBundle(c) => Inspected(bundles[cmd[c].bundle])
                   /\ \A b, c \in Call :
                        /\ Stages(b) /\ Stages(c) /\ cmd[b].packages = cmd[c].packages => b = c
                        /\ Fills(b) /\ Fills(c) /\ cmd[b].bundle = cmd[c].bundle => b = c)
    BY DEF StagesOK, HoldsPackages, HoldsBundle
  <1>1. ASSUME NEW c \in Call, CommandStep(c) PROVE StagesOK'
    <2>1. PackagesKept(c) /\ BundlesKept(c) /\ OthersStay(c) /\ session'.live = session.live
      BY <1>1, PackagesOfStep, BundlesOfStep, CarriesOfStep, SessionOfStep
         DEF InputsExact, SessionKept
    <2>2. \A b \in Call \ {c} : /\ cmd'[b] = cmd[b] /\ (Stages(b)' <=> Stages(b))
                                /\ (HoldsPackages(b)' <=> HoldsPackages(b))
                                /\ (Fills(b)' <=> Fills(b)) /\ (HoldsBundle(b)' <=> HoldsBundle(b))
      BY <2>1 DEF OthersStay, Stages, HoldsPackages, Fills, HoldsBundle, Prepares, CmdAt
    <2>3. ASSUME Live, NEW b \in Call \ {c}, Stages(b) \/ HoldsPackages(b)
          PROVE  packages'[cmd[b].packages] = packages[cmd[b].packages]
      <3>1. packages[cmd[b].packages] # "none"
        BY <1>h, <2>3 DEF Inspected
      <3>2. ~(Stages(c) /\ cmd[c].packages = cmd[b].packages)
        BY <1>h, <2>3 DEF Inspected
      <3> QED
        BY <1>1, <1>p, <2>3, <3>1, <3>2, OthersPackages
    <2>4. ASSUME Live, NEW b \in Call \ {c}, Fills(b) \/ HoldsBundle(b)
          PROVE  bundles'[cmd[b].bundle] = bundles[cmd[b].bundle]
      <3>1. bundles[cmd[b].bundle] # "none"
        BY <1>h, <2>4 DEF Inspected
      <3>2. ~(Fills(c) /\ cmd[c].bundle = cmd[b].bundle)
        BY <1>h, <2>4 DEF Inspected
      <3> QED
        BY <1>1, <1>b, <2>4, <3>1, <3>2, OthersBundles
    <2>5. ASSUME Live, NEW b \in Call
          PROVE  /\ Stages(b)' => packages'[cmd'[b].packages] = "partial"
                 /\ HoldsPackages(b)' => Inspected(packages'[cmd'[b].packages])
                 /\ Fills(b)' => bundles'[cmd'[b].bundle] = "partial"
                 /\ HoldsBundle(b)' => Inspected(bundles'[cmd'[b].bundle])
      <3>1. CASE b = c
        BY <2>1, <2>5, <3>1 DEF PackagesKept, BundlesKept
      <3>2. CASE b # c
        BY <1>h, <2>2, <2>3, <2>4, <2>5, <3>2
      <3> QED
        BY <3>1, <3>2
    <2>6. ASSUME Live, NEW b \in Call \ {c}
          PROVE  /\ ~(Stages(b)' /\ Stages(c)' /\ cmd'[b].packages = cmd'[c].packages)
                 /\ ~(Fills(b)' /\ Fills(c)' /\ cmd'[b].bundle = cmd'[c].bundle)
      <3>1. ASSUME Stages(b)', Stages(c)' PROVE cmd'[b].packages # cmd'[c].packages
        BY <1>h, <2>1, <2>2, <2>6, <3>1 DEF PackagesKept
      <3>2. ASSUME Fills(b)', Fills(c)' PROVE cmd'[b].bundle # cmd'[c].bundle
        BY <1>h, <2>1, <2>2, <2>6, <3>2 DEF BundlesKept
      <3> QED
        BY <3>1, <3>2
    <2>7. ASSUME Live, NEW a \in Call, NEW b \in Call
          PROVE  /\ Stages(a)' /\ Stages(b)' /\ cmd'[a].packages = cmd'[b].packages => a = b
                 /\ Fills(a)' /\ Fills(b)' /\ cmd'[a].bundle = cmd'[b].bundle => a = b
      <3>1. CASE a = c \/ b = c
        BY <2>6, <2>7, <3>1
      <3>2. CASE a # c /\ b # c
        BY <1>h, <2>2, <2>7, <3>2
      <3> QED
        BY <3>1, <3>2
    <2> QED
      BY <2>1, <2>5, <2>7 DEF StagesOK, HoldsPackages, HoldsBundle, Live
  <1>2. CASE ~ \E c \in Call : CommandStep(c)
    <2>0. UNCHANGED cmd
      BY <1>2, OtherSteps
    <2>1. ASSUME session'.live = session.live,
                 \A d \in Stamp : packages'[d] = packages[d]
                                  \/ (Inspected(packages[d]) /\ Inspected(packages'[d])),
                 \A k \in BundleKind : bundles'[k] = bundles[k]
                                       \/ (Inspected(bundles[k]) /\ Inspected(bundles'[k]))
          PROVE  StagesOK'
      <3>1. \A c \in Call : /\ Stages(c)' = Stages(c) /\ HoldsPackages(c)' = HoldsPackages(c)
                            /\ Fills(c)' = Fills(c) /\ HoldsBundle(c)' = HoldsBundle(c)
        BY <2>0 DEF Stages, HoldsPackages, Fills, HoldsBundle, Prepares, CmdAt
      <3>2. ASSUME Live, NEW c \in Call
            PROVE  /\ Stages(c) => packages'[cmd[c].packages] = "partial"
                   /\ HoldsPackages(c) => Inspected(packages'[cmd[c].packages])
                   /\ Fills(c) => bundles'[cmd[c].bundle] = "partial"
                   /\ HoldsBundle(c) => Inspected(bundles'[cmd[c].bundle])
        BY <1>h, <1>p, <1>b, <2>1, <3>2 DEF Inspected
      <3> QED
        BY <1>h, <2>0, <2>1, <3>1, <3>2 DEF StagesOK, HoldsPackages, HoldsBundle, Live
    <2>2. CASE FileChanged
      <3>1. UNCHANGED session
        BY <2>2 DEF FileChanged
      <3>2. \/ UNCHANGED packages
            \/ \E d \in Stamp : packages[d] = "whole" /\ packages' = [packages EXCEPT ![d] = "changed"]
        BY <2>2 DEF FileChanged
      <3>3. \/ UNCHANGED bundles
            \/ \E k \in BundleKind : bundles[k] = "whole" /\ bundles' = [bundles EXCEPT ![k] = "changed"]
        BY <2>2 DEF FileChanged
      <3>4. \A d \in Stamp : packages'[d] = packages[d]
                             \/ (Inspected(packages[d]) /\ Inspected(packages'[d]))
        BY <1>t, <3>2 DEF Inspected
      <3>5. \A k \in BundleKind : bundles'[k] = bundles[k]
                                  \/ (Inspected(bundles[k]) /\ Inspected(bundles'[k]))
        BY <1>t, <3>3 DEF Inspected
      <3> QED
        BY <2>1, <3>1, <3>4, <3>5
    <2>3. CASE SessionEnds
      BY <2>3 DEF SessionEnds, StagesOK, Live, NoSession
    <2>4. CASE HandOff \/ UNCHANGED inputVars
      BY <2>1, <2>4 DEF HandOff, inputFiles, inputVars, InputsTypeOK, Sessions
    <2> QED
      BY <1>2, <2>2, <2>3, <2>4, OtherSteps
  <1> QED
    BY <1>1, <1>2

\* Only one command builds at a time.
LEMMA OthersBuilt ==
  ASSUME InputsIInv, NEW c \in Call, CommandStep(c), Live, Inspected(built)
  PROVE  built' = built
  BY BuiltOfStep DEF InputsIInv, BuiltKept, BuiltOK, Inspected, CmdAt, CmdIn

\* What was built stays, and what is being built is in one command's hands.
LEMMA BuiltStep == ASSUME InputsIInv, [InputsNext]_inputVars PROVE BuiltOK'
  <1> USE DEF InputsIInv
  <1>1. ASSUME NEW c \in Call, CommandStep(c) PROVE BuiltOK'
    <2>1. BuiltKept(c) /\ OthersStay(c) /\ session'.live = session.live
      BY <1>1, BuiltOfStep, CarriesOfStep, SessionOfStep DEF SessionKept
    <2>2. SUFFICES ASSUME Live, NEW b \in Call \ {c}
                   PROVE  /\ CmdIn(b, "build", {"make", "copy"})' => built' \in {"none", "partial"}
                          /\ CmdIn(b, "build", {"release", "check", "record"})'
                             /\ cmd'[b].archive # NoArchive => Inspected(built')
      BY <2>1 DEF BuiltOK, BuiltKept, Live
    <2>3. cmd'[b] = cmd[b]
      BY <2>1 DEF OthersStay
    <2>4. ASSUME CmdIn(b, "build", {"make", "copy"}) PROVE built' \in {"none", "partial"}
      <3>1. Boxed(b) /\ built \in {"none", "partial"}
        BY <2>2, <2>4 DEF Boxed, CmdIn, BuiltOK
      <3>2. ~CmdAt(c, "build", "copy") /\ ~CmdAt(c, "build", "setup")
        BY <3>1 DEF BoxOK, Boxed, CmdAt, CmdIn
      <3> QED
        BY <2>1, <3>1, <3>2 DEF BuiltKept
    <2>5. ASSUME CmdIn(b, "build", {"release", "check", "record"}), cmd[b].archive # NoArchive
          PROVE  Inspected(built')
      <3>1. Inspected(built)
        BY <2>2, <2>5 DEF BuiltOK
      <3> QED
        BY <1>1, <2>2, <3>1, OthersBuilt
    <2> QED
      BY <2>3, <2>4, <2>5 DEF CmdIn
  <1>2. CASE ~ \E c \in Call : CommandStep(c)
    <2>0. UNCHANGED cmd
      BY <1>2, OtherSteps
    <2>1. CASE SessionEnds
      BY <2>1 DEF SessionEnds, BuiltOK, Live, NoSession
    <2>2. CASE ~SessionEnds
      <3>1. session'.live = session.live
        BY <1>2, <2>2, OtherSteps DEF HandOff, FileChanged, inputVars, InputsTypeOK, Sessions
      <3>2. built' = built \/ (built = "whole" /\ built' = "changed")
        BY <1>2, <2>2, OtherSteps DEF HandOff, FileChanged, inputVars, inputFiles
      <3> QED
        BY <2>0, <3>1, <3>2 DEF BuiltOK, Live, CmdIn, Inspected
    <2> QED
      BY <2>1, <2>2
  <1> QED
    BY <1>1, <1>2

\* A record is made from what a command carried.
LEMMA ResolvedStep == ASSUME InputsIInv, [InputsNext]_inputVars PROVE ResolvedOK'
  <1> USE DEF InputsIInv
  <1>1. ASSUME NEW c \in Call, CommandStep(c) PROVE ResolvedOK'
    BY <1>1, SessionOfStep DEF SessionKept, ResolvedOK
  <1>2. CASE ~ \E c \in Call : CommandStep(c)
    <2>1. session'.res = session.res \/ session'.res.status = "none"
      BY <1>2, OtherSteps DEF HandOff, FileChanged, SessionEnds, NoSession, NoRes, inputVars,
         InputsTypeOK, Sessions
    <2> QED
      BY <2>1 DEF ResolvedOK
  <1> QED
    BY <1>1, <1>2

\* Nothing comes back after the end of a session.
LEMMA EndedStep == ASSUME InputsIInv, [InputsNext]_inputVars PROVE EndedOK'
  <1> USE DEF InputsIInv
  <1>1. ASSUME NEW c \in Call, CommandStep(c) PROVE EndedOK'
    <2>1. SessionKept(c) /\ PackagesKept(c) /\ BundlesKept(c) /\ PubChange(c)
      BY <1>1, SessionOfStep, PackagesOfStep, BundlesOfStep, DownloadOfStep
         DEF InputsExact, DownloadKept
    <2>2. SUFFICES ASSUME ~Live
                   PROVE  /\ session' = NoSession /\ named' = {}
                          /\ \A d \in Stamp : packages'[d] = "none"
                          /\ \A k \in BundleKind : bundles'[k] = "none"
      BY <2>1 DEF EndedOK, SessionKept, Live
    <2>3. session' = NoSession /\ named' = {}
      BY <2>1, <2>2 DEF EndedOK, SessionKept, PubChange
    <2>4. \A d \in Stamp : packages'[d] = "none"
      BY <2>1, <2>2 DEF EndedOK, PackagesKept, PackChange
    <2>5. \A k \in BundleKind : bundles'[k] = "none"
      BY <2>1, <2>2 DEF EndedOK, BundlesKept, BundleChange
    <2> QED
      BY <2>3, <2>4, <2>5
  <1>2. CASE HandOff
    <2>1. session'.live /\ Live
      BY <1>2 DEF HandOff, EndedOK, Live, NoSession, InputsTypeOK, Sessions
    <2> QED
      BY <2>1 DEF EndedOK, Live
  <1>3. CASE FileChanged
    BY <1>3 DEF FileChanged, EndedOK, Live
  <1>4. CASE SessionEnds
    BY <1>4 DEF SessionEnds, EndedOK
  <1>5. CASE UNCHANGED inputVars
    BY <1>5 DEF inputVars, inputFiles, EndedOK, Live
  <1> QED
    BY <1>1, <1>2, <1>3, <1>4, <1>5 DEF InputsNext

\* What the guest used for an installation that is recorded was compared.
LEMMA InstalledStep == ASSUME InputsIInv, [InputsNext]_inputVars PROVE InstalledExact'
  <1> USE DEF InputsIInv, InputsExact
  <1>1. ASSUME NEW c \in Call, CommandStep(c) PROVE InstalledExact'
    <2>1. SessionKept(c)
      BY <1>1, SessionOfStep
    <2>2. CASE session'.inst \in {session.inst, NoInst}
      BY <2>2 DEF InstalledExact
    <2>3. CASE /\ CmdAt(c, "install", "record") /\ Fitting(cmd[c].archive, Reviewed)
               /\ session'.inst = [said |-> cmd[c].archive, used |-> box.guest.archive,
                                   whole |-> box.guest.whole, bundle |-> box.guest.bundle]
      <3>1. GuestAccepts /\ ResultMatches(c)
        BY <2>3 DEF BoxOK
      <3> QED
        BY <2>3, <3>1 DEF GuestAccepts, ResultMatches, Fitting, InstalledExact
    <2> QED
      BY <2>1, <2>2, <2>3 DEF SessionKept
  <1>2. CASE ~ \E c \in Call : CommandStep(c)
    <2>1. session'.inst = session.inst \/ session'.inst = NoInst
      BY <1>2, OtherSteps DEF HandOff, FileChanged, SessionEnds, NoSession, inputVars,
         InputsTypeOK, Sessions
    <2> QED
      BY <2>1 DEF InstalledExact
  <1> QED
    BY <1>1, <1>2

\* What a session records is there in every state that follows.
LEMMA RecordedStep == ASSUME InputsIInv, [InputsNext]_inputVars PROVE RecordedThere'
  <1> USE DEF InputsIInv, InputsExact
  <1>t. /\ pub \in [Stamp -> [Part -> State]] /\ packages \in [Stamp -> State]
        /\ bundles \in [BundleKind -> State] /\ session.res.place \in Numbered
        /\ session.packages \in Numbered /\ session.bundle \in AnyBundle
    BY DEF InputsTypeOK, FilesTyped, Sessions, Resolved
  <1>r. Live => /\ session.res.status = "compatible" => There(session.res.place)
                /\ session.packages # 0 => Inspected(packages[session.packages])
                /\ session.bundle # "none" => Inspected(bundles[session.bundle])
    BY DEF RecordedThere, Inspected
  <1>1. ASSUME NEW c \in Call, CommandStep(c) PROVE RecordedThere'
    <2>1. DownloadKept(c) /\ PackagesKept(c) /\ BundlesKept(c) /\ session'.live = session.live
      BY <1>1, DownloadOfStep, PackagesOfStep, BundlesOfStep DEF DownloadKept
    <2> SUFFICES ASSUME Live
                 PROVE  /\ session'.res.status = "compatible" => There(session.res.place)'
                        /\ session'.packages # 0 => Inspected(packages'[session'.packages])
                        /\ session'.bundle # "none" => Inspected(bundles'[session'.bundle])
      BY <2>1 DEF RecordedThere, Inspected, Live
    <2>2. ASSUME session'.res.status = "compatible" PROVE There(session.res.place)'
      <3>1. CASE session'.res = session.res /\ session.res.place = 0
        <4>1. Inspected(built)
          BY <1>r, <2>2, <3>1 DEF There
        <4>2. built' = built
          BY <1>1, <4>1, OthersBuilt
        <4> QED
          BY <3>1, <4>1, <4>2 DEF There, Inspected
      <3>2. CASE session'.res = session.res /\ session.res.place # 0
        <4> DEFINE p == session.res.place
        <4>1. p \in named /\ p \in Stamp /\ ~(Resolves(c) /\ cmd[c].place = p)
          BY <1>t, <3>2 DEF DownloadsOK, Numbered
        <4>2. pub'[p] = pub[p]
          BY <1>1, <4>1, OthersDownloads
        <4>3. There(p)
          BY <1>r, <2>2, <3>2
        <4> QED
          BY <3>2, <4>2, <4>3 DEF There, Inspected
      <3>3. CASE session'.res # session.res
        BY <2>1, <2>2, <3>3 DEF DownloadKept, There, Inspected
      <3> QED
        BY <3>1, <3>2, <3>3
    <2>3. ASSUME session'.packages # 0 PROVE Inspected(packages'[session'.packages])
      <3>1. CASE session'.packages = session.packages
        <4> DEFINE d == session.packages
        <4>1. d \in Stamp /\ Inspected(packages[d])
          BY <1>t, <1>r, <2>3, <3>1 DEF Numbered
        <4>2. ~(Stages(c) /\ cmd[c].packages = d) /\ packages[d] # "none"
          BY <4>1 DEF StagesOK, Inspected
        <4>3. packages'[d] = packages[d]
          BY <1>1, <4>1, <4>2, OthersPackages
        <4> QED
          BY <3>1, <4>1, <4>3 DEF Inspected
      <3>2. CASE session'.packages # session.packages
        <4>1. HoldsPackages(c) /\ UNCHANGED packages /\ session'.packages = cmd[c].packages
          BY <2>1, <2>3, <3>2 DEF PackagesKept
        <4> QED
          BY <4>1 DEF StagesOK, HoldsPackages, Inspected
      <3> QED
        BY <3>1, <3>2
    <2>4. ASSUME session'.bundle # "none" PROVE Inspected(bundles'[session'.bundle])
      <3>1. CASE session'.bundle = session.bundle
        <4> DEFINE k == session.bundle
        <4>1. k \in BundleKind /\ Inspected(bundles[k])
          BY <1>t, <1>r, <2>4, <3>1 DEF AnyBundle
        <4>2. ~(Fills(c) /\ cmd[c].bundle = k) /\ bundles[k] # "none"
          BY <4>1 DEF StagesOK, Inspected
        <4>3. bundles'[k] = bundles[k]
          BY <1>1, <4>1, <4>2, OthersBundles
        <4> QED
          BY <3>1, <4>1, <4>3 DEF Inspected
      <3>2. CASE session'.bundle # session.bundle
        <4>1. HoldsBundle(c) /\ UNCHANGED bundles /\ session'.bundle = cmd[c].bundle
          BY <2>1, <2>4, <3>2 DEF BundlesKept
        <4> QED
          BY <4>1 DEF StagesOK, HoldsBundle, Inspected
      <3> QED
        BY <3>1, <3>2
    <2> QED
      BY <2>2, <2>3, <2>4
  <1>2. CASE FileChanged
    <2>1. UNCHANGED session
      BY <1>2 DEF FileChanged
    <2>2. \A d \in Stamp : \A p \in Part : Inspected(pub[d][p]) => Inspected(pub'[d][p])
      <3>1. \/ UNCHANGED pub
            \/ \E d \in Stamp : pub' = [pub EXCEPT ![d]["archive"] = "changed"]
        BY <1>2 DEF FileChanged
      <3> QED
        BY <1>t, <3>1 DEF Inspected, Part
    <2>3. \A d \in Stamp : Inspected(packages[d]) => Inspected(packages'[d])
      <3>1. \/ UNCHANGED packages
            \/ \E d \in Stamp : packages' = [packages EXCEPT ![d] = "changed"]
        BY <1>2 DEF FileChanged
      <3> QED
        BY <1>t, <3>1 DEF Inspected
    <2>4. \A k \in BundleKind : Inspected(bundles[k]) => Inspected(bundles'[k])
      <3>1. \/ UNCHANGED bundles
            \/ \E k \in BundleKind : bundles' = [bundles EXCEPT ![k] = "changed"]
        BY <1>2 DEF FileChanged
      <3> QED
        BY <1>t, <3>1 DEF Inspected
    <2>5. Inspected(built) => Inspected(built')
      BY <1>2 DEF FileChanged, Inspected
    <2>6. Live /\ session.res.status = "compatible" => There(session.res.place)'
      <3>1. CASE session.res.place = 0
        BY <1>r, <2>1, <2>5, <3>1 DEF There, Inspected
      <3>2. CASE session.res.place # 0
        <4>1. session.res.place \in Stamp
          BY <1>t, <3>2 DEF Numbered
        <4> QED
          BY <1>r, <2>1, <2>2, <3>2, <4>1 DEF There, Inspected
      <3> QED
        BY <3>1, <3>2
    <2>7. Live /\ session.packages # 0 => Inspected(packages'[session.packages])
      BY <1>t, <1>r, <2>3 DEF Numbered
    <2>8. Live /\ session.bundle # "none" => Inspected(bundles'[session.bundle])
      BY <1>t, <1>r, <2>4 DEF AnyBundle
    <2> QED
      BY <2>1, <2>6, <2>7, <2>8 DEF RecordedThere, Inspected, Live
  <1>3. CASE HandOff
    <2>1. /\ session'.res = session.res /\ session'.packages = session.packages
          /\ session'.bundle = session.bundle /\ session'.live = session.live
      BY <1>3 DEF HandOff, InputsTypeOK, Sessions
    <2>2. UNCHANGED inputFiles
      BY <1>3 DEF HandOff
    <2> QED
      BY <2>1, <2>2 DEF RecordedThere, Live, There, Inspected, inputFiles
  <1>4. CASE SessionEnds
    BY <1>4 DEF SessionEnds, RecordedThere, Live, NoSession
  <1>5. CASE UNCHANGED inputVars
    BY <1>5 DEF inputVars, inputFiles, RecordedThere, Live, There, Inspected
  <1> QED
    BY <1>1, <1>2, <1>3, <1>4, <1>5 DEF InputsNext

\* A command that ends has recorded what it made, or removed it.
LEMMA NothingLeftStep == ASSUME InputsIInv, [InputsNext]_inputVars PROVE NothingLeft'
  <1> USE DEF InputsIInv, InputsExact
  <1>t. /\ cmd \in [Call -> Command] /\ pub \in [Stamp -> [Part -> State]]
        /\ packages \in [Stamp -> State] /\ bundles \in [BundleKind -> State]
    BY DEF InputsTypeOK, FilesTyped
  <1>z. \A d \in Stamp : d # 0
    BY InputTypes
  <1>n. NothingLeft <=>
          /\ \A d \in Stamp : \/ \E c \in Call : Resolves(c) /\ cmd[c].place = d
                              \/ (\A p \in Part : Inspected(pub[d][p])) \/ Vacant(d)
          /\ \A d \in Stamp : packages[d] = "partial" =>
                                \E c \in Call : Stages(c) /\ cmd[c].packages = d
          /\ \A k \in BundleKind : bundles[k] = "partial" =>
                                \E c \in Call : cmd[c].at = "fill" /\ cmd[c].bundle = k
          /\ built = "partial" => \E c \in Call : CmdAt(c, "build", "copy")
    BY <1>z DEF NothingLeft, Ours, Resolves, There, Vacant, Stages
  <1>1. ASSUME NEW c \in Call, CommandStep(c) PROVE NothingLeft'
    <2>1. /\ DownloadKept(c) /\ PackagesKept(c) /\ BundlesKept(c) /\ BuiltKept(c) /\ OthersStay(c)
      BY <1>1, DownloadOfStep, PackagesOfStep, BundlesOfStep, BuiltOfStep, CarriesOfStep
    <2>2. \A b \in Call \ {c} : cmd'[b] = cmd[b]
      BY <2>1 DEF OthersStay
    <2>3. ASSUME NEW d \in Stamp
          PROVE  \/ \E b \in Call : Resolves(b)' /\ cmd'[b].place = d
                 \/ (\A p \in Part : Inspected(pub'[d][p])) \/ Cleared(d)
      <3>1. CASE pub'[d] = pub[d]
        <4>1. CASE \E b \in Call : Resolves(b) /\ cmd[b].place = d
          <5>1. PICK b \in Call : Resolves(b) /\ cmd[b].place = d
            BY <4>1
          <5>2. CASE b = c
            BY <2>1, <5>1, <5>2 DEF DownloadKept
          <5>3. CASE b # c
            <6>1. Resolves(b)' /\ cmd'[b].place = d
              BY <2>2, <5>1, <5>3 DEF Resolves
            <6> QED
              BY <6>1
          <5> QED
            BY <5>2, <5>3
        <4>2. CASE ~ \E b \in Call : Resolves(b) /\ cmd[b].place = d
          BY <1>n, <3>1, <4>2 DEF Vacant, Cleared
        <4> QED
          BY <4>1, <4>2
      <3>2. CASE pub'[d] # pub[d]
        BY <2>1, <3>2 DEF DownloadKept, PubChange
      <3> QED
        BY <3>1, <3>2
    <2>4. ASSUME NEW d \in Stamp, packages'[d] = "partial"
          PROVE  \E b \in Call : Stages(b)' /\ cmd'[b].packages = d
      <3>1. CASE packages'[d] = packages[d]
        <4>1. PICK b \in Call : Stages(b) /\ cmd[b].packages = d
          BY <1>n, <2>4, <3>1
        <4>2. b # c
          BY <2>1, <2>4, <4>1 DEF PackagesKept
        <4> QED
          BY <2>2, <4>1, <4>2 DEF Stages, CmdAt
      <3>2. CASE packages'[d] # packages[d]
        BY <2>1, <2>4, <3>2 DEF PackagesKept, PackChange, Inspected
      <3> QED
        BY <3>1, <3>2
    <2>5. ASSUME NEW k \in BundleKind, bundles'[k] = "partial"
          PROVE  \E b \in Call : cmd'[b].at = "fill" /\ cmd'[b].bundle = k
      <3>1. CASE bundles'[k] = bundles[k]
        <4>1. PICK b \in Call : cmd[b].at = "fill" /\ cmd[b].bundle = k
          BY <1>n, <2>5, <3>1
        <4>2. Fills(b)
          BY <4>1 DEF CarriesOK, Carries, Fills, Prepares
        <4>3. b # c
          BY <2>1, <2>5, <4>1, <4>2 DEF BundlesKept
        <4> QED
          BY <2>2, <4>1, <4>3
      <3>2. CASE bundles'[k] # bundles[k]
        BY <2>1, <2>5, <3>2 DEF BundlesKept, BundleChange, Fills
      <3> QED
        BY <3>1, <3>2
    <2>6. ASSUME built' = "partial" PROVE \E b \in Call : CmdAt(b, "build", "copy")'
      <3>1. CASE CmdAt(c, "build", "copy")'
        BY <3>1
      <3>2. CASE ~CmdAt(c, "build", "copy")'
        <4>1. built = "partial" /\ ~CmdAt(c, "build", "copy")
          BY <2>1, <2>6, <3>2 DEF BuiltKept
        <4>2. PICK b \in Call : CmdAt(b, "build", "copy")
          BY <1>n, <4>1
        <4> QED
          BY <2>2, <4>1, <4>2 DEF CmdAt
      <3> QED
        BY <3>1, <3>2
    <2> QED
      BY <1>z, <2>3, <2>4, <2>5, <2>6 DEF NothingLeft, Ours, Resolves, There, Cleared, Stages,
         Inspected
  <1>2. CASE FileChanged
    <2>0. UNCHANGED cmd
      BY <1>2 DEF FileChanged
    <2>1. ASSUME NEW d \in Stamp, NEW p \in Part
          PROVE  pub'[d][p] = pub[d][p] \/ (Inspected(pub[d][p]) /\ Inspected(pub'[d][p]))
      <3>1. \/ UNCHANGED pub
            \/ \E x \in Stamp : pub[x]["archive"] = "whole" /\ pub' = [pub EXCEPT ![x]["archive"] = "changed"]
        BY <1>2 DEF FileChanged
      <3> QED
        BY <1>t, <3>1 DEF Inspected, Part
    <2>2. \A d \in Stamp : packages'[d] = "partial" => packages[d] = "partial"
      <3>1. \/ UNCHANGED packages
            \/ \E d \in Stamp : packages' = [packages EXCEPT ![d] = "changed"]
        BY <1>2 DEF FileChanged
      <3> QED
        BY <1>t, <3>1
    <2>3. \A k \in BundleKind : bundles'[k] = "partial" => bundles[k] = "partial"
      <3>1. \/ UNCHANGED bundles
            \/ \E k \in BundleKind : bundles' = [bundles EXCEPT ![k] = "changed"]
        BY <1>2 DEF FileChanged
      <3> QED
        BY <1>t, <3>1
    <2>4. built' = "partial" => built = "partial"
      BY <1>2 DEF FileChanged
    <2>5. \A d \in Stamp : \/ \E c \in Call : Resolves(c) /\ cmd[c].place = d
                           \/ (\A p \in Part : Inspected(pub'[d][p])) \/ Cleared(d)
      BY <1>n, <2>1 DEF Vacant, Cleared, Inspected
    <2> QED
      BY <1>n, <1>z, <2>0, <2>2, <2>3, <2>4, <2>5
         DEF NothingLeft, Ours, Resolves, There, Cleared, Stages, CmdAt, Inspected
  <1>3. CASE SessionEnds
    BY <1>3 DEF SessionEnds, NothingLeft, Part
  <1>4. CASE HandOff \/ UNCHANGED inputVars
    <2>1. UNCHANGED <<inputFiles, cmd>>
      BY <1>4 DEF HandOff, inputVars
    <2> QED
      BY <2>1 DEF NothingLeft, Ours, There, Inspected, CmdAt, inputFiles
  <1> QED
    BY <1>1, <1>2, <1>3, <1>4 DEF InputsNext

(***************************************************************************)
(* The invariant.                                                          *)
(***************************************************************************)
LEMMA InputsStep == InputsIInv /\ [InputsNext]_inputVars => InputsIInv'
  <1> SUFFICES ASSUME InputsIInv, [InputsNext]_inputVars PROVE InputsIInv'
    OBVIOUS
  <1>1. InputsTypeOK /\ CarriesOK
    BY DEF InputsIInv
  <1>2. InputsTypeOK'
    BY <1>1, CmdTypedStep, SessionTypedStep, BoxTypedStep, FilesTypedStep
       DEF InputsTypeOK, CmdTyped, SessionTyped, BoxTyped
  <1>3. InputsExact'
    BY InstalledStep, RecordedStep, NothingLeftStep DEF InputsExact
  <1> QED
    BY <1>2, <1>3, CarriesStep, BoxStep, ResolvedStep, DownloadsStep, StagesStep, BuiltStep,
       EndedStep DEF InputsIInv

\* Both initial states have it.
LEMMA InputsStart == InputsInit => InputsIInv
  <1> SUFFICES ASSUME InputsInit PROVE InputsIInv
    OBVIOUS
  <1> USE InputBounds, InputTypes
  <1> DEFINE ready == [NoSession EXCEPT !.live = TRUE, !.state = "ready"]
             res   == [status |-> "compatible", version |-> Reviewed, archive |-> Made, place |-> 1]
  <1>1. /\ cmd = [c \in Call |-> NoCommand] /\ built = "absent"
        /\ box = [state |-> "ready", sum |-> NoArchive, guest |-> NoGuest]
    BY DEF InputsInit
  <1>2. PICK first \in BOOLEAN :
          LET one == IF first THEN "none" ELSE "whole"
          IN /\ session = IF first THEN ready
                           ELSE [ready EXCEPT !.state = "handoff", !.res = res, !.packages = 1,
                                              !.bundle = "core"]
             /\ pub = [d \in Stamp |-> [p \in Part |-> IF d = 1 THEN one ELSE "none"]]
             /\ named = (IF first THEN {} ELSE {1})
             /\ packages = [d \in Stamp |-> IF d = 1 THEN one ELSE "none"]
             /\ bundles = [k \in BundleKind |-> IF k = "core" THEN one ELSE "none"]
    BY DEF InputsInit
  <1>3. Made \in DriverArchive /\ Fitting(Made, Reviewed) /\ res \in Resolved
    BY DEF Made, DriverArchive, Fitting, Resolved, AnyArchive, Numbered, Status
  <1>4. /\ session.live /\ session.inst = NoInst
        /\ first => session.res = NoRes /\ session.packages = 0 /\ session.bundle = "none"
        /\ ~first => session.res = res /\ session.packages = 1 /\ session.bundle = "core"
    BY <1>2 DEF NoSession
  <1>5. \A c \in Call : cmd[c] = NoCommand
    BY <1>1
  <1>6. InputsTypeOK
    <2>1. session \in Sessions
      BY <1>2, <1>3 DEF NoSession, Sessions, Stage, Numbered, AnyBundle, BundleKind
    <2>2. box \in Box /\ cmd \in [Call -> Command]
      BY <1>1 DEF Box, BoxStage
    <2>3. FilesTyped
      BY <1>1, <1>2 DEF FilesTyped, State
    <2> QED
      BY <2>1, <2>2, <2>3 DEF InputsTypeOK
  <1>7. CarriesOK /\ BoxOK /\ StagesOK /\ BuiltOK
    BY <1>5 DEF NoCommand, CarriesOK, Carries, BoxOK, Boxed, CmdAt, CmdIn, StagesOK, Stages,
       Fills,
       Prepares, BuiltOK
  <1>8. ResolvedOK /\ EndedOK
    BY <1>3, <1>4 DEF ResolvedOK, NoRes, EndedOK, Live
  <1>9. DownloadsOK
    BY <1>2, <1>4, <1>5 DEF DownloadsOK, Resolves, NoCommand, NoRes
  <1>10. InstalledExact
    BY <1>4 DEF InstalledExact
  <1>11. RecordedThere
    BY <1>2, <1>4 DEF RecordedThere, There, Inspected, NoRes, BundleKind
  <1>12. NothingLeft
    BY <1>1, <1>2 DEF NothingLeft, There, Inspected, BundleKind
  <1> QED
    BY <1>6, <1>7, <1>8, <1>9, <1>10, <1>11, <1>12 DEF InputsIInv, InputsExact

\* The inductive invariant of the inputs: types, what each command carries and
\* holds, and who works on which file.
THEOREM InputsInvariant == InputsSpec => []InputsIInv
  BY InputsStart, InputsStep, PTL DEF InputsSpec

\* What is recorded as installed is what the guest used and what was verified,
\* what a session records is there, and no command leaves parts of files behind
\* (validate_nvidia_install_result, collect_nvidia_install_inputs, the guards).
THEOREM InputsAreExact == InputsSpec => []InputsExact
  <1>1. InputsIInv => InputsExact
    BY DEF InputsIInv
  <1> QED
    BY <1>1, InputsInvariant, PTL
=============================================================================
