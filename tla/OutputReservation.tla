-------------------------- MODULE OutputReservation --------------------------
(***************************************************************************)
(* The reservations of src-tauri/src/output_transaction.rs that serialise  *)
(* the attempts of OutputPublication.  A process that consumes a source    *)
(* image holds four advisory locks, taken in a fixed order: the pathname   *)
(* of the source, its inode, the output name and the name of the adjacent  *)
(* manifest; the last two share one namespace.  A durable record binds the *)
(* output to the source it was first reserved for.                         *)
(*                                                                         *)
(* Processes interleave between system calls.  Another program may rename  *)
(* or change a source, and may replace a lock file under its name: the     *)
(* holder of the old file then holds a lock that excludes nobody.          *)
(***************************************************************************)
EXTENDS Naturals

CONSTANTS Proc,             \* processes, or threads, of the application
          Path,             \* names of source images
          File,             \* source images (device and inode)
          Output,           \* names an image may be exported to
          ManifestOf,       \* [Output -> the adjacent manifest's name]
          Nil,              \* "nothing there"
          MaxChanges,       \* bound on renames and changes of sources
          MaxReplacements,  \* bound on replacements of lock files
          MaxDrops          \* bound on errors, cancellations and kills

ASSUME NilAssumption == Nil \notin File \union Output
ASSUME ManifestAssumption ==
          /\ DOMAIN ManifestOf = Output
          /\ \A o \in Output : ManifestOf[o] # o
          /\ \A o, q \in Output : ManifestOf[o] = ManifestOf[q] => o = q
ASSUME ReserveBounds ==
          MaxChanges \in Nat /\ MaxReplacements \in Nat /\ MaxDrops \in Nat

VARIABLES
  at,         \* [Path -> the source image under that name]
  ver,        \* [File -> its times and size: the rest of FileIdentity]
  lockfile,   \* [Key -> which file has the lock's name: a count of replacements]
  record,     \* [Output -> its durable record]
  present,    \* [Name -> what was published under it]
  phase, job, \* [Proc -> where it is], [Proc -> what it was asked for]
  locked,     \* [Proc -> how many of its locks it holds]
  gen,        \* [Proc -> [lock number -> which lock file it opened]]
  fresh,      \* (history) [{"source", "output"} -> those who verified their
              \* locks since a lock file was last replaced]
  changes, replacements, drops

sourceVars == <<at, ver>>
storeVars  == <<record, present>>
procVars   == <<phase, job, locked, gen>>
reserveBudget == <<changes, replacements, drops>>
reserveVars == <<sourceVars, lockfile, storeVars, procVars, fresh, reserveBudget>>

-----------------------------------------------------------------------------
Name == Output \union {ManifestOf[o] : o \in Output}
Key  == ({"path"} \X Path) \union ({"file"} \X File) \union ({"name"} \X Name)
Locks == 1..4

SourceIdentity == [file : File, ver : Nat]
Job      == [path : Path, src : SourceIdentity, out : Output,
             mode : {"acquire", "reopen"}]
Record   == [src : SourceIdentity, lock : Nat]

ASSUME RecordAssumption == Nil \notin Record

\* (mutant) acquire locks the manifest before the image, reopen after it.
KeysByMode(p) ==
  LET j == job[p]
      names == IF j.mode = "acquire" THEN <<ManifestOf[j.out], j.out>>
                                     ELSE <<j.out, ManifestOf[j.out]>>
  IN << <<"path", j.path>>, <<"file", j.src.file>>,
        <<"name", names[1]>>, <<"name", names[2]>> >>

\* The locks of a process, in the order in which it takes them.
Keys(p) ==
  LET j == job[p]
  IN << <<"path", j.path>>, <<"file", j.src.file>>,
        <<"name", j.out>>, <<"name", ManifestOf[j.out]>> >>

Owns(p, k, g) == \E n \in 1..locked[p] : Keys(p)[n] = k /\ gen[p][n] = g

\* LockCapability::verify: the name still is the file that was locked.
Current(p, S) == \A n \in S : lockfile[Keys(p)[n]] = gen[p][n]

\* SourceReservation::verify.
SourceVerified(p) ==
  LET j == job[p]
  IN /\ Current(p, 1..2)
     /\ at[j.path] = j.src.file
     /\ ver[j.src.file] = j.src.ver

NamesAbsent(p) == /\ present[job[p].out] = Nil
                  /\ present[ManifestOf[job[p].out]] = Nil

\* (mutant) a record of the output is enough, whatever source it binds.
RecordExists(p) == record[job[p].out] # Nil

\* OutputReservation::value, compared with what read_record returns.
RecordMatches(p) ==
  record[job[p].out] = [src |-> job[p].src, lock |-> gen[p][3]]

\* OutputReservation::verify_guards.
GuardsVerified(p) ==
  SourceVerified(p) /\ Current(p, 3..4) /\ RecordMatches(p)

Enter(p, l)  == phase' = [phase EXCEPT ![p] = l]
Verified(p, S) == fresh' = [s \in DOMAIN fresh |->
                              IF s \in S THEN fresh[s] \union {p} ELSE fresh[s]]

\* The guards are dropped: every lock is released.
Drop(p) ==
  /\ Enter(p, "idle")
  /\ job'    = [job EXCEPT ![p] = Nil]
  /\ locked' = [locked EXCEPT ![p] = 0]
  /\ gen'    = [gen EXCEPT ![p] = [n \in Locks |-> 0]]
  /\ fresh'  = [s \in DOMAIN fresh |-> fresh[s] \ {p}]

-----------------------------------------------------------------------------
Start ==
  /\ at \in [Path -> File \union {Nil}]
  /\ \A a, b \in Path : at[a] = at[b] /\ at[a] # Nil => a = b
  /\ ver = [f \in File |-> 0]
  /\ lockfile = [k \in Key |-> 0]
  /\ record  = [o \in Output |-> Nil]
  /\ present = [n \in Name |-> Nil]
  /\ phase  = [p \in Proc |-> "idle"]
  /\ job    = [p \in Proc |-> Nil]
  /\ locked = [p \in Proc |-> 0]
  /\ gen    = [p \in Proc |-> [n \in Locks |-> 0]]
  /\ fresh  = [s \in {"source", "output"} |-> {}]

ReserveInit == Start /\ changes = 0 /\ replacements = 0 /\ drops = 0

\* SourceReservation::acquire opens the selected source; the caller goes on to
\* reserve, or to reopen, one output.
Select(p) ==
  /\ phase[p] = "idle"
  /\ \E a \in Path, o \in Output, m \in {"acquire", "reopen"} :
       /\ at[a] # Nil
       /\ job' = [job EXCEPT ![p] =
                    [path |-> a, src |-> [file |-> at[a], ver |-> ver[at[a]]],
                     out |-> o, mode |-> m]]
  /\ Enter(p, "open")
  /\ UNCHANGED <<sourceVars, lockfile, storeVars, locked, gen, fresh, reserveBudget>>

\* LockCapability::acquire: open or create the lock file, flock it without
\* blocking until a deadline, then verify it.
OpenLock(p) ==
  /\ phase[p] = "open"
  /\ LET n == locked[p] + 1
     IN gen' = [gen EXCEPT ![p][n] = lockfile[Keys(p)[n]]]
  /\ Enter(p, "flock")
  /\ UNCHANGED <<sourceVars, lockfile, storeVars, job, locked, fresh, reserveBudget>>

\* (mutant) the lock of the inode is shared.
WaitsOrSharesInode(p, q) ==
  /\ phase[p] = "flock"
  /\ LET n == locked[p] + 1
     IN n # 2 /\ Owns(q, Keys(p)[n], gen[p][n])

\* p waits for a lock that q holds.
Waits(p, q) == /\ phase[p] = "flock"
               /\ LET n == locked[p] + 1
                  IN Owns(q, Keys(p)[n], gen[p][n])

Flock(p) ==
  /\ phase[p] = "flock"
  /\ \A q \in Proc : ~ Waits(p, q)
  /\ locked' = [locked EXCEPT ![p] = @ + 1]
  /\ Enter(p, "locked")
  /\ UNCHANGED <<sourceVars, lockfile, storeVars, job, gen, fresh, reserveBudget>>

\* RESERVATION_ALREADY_HELD: still held at the deadline.
GiveUp(p) ==
  /\ phase[p] = "flock"
  /\ \E q \in Proc : Waits(p, q)
  /\ Drop(p)
  /\ UNCHANGED <<sourceVars, lockfile, storeVars, reserveBudget>>

VerifyLock(p) ==
  /\ phase[p] = "locked"
  /\ Current(p, {locked[p]})
  /\ Enter(p, CASE locked[p] = 2 -> "source"
               [] locked[p] = 4 -> "record"
               [] OTHER -> "open")
  /\ UNCHANGED <<sourceVars, lockfile, storeVars, job, locked, gen, fresh, reserveBudget>>

\* The source is hashed under its two locks and verified.
VerifySource(p) ==
  /\ phase[p] = "source"
  /\ SourceVerified(p)
  /\ Verified(p, {"source"})
  /\ Enter(p, "output")
  /\ UNCHANGED <<sourceVars, lockfile, storeVars, job, locked, gen, reserveBudget>>

-----------------------------------------------------------------------------
\* OutputReservation::acquire and reopen up to their first lock.
BeginOutput(p) ==
  /\ phase[p] = "output"
  /\ SourceVerified(p)
  /\ job[p].mode = "acquire" => NamesAbsent(p)
  /\ Verified(p, {"source"})
  /\ Enter(p, "open")
  /\ UNCHANGED <<sourceVars, lockfile, storeVars, job, locked, gen, reserveBudget>>

\* inspect_record: a reservation is acquired only where there is no record.
InspectRecord(p) ==
  /\ phase[p] = "record"
  /\ job[p].mode = "acquire"
  /\ record[job[p].out] = Nil
  /\ Enter(p, "create")
  /\ UNCHANGED <<sourceVars, lockfile, storeVars, job, locked, gen, fresh, reserveBudget>>

\* reopen: the record names this source and this lock file.
ReadRecord(p) ==
  /\ phase[p] = "record"
  /\ job[p].mode = "reopen"
  /\ GuardsVerified(p)
  /\ Verified(p, {"source", "output"})
  /\ Enter(p, "held")
  /\ UNCHANGED <<sourceVars, lockfile, storeVars, job, locked, gen, reserveBudget>>

\* create_record: verify both locks, create the record exclusively, sync it.
BeginCreate(p) ==
  /\ phase[p] = "create"
  /\ Current(p, 3..4)
  /\ Enter(p, "excl")
  /\ UNCHANGED <<sourceVars, lockfile, storeVars, job, locked, gen, fresh, reserveBudget>>

\* (mutant) the record is opened without O_EXCL.
CreateOver(p) ==
  /\ phase[p] = "excl"
  /\ record' = [record EXCEPT ![job[p].out] =
                  [src |-> job[p].src, lock |-> gen[p][3]]]
  /\ Enter(p, "confirm")
  /\ UNCHANGED <<sourceVars, lockfile, present, job, locked, gen, fresh, reserveBudget>>

CreateRecord(p) ==
  /\ phase[p] = "excl"
  /\ record[job[p].out] = Nil
  /\ record' = [record EXCEPT ![job[p].out] =
                  [src |-> job[p].src, lock |-> gen[p][3]]]
  /\ Enter(p, "confirm")
  /\ UNCHANGED <<sourceVars, lockfile, present, job, locked, gen, fresh, reserveBudget>>

\* The locks are verified after the record is durable, then the reservation.
ConfirmRecord(p) ==
  /\ phase[p] = "confirm"
  /\ Current(p, 3..4)
  /\ NamesAbsent(p)
  /\ RecordMatches(p)
  /\ Verified(p, {"output"})
  /\ Enter(p, "held")
  /\ UNCHANGED <<sourceVars, lockfile, storeVars, job, locked, gen, reserveBudget>>

\* publish_bytes verifies the guards before every phase it publishes.
VerifyGuards(p) ==
  /\ phase[p] = "held"
  /\ GuardsVerified(p)
  /\ Verified(p, {"source", "output"})
  /\ Enter(p, "using")
  /\ UNCHANGED <<sourceVars, lockfile, storeVars, job, locked, gen, reserveBudget>>

\* Publication of the image and, beside it, of the manifest: see
\* OutputPublication.  An existing file is never replaced.
Mine(p, n) == present[n] # Nil /\ present[n].out = job[p].out
Published(p) == Mine(p, job[p].out) /\ Mine(p, ManifestOf[job[p].out])
Publishable(p, n) ==
  /\ present[n] = Nil
  /\ n # job[p].out => n = ManifestOf[job[p].out] /\ Mine(p, job[p].out)

Publish(p) ==
  /\ phase[p] = "using"
  /\ \E n \in Name :
       /\ Publishable(p, n)
       /\ present' = [present EXCEPT ![n] = [out |-> job[p].out, src |-> job[p].src]]
  /\ Enter(p, "held")
  /\ UNCHANGED <<sourceVars, lockfile, record, job, locked, gen, fresh, reserveBudget>>

Finish(p) ==
  /\ phase[p] = "using"
  /\ Published(p)
  /\ Drop(p)
  /\ UNCHANGED <<sourceVars, lockfile, storeVars, reserveBudget>>

-----------------------------------------------------------------------------
\* The check a process is about to make fails: it returns the error, and its
\* guards are dropped.
Unverified(p) ==
  \/ phase[p] = "locked"  /\ ~ Current(p, {locked[p]})
  \/ phase[p] = "source"  /\ ~ SourceVerified(p)
  \/ phase[p] = "output"  /\ ~ (SourceVerified(p)
                             /\ (job[p].mode = "acquire" => NamesAbsent(p)))
  \/ phase[p] = "record"  /\ ~ (IF job[p].mode = "acquire"
                             THEN record[job[p].out] = Nil
                             ELSE GuardsVerified(p))
  \/ phase[p] = "create"  /\ ~ Current(p, 3..4)
  \/ phase[p] = "excl"    /\ record[job[p].out] # Nil
  \/ phase[p] = "confirm" /\ ~ (Current(p, 3..4) /\ NamesAbsent(p) /\ RecordMatches(p))
  \/ phase[p] = "held"    /\ ~ GuardsVerified(p)
  \/ phase[p] = "using"   /\ ~ Published(p) /\ \A n \in Name : ~ Publishable(p, n)

Reject(p) ==
  /\ Unverified(p)
  /\ Drop(p)
  /\ UNCHANGED <<sourceVars, lockfile, storeVars, reserveBudget>>

\* Any other error, a cancellation, or a kill, which drops the locks, too.
Abandon(p) ==
  /\ phase[p] # "idle"
  /\ drops < MaxDrops
  /\ drops' = drops + 1
  /\ Drop(p)
  /\ UNCHANGED <<sourceVars, lockfile, storeVars, changes, replacements>>

\* Another program renames a source to a free name, or rewrites it; either
\* changes its times.
RenameSource(a, b) ==
  /\ changes < MaxChanges
  /\ changes' = changes + 1
  /\ at[a] # Nil /\ at[b] = Nil
  /\ at'  = [at EXCEPT ![b] = at[a], ![a] = Nil]
  /\ ver' = [ver EXCEPT ![at[a]] = @ + 1]
  /\ UNCHANGED <<lockfile, storeVars, procVars, fresh, replacements, drops>>

RewriteSource(f) ==
  /\ changes < MaxChanges
  /\ changes' = changes + 1
  /\ ver' = [ver EXCEPT ![f] = @ + 1]
  /\ UNCHANGED <<at, lockfile, storeVars, procVars, fresh, replacements, drops>>

ReplaceLock(k) ==
  /\ replacements < MaxReplacements
  /\ replacements' = replacements + 1
  /\ lockfile' = [lockfile EXCEPT ![k] = @ + 1]
  /\ fresh' = [s \in DOMAIN fresh |-> {}]
  /\ UNCHANGED <<sourceVars, storeVars, procVars, changes, drops>>

-----------------------------------------------------------------------------
ReserveStep(p) ==
  \/ OpenLock(p) \/ Flock(p) \/ GiveUp(p) \/ VerifyLock(p) \/ VerifySource(p)
  \/ BeginOutput(p) \/ InspectRecord(p) \/ ReadRecord(p)
  \/ BeginCreate(p) \/ CreateRecord(p) \/ ConfirmRecord(p)
  \/ VerifyGuards(p) \/ Publish(p) \/ Finish(p) \/ Reject(p)

ReserveNext ==
  \/ \E p \in Proc : Select(p) \/ ReserveStep(p) \/ Abandon(p)
  \/ \E a, b \in Path : RenameSource(a, b)
  \/ \E f \in File : RewriteSource(f)
  \/ \E k \in Key : ReplaceLock(k)

ReserveSpec == ReserveInit /\ [][ReserveNext]_reserveVars

-----------------------------------------------------------------------------
\* "A rename may invalidate the path guard but must not make the same inode
\* available to another reservation", and "another image must not reserve this
\* manifest": of all processes that verified their locks since a lock file was
\* last replaced, no two consume the same image, under whatever names they found
\* it, and no two would write a common name, be it as image or as manifest.
Exclusive ==
  LET Names(p) == {job[p].out, ManifestOf[job[p].out]}
  IN /\ \A p, q \in fresh["source"] : job[p].src.file = job[q].src.file => p = q
     /\ \A p, q \in fresh["output"] : Names(p) \intersect Names(q) # {} => p = q

\* A reservation is made once: no later process, not even one that lost its
\* lock file in between, overwrites the record of an output.
RecordKept ==
  \A o \in Output : record[o] # Nil => record'[o] = record[o]

\* However often the reservation was handed on by crashes, the image and the
\* manifest of an output were published from one and the same source identity.
PairFromOneSource ==
  \A o \in Output :
    LET i == present[o]
        m == present[ManifestOf[o]]
    IN i # Nil /\ m # Nil /\ i.out = o /\ m.out = o => i.src = m.src

\* What a reservation records is never overwritten, and the image and the
\* manifest of an output are of the one source it names.
RecordsTrue == [][PairFromOneSource' /\ RecordKept]_reserveVars

\* The lock order: there is no set of processes each waiting for another one,
\* so two attempts never make each other time out.
NoWaitCycle ==
  \A S \in (SUBSET Proc) \ {{}} : \E p \in S : \A q \in S : ~ Waits(p, q)

=============================================================================
