---------------------------- MODULE InstalledTrust ----------------------------
(***************************************************************************)
(* The installed trust root of                                             *)
(* src-tauri/src/core_generation_bootstrap/installed_trust.rs: a directory *)
(* with exactly the policy, the keyring and the checkpoint.  "open" reads  *)
(* them once, compares them with the pins that the executable carries and  *)
(* keeps the identity of the directory and of every file;  "revalidate"    *)
(* compares the identities again, at the descriptors and by name.  Neither *)
(* holds a lock: another program may change the root between any two       *)
(* steps.                                                                  *)
(*                                                                         *)
(* An identity has the inode, the size and the times of change; every      *)
(* change of a file or of a directory's entries is taken to give it a new  *)
(* one.  An entry that is put back has the identity it had; the directory  *)
(* has not.                                                                *)
(***************************************************************************)
EXTENDS Naturals, Sequences

CONSTANT MaxClock   \* bound on the changes of another program

Order == <<"policy", "keyring", "checkpoint">>
TrustFile == {Order[i] : i \in DOMAIN Order}
\* The file that was installed and one that another program put in its place.
Inode == {"installed", "other"}

VARIABLES
  named,     \* the root's path leads to the directory
  atParent,  \* the directory has its name in the parent that was opened
  rootStamp, \* identity of the directory
  extra,     \* the directory has another entry
  entry,     \* [TrustFile -> Inode]
  stamp,     \* [TrustFile -> [Inode -> identity]]
  genuine,   \* [TrustFile -> [Inode -> the bytes are the pinned ones]]
  clock,     \* identities given so far
  step, at,  \* the step of the call, and the index of the file it is at
  pinned,    \* [root, file: [TrustFile -> [ino, id]]]: the guard's identities
  read,      \* the files that were read as the pinned bytes
  whole      \* (history) at some instant of the call all was as pinned

installation ==
  <<named, atParent, rootStamp, extra, entry, stamp, genuine, clock>>
trustVars == <<installation, step, at, pinned, read, whole>>

-----------------------------------------------------------------------------
Current(f) == [ino |-> entry[f], id |-> stamp[f][entry[f]]]

\* The path leads to the directory and the three files are the pinned bytes.
Whole == /\ named /\ ~ extra
         /\ \A f \in TrustFile : genuine[f][entry[f]]

TrustInit ==
  /\ named = TRUE /\ atParent = TRUE /\ rootStamp = 0 /\ extra = FALSE
  /\ entry = [f \in TrustFile |-> "installed"]
  /\ stamp = [f \in TrustFile |-> [i \in Inode |-> 0]]
  /\ genuine = [f \in TrustFile |-> [i \in Inode |-> i = "installed"]]
  /\ clock = 0
  /\ step = "idle" /\ at = 1 /\ read = {} /\ whole = FALSE
  /\ pinned = [root |-> 0, file |-> [f \in TrustFile |-> [ino |-> "installed", id |-> 0]]]

Step(l) == step' = l /\ whole' = (whole \/ Whole)
Decline == Step("idle") /\ UNCHANGED <<installation, at, pinned, read>>

\* require_identity of the root.
RootSame == rootStamp = pinned.root

-----------------------------------------------------------------------------
\* InstalledTrustSnapshot::open.
OpenRoot ==
  /\ step = "idle"
  /\ named /\ atParent /\ ~ extra
  /\ pinned' = [pinned EXCEPT !.root = rootStamp]
  /\ read' = {} /\ at' = 1 /\ step' = "stat" /\ whole' = Whole
  /\ UNCHANGED installation

\* read_pinned_file: the descriptor's identity, its bytes, its identity again
\* and that of the name.
Stat ==
  /\ step = "stat"
  /\ pinned' = [pinned EXCEPT !.file[Order[at]] = Current(Order[at])]
  /\ Step("read") /\ UNCHANGED <<installation, at, read>>

Read ==
  /\ step = "read"
  /\ LET f == Order[at] IN
       read' = IF genuine[f][pinned.file[f].ino] THEN read \union {f} ELSE read
  /\ Step("recheck") /\ UNCHANGED <<installation, at, pinned>>

SameFile(f) == /\ stamp[f][pinned.file[f].ino] = pinned.file[f].id
               /\ entry[f] = pinned.file[f].ino

\* (mutant) the identity that is kept is the last one.
RecheckKeepsLast ==
  /\ step = "recheck"
  /\ pinned' = [pinned EXCEPT !.file[Order[at]] = Current(Order[at])]
  /\ IF at < Len(Order) THEN at' = at + 1 /\ Step("stat")
                        ELSE Step("pins") /\ UNCHANGED at
  /\ UNCHANGED <<installation, read>>

Recheck ==
  /\ step = "recheck"
  /\ IF ~ SameFile(Order[at]) THEN Decline
     ELSE /\ IF at < Len(Order) THEN at' = at + 1 /\ Step("stat")
                                ELSE Step("pins") /\ UNCHANGED at
          /\ UNCHANGED <<installation, pinned, read>>

\* The hashes against the executable's pins; the root again, and its name.
Pins ==
  /\ step = "pins"
  /\ IF read = TrustFile /\ RootSame /\ ~ extra
     THEN Step("named") /\ UNCHANGED <<installation, at, pinned, read>>
     ELSE Decline

Opened ==
  /\ step = "named"
  /\ IF atParent /\ RootSame
     THEN Step("held") /\ UNCHANGED <<installation, at, pinned, read>>
     ELSE Decline

-----------------------------------------------------------------------------
\* InstalledTrustGuard::revalidate.
RootByPath ==
  /\ step = "held"
  /\ at' = 1 /\ whole' = Whole /\ UNCHANGED <<installation, pinned, read>>
  /\ step' = IF named /\ RootSame THEN "parent" ELSE "idle"

RootByName ==
  /\ step = "parent"
  /\ IF atParent /\ RootSame /\ ~ extra
     THEN Step("file") /\ UNCHANGED <<installation, at, pinned, read>>
     ELSE Decline

CheckFile ==
  /\ step = "file"
  /\ IF ~ SameFile(Order[at]) THEN Decline
     ELSE /\ IF at < Len(Order) THEN at' = at + 1 /\ Step("file")
                                ELSE Step("root") /\ UNCHANGED at
          /\ UNCHANGED <<installation, pinned, read>>

RootAgain ==
  /\ step = "root"
  /\ IF RootSame THEN Step("valid") /\ UNCHANGED <<installation, at, pinned, read>>
                 ELSE Decline

\* The capability is kept for the next revalidation, or it is dropped.
Used ==
  /\ step \in {"valid", "held"}
  /\ step' \in {"held", "idle"} \ {step}
  /\ UNCHANGED <<installation, at, pinned, read, whole>>

-----------------------------------------------------------------------------
\* Another program writes a file in place, replaces it or puts it back, adds or
\* removes an entry, or moves the directory or its parent.
Touched == rootStamp' = clock'
Intrude ==
  /\ clock < MaxClock /\ clock' = clock + 1
  /\ \/ /\ \E f \in TrustFile, b \in BOOLEAN :
             /\ genuine' = [genuine EXCEPT ![f][entry[f]] = b]
             /\ stamp' = [stamp EXCEPT ![f][entry[f]] = clock']
        /\ UNCHANGED <<named, atParent, rootStamp, extra, entry>>
     \/ /\ \E f \in TrustFile, i \in Inode : i # entry[f] /\ entry' = [entry EXCEPT ![f] = i]
        /\ Touched /\ UNCHANGED <<named, atParent, extra, stamp, genuine>>
     \/ /\ extra' = ~ extra /\ Touched
        /\ UNCHANGED <<named, atParent, entry, stamp, genuine>>
     \/ /\ named' = ~ named /\ atParent' \in {atParent, named'}
        /\ UNCHANGED <<rootStamp, extra, entry, stamp, genuine>>
  /\ whole' = (whole \/ Whole)
  /\ UNCHANGED <<step, at, pinned, read>>

TrustNext ==
  \/ OpenRoot \/ Stat \/ Read \/ Recheck \/ Pins \/ Opened
  \/ RootByPath \/ RootByName \/ CheckFile \/ RootAgain \/ Used
  \/ Intrude

TrustSpec == TrustInit /\ [][TrustNext]_trustVars

-----------------------------------------------------------------------------
\* A revalidation that succeeds is as good as an atomic one: at one instant
\* between its first and its last step the path led to the directory, and the
\* three files there were the bytes that the executable pins, whatever another
\* program replaced, rewrote or put back meanwhile.
RevalidatedAtOnce == step = "valid" => whole
=============================================================================
