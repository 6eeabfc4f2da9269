------------------------ MODULE GenerationCacheProofs ------------------------
(***************************************************************************)
(* Theorems about GenerationCache, for every set of processes, candidates  *)
(* and generations, every number of failures, kills and power losses, and  *)
(* both kinds of file system.                                              *)
(***************************************************************************)
EXTENDS GenerationCache, TLAPS

-----------------------------------------------------------------------------
\* Where an operation works on its candidate, and where on a generation.
Owned == {"lease", "fill", "keep", "undoLease", "undoCandidate", "revoke", "rename",
          "verify", "reuse", "mark", "marked", "unpublish", "detach", "discard",
          "unlease", "done"}
Committing == {"revoke", "rename", "verify", "reuse", "mark", "marked", "unpublish",
               "detach"}
Label == Owned \union {"idle", "mkdir", "saved", "resync", "sweep", "prune"}

Job == [kind : {"none", "create", "commit", "abort", "activate", "reconcile", "admit"},
        id : Id \union {None}, ok : BOOLEAN]

TypeOK ==
  /\ ordered \in BOOLEAN
  /\ store \in Store /\ disk \subseteq Store /\ store \in disk
  /\ held \in [Proc -> Token \union {None}]
  /\ owner \in Proc \union {None}
  /\ pc \in Label
  /\ job \in Job
  /\ token \in Token \union {None}
  /\ todo \subseteq {"cand", "lease", "gen", "mark", "state"}
  /\ live \subseteq Token
  /\ fails \in Nat /\ kills \in Nat

\* Without an operation there is nothing to sync; what each one works on; only a
\* commit that has its marker is successful.
Works ==
  /\ owner = None => pc = "idle" /\ todo = {}
  /\ pc = "idle" => owner = None
  /\ pc \in Committing \union {"prune"} => job.id \in Id
  /\ pc \in Owned => token # None
  /\ job.ok => pc \in {"discard", "unlease", "done"} /\ job.id \in Id

\* No marker stands beside a generation that was not verified there: a rename finds
\* none, also after a power loss, and a marker finds a verified generation.
Markers ==
  /\ \A r \in disk : \A i \in Id : r.mark[i] => r.gen[i] # "new"
  /\ pc = "rename" => /\ ~ store.mark[job.id]
                      /\ "mark" \in todo \/ \A r \in disk : ~ r.mark[job.id]
  /\ pc = "mark" => \A r \in disk : r.gen[job.id] # "new"

\* What a commit has reached.
Published ==
  /\ pc \in {"verify", "reuse", "mark", "marked"} \/ job.ok => store.gen[job.id] # "none"
  /\ pc = "marked" \/ job.ok => store.mark[job.id]
  /\ pc = "reuse" => store.cand[token]

\* Nothing was cut short where changes become durable in any order.
Calm == ~ ordered /\ fails = 0 /\ kills = 0

\* What a power loss can take back is what the operation still has to sync.
Synced ==
  /\ Calm => \A r \in disk : /\ "gen" \notin todo => r.gen = store.gen
                             /\ "mark" \notin todo => r.mark = store.mark
                             /\ "state" \notin todo => r.state = store.state
  /\ ordered /\ pc = "done" /\ todo = {} => disk = {store}

\* The generations that the activation state names have their evidence, and the
\* operation is about to take back a generation only if it is not one of them.
Whole(r) == \A i \in Protected(r.state) : r.mark[i] /\ r.gen[i] # "none"

Spared == job.id \notin Protected(store.state)

Kept ==
  ordered \/ Calm =>
    /\ \A r \in disk : Whole(r)
    /\ pc = "revoke" => store.gen[job.id] = "none"
    /\ pc = "verify" => ~ store.cand[token]
    /\ pc \in {"rename", "verify", "unpublish", "detach", "prune"} => Spared
    /\ pc \in {"mark", "marked"} /\ ~ store.cand[token] => Spared

\* Each lease has one holder, the operation works on a candidate that nobody else
\* holds, and a reconciliation knows the ones that are held.
Apart ==
  /\ \A p, q \in Proc : held[p] = held[q] /\ held[p] # None => p = q
  /\ pc \in Owned => \A p \in Proc : held[p] = token => p = owner
  /\ pc \in {"sweep", "prune"} =>
       \A p \in Proc : held[p] # None /\ store.lease[held[p]] # "none" => held[p] \in live

IInv == TypeOK /\ Works /\ Markers /\ Published /\ Synced /\ Kept /\ Apart
-----------------------------------------------------------------------------
\* The files of a step: they stay well formed.
FilesTyped == /\ ordered' = ordered
              /\ store' \in Store /\ disk' \subseteq Store /\ store' \in disk'

\* It leaves the generations, the markers and the state alone.
Quiet == /\ FilesTyped
         /\ store'.gen = store.gen /\ store'.mark = store.mark /\ store'.state = store.state
         /\ \A x \in disk' : \E r \in disk :
              x.gen = r.gen /\ x.mark = r.mark /\ x.state = r.state

\* It changes only the marker of i, to v.
Marking(i, v) ==
  /\ FilesTyped
  /\ store'.mark = [store.mark EXCEPT ![i] = v]
  /\ store'.gen = store.gen /\ store'.state = store.state
  /\ store'.cand = store.cand /\ store'.lease = store.lease
  /\ \A x \in disk' : \E r \in disk :
       /\ x.gen = r.gen /\ x.state = r.state
       /\ \/ x.mark = r.mark
          \/ x.mark = [r.mark EXCEPT ![i] = v] /\ (ordered => r = store)

\* It removes the generation i.
Removing(i) ==
  /\ FilesTyped
  /\ store'.gen = [store.gen EXCEPT ![i] = "none"]
  /\ store'.mark = store.mark /\ store'.state = store.state
  /\ store'.cand = store.cand /\ store'.lease = store.lease
  /\ \A x \in disk' : \E r \in disk :
       /\ x.mark = r.mark /\ x.state = r.state
       /\ \/ x.gen = r.gen
          \/ x.gen = [r.gen EXCEPT ![i] = "none"] /\ (ordered => r = store)

\* An entry of one directory.
LEMMA CandUpdate ==
  ASSUME NEW r \in Store, NEW n \in Token, NEW v \in BOOLEAN,
         NEW x, x = [r EXCEPT !["cand"][n] = v]
  PROVE  /\ x \in Store
         /\ x.cand = [r.cand EXCEPT ![n] = v]
         /\ x.lease = r.lease /\ x.gen = r.gen /\ x.mark = r.mark /\ x.state = r.state
  BY DEF Store

LEMMA LeaseUpdate ==
  ASSUME NEW r \in Store, NEW n \in Token, NEW v \in {"none", "torn", "full"},
         NEW x, x = [r EXCEPT !["lease"][n] = v]
  PROVE  /\ x \in Store
         /\ x.lease = [r.lease EXCEPT ![n] = v]
         /\ x.cand = r.cand /\ x.gen = r.gen /\ x.mark = r.mark /\ x.state = r.state
  BY DEF Store

LEMMA GenUpdate ==
  ASSUME NEW r \in Store, NEW n \in Id, NEW v \in {"none", "new", "verified"},
         NEW x, x = [r EXCEPT !["gen"][n] = v]
  PROVE  /\ x \in Store
         /\ x.gen = [r.gen EXCEPT ![n] = v]
         /\ x.cand = r.cand /\ x.lease = r.lease /\ x.mark = r.mark /\ x.state = r.state
  BY DEF Store

LEMMA MarkUpdate ==
  ASSUME NEW r \in Store, NEW n \in Id, NEW v \in BOOLEAN,
         NEW x, x = [r EXCEPT !["mark"][n] = v]
  PROVE  /\ x \in Store
         /\ x.mark = [r.mark EXCEPT ![n] = v]
         /\ x.cand = r.cand /\ x.lease = r.lease /\ x.gen = r.gen /\ x.state = r.state
  BY DEF Store

LEMMA RenameUpdate ==
  ASSUME NEW r \in Store, NEW n \in Token, NEW i \in Id,
         NEW x, x = [r EXCEPT !.cand[n] = FALSE, !.gen[i] = "new"]
  PROVE  /\ x \in Store
         /\ x.cand = [r.cand EXCEPT ![n] = FALSE] /\ x.gen = [r.gen EXCEPT ![i] = "new"]
         /\ x.lease = r.lease /\ x.mark = r.mark /\ x.state = r.state
  BY DEF Store

LEMMA StateUpdate ==
  ASSUME NEW r \in Store, NEW t \in State, NEW x, x = [r EXCEPT !.state = t]
  PROVE  /\ x \in Store
         /\ x.state = t
         /\ x.cand = r.cand /\ x.lease = r.lease /\ x.gen = r.gen /\ x.mark = r.mark
  BY DEF Store

\* What a change f makes durable: what was there, or what f makes of it; on an
\* ordered file system only of what is visible.
LEMMA PutStep ==
  ASSUME TypeOK, NEW d, NEW n, NEW v, Put(d, n, v)
  PROVE  /\ store' = [store EXCEPT ![d][n] = v]
         /\ ordered' = ordered
         /\ store' \in disk'
         /\ \A x \in disk' : \/ x \in disk
                             \/ \E r \in disk : /\ x = [r EXCEPT ![d][n] = v]
                                                /\ ordered => r = store
<1> DEFINE f(r) == [r EXCEPT ![d][n] = v]
<1>1. store \in disk
  BY DEF TypeOK
<1>2. /\ store' = f(store) /\ ordered' = ordered
      /\ disk' = disk \union IF ordered THEN {f(store)} ELSE {f(r) : r \in disk}
  BY <1>1 DEF Put, Change, Contents
<1> SUFFICES /\ store' = f(store) /\ ordered' = ordered /\ store' \in disk'
             /\ \A x \in disk' : \/ x \in disk
                                 \/ \E r \in disk : x = f(r) /\ (ordered => r = store)
  OBVIOUS
<1> HIDE DEF f
<1>3. QED
  BY <1>1, <1>2

LEMMA CandStep ==
  ASSUME TypeOK, NEW n \in Token, NEW v \in BOOLEAN, Put("cand", n, v)
  PROVE  /\ Quiet
         /\ store'.cand = [store.cand EXCEPT ![n] = v] /\ store'.lease = store.lease
<1> DEFINE f(r) == [r EXCEPT !["cand"][n] = v]
<1>1. store \in Store /\ disk \subseteq Store /\ store \in disk
  BY DEF TypeOK
<1>f. /\ store' = f(store) /\ ordered' = ordered /\ store' \in disk'
      /\ \A x \in disk' : x \in disk \/ \E r \in disk : x = f(r) /\ (ordered => r = store)
  BY PutStep
<1>u. \A r \in Store : /\ f(r) \in Store
                       /\ f(r).cand = [r.cand EXCEPT ![n] = v]
                       /\ f(r).lease = r.lease /\ f(r).gen = r.gen
                       /\ f(r).mark = r.mark /\ f(r).state = r.state
  BY DEF Store
<1> HIDE DEF f
<1>2. /\ store' \in Store
      /\ store'.cand = [store.cand EXCEPT ![n] = v] /\ store'.lease = store.lease
      /\ store'.gen = store.gen /\ store'.mark = store.mark /\ store'.state = store.state
  BY <1>1, <1>f, <1>u
<1>3. \A x \in disk' : /\ x \in Store
                       /\ \E r \in disk : x.gen = r.gen /\ x.mark = r.mark /\ x.state = r.state
  <2> SUFFICES ASSUME NEW x \in disk'
               PROVE  /\ x \in Store
                      /\ \E r \in disk :
                           x.gen = r.gen /\ x.mark = r.mark /\ x.state = r.state
    OBVIOUS
  <2>1. PICK r \in disk : x = r \/ x = f(r)
    BY <1>f
  <2>2. x \in Store /\ x.gen = r.gen /\ x.mark = r.mark /\ x.state = r.state
    BY <1>1, <1>u, <2>1
  <2>3. QED
    BY <2>2
<1>4. QED
  BY <1>2, <1>3, <1>f DEF Quiet, FilesTyped

LEMMA LeaseStep ==
  ASSUME TypeOK, NEW n \in Token, NEW v \in {"none", "torn", "full"}, Put("lease", n, v)
  PROVE  /\ Quiet
         /\ store'.lease = [store.lease EXCEPT ![n] = v] /\ store'.cand = store.cand
<1> DEFINE f(r) == [r EXCEPT !["lease"][n] = v]
<1>1. store \in Store /\ disk \subseteq Store /\ store \in disk
  BY DEF TypeOK
<1>f. /\ store' = f(store) /\ ordered' = ordered /\ store' \in disk'
      /\ \A x \in disk' : x \in disk \/ \E r \in disk : x = f(r) /\ (ordered => r = store)
  BY PutStep
<1>u. \A r \in Store : /\ f(r) \in Store
                       /\ f(r).lease = [r.lease EXCEPT ![n] = v]
                       /\ f(r).cand = r.cand /\ f(r).gen = r.gen
                       /\ f(r).mark = r.mark /\ f(r).state = r.state
  BY DEF Store
<1> HIDE DEF f
<1>2. /\ store' \in Store
      /\ store'.lease = [store.lease EXCEPT ![n] = v] /\ store'.cand = store.cand
      /\ store'.gen = store.gen /\ store'.mark = store.mark /\ store'.state = store.state
  BY <1>1, <1>f, <1>u
<1>3. \A x \in disk' : /\ x \in Store
                       /\ \E r \in disk : x.gen = r.gen /\ x.mark = r.mark /\ x.state = r.state
  <2> SUFFICES ASSUME NEW x \in disk'
               PROVE  /\ x \in Store
                      /\ \E r \in disk :
                           x.gen = r.gen /\ x.mark = r.mark /\ x.state = r.state
    OBVIOUS
  <2>1. PICK r \in disk : x = r \/ x = f(r)
    BY <1>f
  <2>2. x \in Store /\ x.gen = r.gen /\ x.mark = r.mark /\ x.state = r.state
    BY <1>1, <1>u, <2>1
  <2>3. QED
    BY <2>2
<1>4. QED
  BY <1>2, <1>3, <1>f DEF Quiet, FilesTyped

LEMMA MarkStep ==
  ASSUME TypeOK, NEW n \in Id, NEW v \in BOOLEAN, Put("mark", n, v)
  PROVE  Marking(n, v)
<1> DEFINE f(r) == [r EXCEPT !["mark"][n] = v]
<1>1. store \in Store /\ disk \subseteq Store /\ store \in disk
  BY DEF TypeOK
<1>f. /\ store' = f(store) /\ ordered' = ordered /\ store' \in disk'
      /\ \A x \in disk' : x \in disk \/ \E r \in disk : x = f(r) /\ (ordered => r = store)
  BY PutStep
<1>u. \A r \in Store : /\ f(r) \in Store
                       /\ f(r).mark = [r.mark EXCEPT ![n] = v]
                       /\ f(r).cand = r.cand /\ f(r).lease = r.lease
                       /\ f(r).gen = r.gen /\ f(r).state = r.state
  BY DEF Store
<1> HIDE DEF f
<1>2. /\ store' \in Store
      /\ store'.mark = [store.mark EXCEPT ![n] = v]
      /\ store'.gen = store.gen /\ store'.state = store.state
      /\ store'.cand = store.cand /\ store'.lease = store.lease
  BY <1>1, <1>f, <1>u
<1>3. \A x \in disk' : x \in Store
  BY <1>1, <1>f, <1>u
<1>4. \A x \in disk' : \E r \in disk :
       /\ x.gen = r.gen /\ x.state = r.state
       /\ \/ x.mark = r.mark
          \/ x.mark = [r.mark EXCEPT ![n] = v] /\ (ordered => r = store)
  <2> SUFFICES ASSUME NEW x \in disk'
               PROVE  \E r \in disk :
                        /\ x.gen = r.gen /\ x.state = r.state
                        /\ \/ x.mark = r.mark
                           \/ x.mark = [r.mark EXCEPT ![n] = v] /\ (ordered => r = store)
    OBVIOUS
  <2>1. PICK r \in disk : x = r \/ (x = f(r) /\ (ordered => r = store))
    BY <1>f
  <2>2. /\ x.gen = r.gen /\ x.state = r.state
        /\ \/ x.mark = r.mark
           \/ x.mark = [r.mark EXCEPT ![n] = v] /\ (ordered => r = store)
    BY <1>1, <1>u, <2>1
  <2>3. QED
    BY <2>2
<1>5. QED
  BY <1>2, <1>3, <1>4, <1>f DEF Marking, FilesTyped

LEMMA RemoveStep ==
  ASSUME TypeOK, NEW n \in Id, Put("gen", n, "none")
  PROVE  Removing(n)
<1> DEFINE f(r) == [r EXCEPT !["gen"][n] = "none"]
<1>1. store \in Store /\ disk \subseteq Store /\ store \in disk
  BY DEF TypeOK
<1>f. /\ store' = f(store) /\ ordered' = ordered /\ store' \in disk'
      /\ \A x \in disk' : x \in disk \/ \E r \in disk : x = f(r) /\ (ordered => r = store)
  BY PutStep
<1>u. \A r \in Store : /\ f(r) \in Store
                       /\ f(r).gen = [r.gen EXCEPT ![n] = "none"]
                       /\ f(r).cand = r.cand /\ f(r).lease = r.lease
                       /\ f(r).mark = r.mark /\ f(r).state = r.state
  BY DEF Store
<1> HIDE DEF f
<1>2. /\ store' \in Store
      /\ store'.gen = [store.gen EXCEPT ![n] = "none"]
      /\ store'.mark = store.mark /\ store'.state = store.state
      /\ store'.cand = store.cand /\ store'.lease = store.lease
  BY <1>1, <1>f, <1>u
<1>3. \A x \in disk' : x \in Store
  BY <1>1, <1>f, <1>u
<1>4. \A x \in disk' : \E r \in disk :
       /\ x.mark = r.mark /\ x.state = r.state
       /\ \/ x.gen = r.gen
          \/ x.gen = [r.gen EXCEPT ![n] = "none"] /\ (ordered => r = store)
  <2> SUFFICES ASSUME NEW x \in disk'
               PROVE  \E r \in disk :
                        /\ x.mark = r.mark /\ x.state = r.state
                        /\ \/ x.gen = r.gen
                           \/ x.gen = [r.gen EXCEPT ![n] = "none"] /\ (ordered => r = store)
    OBVIOUS
  <2>1. PICK r \in disk : x = r \/ (x = f(r) /\ (ordered => r = store))
    BY <1>f
  <2>2. /\ x.mark = r.mark /\ x.state = r.state
        /\ \/ x.gen = r.gen
           \/ x.gen = [r.gen EXCEPT ![n] = "none"] /\ (ordered => r = store)
    BY <1>1, <1>u, <2>1
  <2>3. QED
    BY <2>2
<1>5. QED
  BY <1>2, <1>3, <1>4, <1>f DEF Removing, FilesTyped

LEMMA FillStep ==
  ASSUME TypeOK, token \in Token, FillLease
  PROVE  /\ Quiet /\ store'.cand = store.cand
         /\ \A t \in Token \ {token} : store'.lease[t] = store.lease[t]
<1> DEFINE Filled(r) == IF r.lease[token] = "torn"
                        THEN [r EXCEPT !.lease[token] = "full"] ELSE r
<1>1. \A r \in Store : /\ Filled(r) \in Store
                       /\ Filled(r).gen = r.gen /\ Filled(r).mark = r.mark
                       /\ Filled(r).state = r.state /\ Filled(r).cand = r.cand
                       /\ \A t \in Token \ {token} : Filled(r).lease[t] = r.lease[t]
  <2> SUFFICES ASSUME NEW r \in Store
               PROVE  /\ Filled(r) \in Store
                      /\ Filled(r).gen = r.gen /\ Filled(r).mark = r.mark
                      /\ Filled(r).state = r.state /\ Filled(r).cand = r.cand
                      /\ \A t \in Token \ {token} : Filled(r).lease[t] = r.lease[t]
    OBVIOUS
  <2>1. CASE r.lease[token] = "torn"
    <3>1. Filled(r) = [r EXCEPT !["lease"][token] = "full"]
      BY <2>1
    <3> HIDE DEF Filled
    <3>2. QED
      BY <3>1, LeaseUpdate DEF Store
  <2>2. CASE r.lease[token] # "torn"
    BY <2>2
  <2>3. QED
    BY <2>1, <2>2
<1>2. /\ store' = Filled(store) /\ ordered' = ordered
      /\ disk' = IF ordered THEN {Filled(store)} ELSE {Filled(r) : r \in disk}
  BY DEF FillLease
<1>3. store \in Store /\ disk \subseteq Store /\ store \in disk
  BY DEF TypeOK
<1> HIDE DEF Filled
<1>4. FilesTyped
  BY <1>1, <1>2, <1>3 DEF FilesTyped
<1>5. \A x \in disk' : \E r \in disk :
         x.gen = r.gen /\ x.mark = r.mark /\ x.state = r.state
  BY <1>1, <1>2, <1>3
<1>6. QED
  BY <1>1, <1>2, <1>3, <1>4, <1>5 DEF Quiet

LEMMA RenameStep ==
  ASSUME TypeOK, token \in Token, job.id \in Id, Rename
  PROVE  /\ FilesTyped
         /\ store'.cand = [store.cand EXCEPT ![token] = FALSE]
         /\ store'.gen = [store.gen EXCEPT ![job.id] = "new"]
         /\ store'.lease = store.lease /\ store'.mark = store.mark
         /\ store'.state = store.state
         /\ \A x \in disk' : \E r \in disk :
              /\ x.mark = r.mark /\ x.state = r.state
              /\ \/ x.gen = r.gen
                 \/ x.gen = [r.gen EXCEPT ![job.id] = "new"] /\ (ordered => r = store)
<1> DEFINE f(r) == [r EXCEPT !.cand[token] = FALSE, !.gen[job.id] = "new"]
<1>1. store \in Store /\ disk \subseteq Store /\ store \in disk
  BY DEF TypeOK
<1>2. /\ store' = f(store) /\ ordered' = ordered
      /\ disk' = disk \union IF ordered THEN {f(store)} ELSE {f(r) : r \in disk}
  BY <1>1 DEF Rename, Change, Contents
<1>3. \A r \in Store : /\ f(r) \in Store
                       /\ f(r).cand = [r.cand EXCEPT ![token] = FALSE]
                       /\ f(r).gen = [r.gen EXCEPT ![job.id] = "new"]
                       /\ f(r).lease = r.lease /\ f(r).mark = r.mark /\ f(r).state = r.state
  BY DEF Store
<1> HIDE DEF f
<1>4. FilesTyped
  BY <1>1, <1>2, <1>3 DEF FilesTyped
<1>5. \A x \in disk' : \E r \in disk :
              /\ x.mark = r.mark /\ x.state = r.state
              /\ \/ x.gen = r.gen
                 \/ x.gen = [r.gen EXCEPT ![job.id] = "new"] /\ (ordered => r = store)
  <2> SUFFICES ASSUME NEW x \in disk'
               PROVE  \E r \in disk :
                        /\ x.mark = r.mark /\ x.state = r.state
                        /\ \/ x.gen = r.gen
                           \/ /\ x.gen = [r.gen EXCEPT ![job.id] = "new"]
                              /\ ordered => r = store
    OBVIOUS
  <2>1. PICK r \in disk : x = r \/ (x = f(r) /\ (ordered => r = store))
    BY <1>1, <1>2
  <2>2. /\ x.mark = r.mark /\ x.state = r.state
        /\ \/ x.gen = r.gen
           \/ x.gen = [r.gen EXCEPT ![job.id] = "new"] /\ (ordered => r = store)
    BY <1>1, <1>3, <2>1
  <2>3. QED
    BY <2>2
<1>6. QED
  BY <1>1, <1>2, <1>3, <1>4, <1>5

LEMMA StateStep ==
  ASSUME TypeOK, NEW t \in State,
         Change([r \in Contents |-> [r EXCEPT !.state = t]])
  PROVE  /\ FilesTyped
         /\ store'.state = t
         /\ store'.cand = store.cand /\ store'.lease = store.lease
         /\ store'.gen = store.gen /\ store'.mark = store.mark
         /\ \A x \in disk' : \E r \in disk :
              /\ x.gen = r.gen /\ x.mark = r.mark
              /\ \/ x.state = r.state
                 \/ x.state = t /\ (ordered => r = store)
<1> DEFINE f(r) == [r EXCEPT !.state = t]
<1>1. store \in Store /\ disk \subseteq Store /\ store \in disk
  BY DEF TypeOK
<1>2. /\ store' = f(store) /\ ordered' = ordered
      /\ disk' = disk \union IF ordered THEN {f(store)} ELSE {f(r) : r \in disk}
  BY <1>1 DEF Change, Contents
<1>3. \A r \in Store : /\ f(r) \in Store /\ f(r).state = t
                       /\ f(r).cand = r.cand /\ f(r).lease = r.lease
                       /\ f(r).gen = r.gen /\ f(r).mark = r.mark
  BY StateUpdate
<1> HIDE DEF f
<1>4. FilesTyped
  BY <1>1, <1>2, <1>3 DEF FilesTyped
<1>5. \A x \in disk' : \E r \in disk :
              /\ x.gen = r.gen /\ x.mark = r.mark
              /\ \/ x.state = r.state
                 \/ x.state = t /\ (ordered => r = store)
  BY <1>1, <1>2, <1>3
<1>6. QED
  BY <1>1, <1>2, <1>3, <1>4, <1>5

\* A verification makes a generation trusted, and changes no other one.
LEMMA VerifiedStep ==
  ASSUME TypeOK, job.id \in Id, ordered' = ordered,
         store' = Verified(store), disk' = {Verified(r) : r \in disk}
  PROVE  /\ FilesTyped
         /\ store'.cand = store.cand /\ store'.lease = store.lease
         /\ store'.mark = store.mark /\ store'.state = store.state
         /\ \A i \in Id : store'.gen[i] = "none" <=> store.gen[i] = "none"
         /\ \A x \in disk' : \E r \in disk :
              /\ x.mark = r.mark /\ x.state = r.state
              /\ x.gen[job.id] # "new"
              /\ r.gen = store.gen => x.gen = store'.gen
              /\ \A i \in Id : /\ x.gen[i] = "new" => r.gen[i] = "new"
                               /\ x.gen[i] = "none" <=> r.gen[i] = "none"
<1>1. store \in Store /\ disk \subseteq Store /\ store \in disk
  BY DEF TypeOK
<1>2. \A r \in Store :
        /\ Verified(r) \in Store
        /\ Verified(r).cand = r.cand /\ Verified(r).lease = r.lease
        /\ Verified(r).mark = r.mark /\ Verified(r).state = r.state
        /\ Verified(r).gen = IF r.gen[job.id] = "new"
                             THEN [r.gen EXCEPT ![job.id] = "verified"] ELSE r.gen
  <2> SUFFICES ASSUME NEW r \in Store
               PROVE  /\ Verified(r) \in Store
                      /\ Verified(r).cand = r.cand /\ Verified(r).lease = r.lease
                      /\ Verified(r).mark = r.mark /\ Verified(r).state = r.state
                      /\ Verified(r).gen = IF r.gen[job.id] = "new"
                                           THEN [r.gen EXCEPT ![job.id] = "verified"]
                                           ELSE r.gen
    OBVIOUS
  <2>1. CASE r.gen[job.id] = "new"
    <3>1. Verified(r) = [r EXCEPT !["gen"][job.id] = "verified"]
      BY <2>1 DEF Verified
    <3>2. [r EXCEPT !["gen"][job.id] = "verified"] \in Store
      BY DEF Store
    <3>3. QED
      BY <2>1, <3>1, <3>2 DEF Store
  <2>2. CASE r.gen[job.id] # "new"
    BY <2>2 DEF Verified
  <2>3. QED
    BY <2>1, <2>2
<1>3. \A r \in Store : /\ Verified(r).gen[job.id] # "new"
                       /\ \A i \in Id :
                            /\ Verified(r).gen[i] = "new" => r.gen[i] = "new"
                            /\ Verified(r).gen[i] = "none" <=> r.gen[i] = "none"
  <2> SUFFICES ASSUME NEW r \in Store
               PROVE  /\ Verified(r).gen[job.id] # "new"
                      /\ \A i \in Id :
                            /\ Verified(r).gen[i] = "new" => r.gen[i] = "new"
                            /\ Verified(r).gen[i] = "none" <=> r.gen[i] = "none"
    OBVIOUS
  <2>1. PICK g \in [Id -> {"none", "new", "verified"}] : g = r.gen
    BY DEF Store
  <2>2. PICK h \in [Id -> {"none", "new", "verified"}] :
          /\ h = Verified(r).gen
          /\ h = IF g[job.id] = "new" THEN [g EXCEPT ![job.id] = "verified"] ELSE g
    BY <1>2, <2>1
  <2>3. /\ h[job.id] # "new"
        /\ \A i \in Id : /\ h[i] = "new" => g[i] = "new"
                         /\ h[i] = "none" <=> g[i] = "none"
    BY <2>2
  <2>4. QED
    BY <2>1, <2>2, <2>3
<1>4. FilesTyped
  BY <1>1, <1>2 DEF FilesTyped
<1>5. ASSUME NEW x \in disk'
      PROVE  \E r \in disk :
              /\ x.mark = r.mark /\ x.state = r.state
              /\ x.gen[job.id] # "new"
              /\ r.gen = store.gen => x.gen = store'.gen
              /\ \A i \in Id : /\ x.gen[i] = "new" => r.gen[i] = "new"
                               /\ x.gen[i] = "none" <=> r.gen[i] = "none"
  <2>1. PICK r \in disk : x = Verified(r)
    OBVIOUS
  <2>2. r \in Store
    BY <1>1
  <2>3. r.gen = store.gen => x.gen = store'.gen
    BY <1>1, <1>2, <2>1, <2>2
  <2>4. x.mark = r.mark /\ x.state = r.state
    BY <1>2, <2>1, <2>2
  <2>5. /\ x.gen[job.id] # "new"
        /\ \A i \in Id : /\ x.gen[i] = "new" => r.gen[i] = "new"
                         /\ x.gen[i] = "none" <=> r.gen[i] = "none"
    BY <1>3, <2>1, <2>2
  <2>6. QED
    BY <2>3, <2>4, <2>5
<1>6. QED
  BY <1>1, <1>2, <1>3, <1>4, <1>5

\* What the activation state names is kept by a step that changes nothing else.
LEMMA QuietWhole ==
  ASSUME Quiet, \A r \in disk : Whole(r)
  PROVE  \A x \in disk' : Whole(x)
<1> SUFFICES ASSUME NEW x \in disk' PROVE Whole(x)
  OBVIOUS
<1>1. PICK r \in disk : x.gen = r.gen /\ x.mark = r.mark /\ x.state = r.state
  BY DEF Quiet
<1>2. QED
  BY <1>1 DEF Whole

LEMMA MarkingWhole ==
  ASSUME TypeOK, NEW i \in Id, NEW v \in BOOLEAN, Marking(i, v),
         v = FALSE => i \notin Protected(store.state),
         ordered \/ \A r \in disk : r.state = store.state,
         \A r \in disk : Whole(r)
  PROVE  \A x \in disk' : Whole(x)
<1> SUFFICES ASSUME NEW x \in disk' PROVE Whole(x)
  OBVIOUS
<1>1. PICK r \in disk : /\ x.gen = r.gen /\ x.state = r.state
                        /\ \/ x.mark = r.mark
                           \/ x.mark = [r.mark EXCEPT ![i] = v] /\ (ordered => r = store)
  BY DEF Marking
<1>2. Whole(r)
  OBVIOUS
<1>3. CASE x.mark = r.mark
  BY <1>1, <1>2, <1>3 DEF Whole
<1>4. CASE x.mark = [r.mark EXCEPT ![i] = v] /\ (ordered => r = store)
  <2>1. r.state = store.state
    BY <1>4
  <2>2. r.mark \in [Id -> BOOLEAN] /\ r.state \in State
    BY DEF TypeOK, Store
  <2>3. Protected(r.state) \subseteq Id
    BY <2>2 DEF Protected, State
  <2>4. QED
    BY <1>1, <1>2, <1>4, <2>1, <2>2, <2>3 DEF Whole
<1>5. QED
  BY <1>1, <1>3, <1>4

LEMMA RemovingWhole ==
  ASSUME TypeOK, NEW i \in Id, Removing(i),
         i \notin Protected(store.state),
         ordered \/ \A r \in disk : r.state = store.state,
         \A r \in disk : Whole(r)
  PROVE  \A x \in disk' : Whole(x)
<1> SUFFICES ASSUME NEW x \in disk' PROVE Whole(x)
  OBVIOUS
<1>1. PICK r \in disk : /\ x.mark = r.mark /\ x.state = r.state
                        /\ \/ x.gen = r.gen
                           \/ x.gen = [r.gen EXCEPT ![i] = "none"] /\ (ordered => r = store)
  BY DEF Removing
<1>2. Whole(r)
  OBVIOUS
<1>3. CASE x.gen = r.gen
  BY <1>1, <1>2, <1>3 DEF Whole
<1>4. CASE x.gen = [r.gen EXCEPT ![i] = "none"] /\ (ordered => r = store)
  <2>1. r.state = store.state
    BY <1>4
  <2>2. r.gen \in [Id -> {"none", "new", "verified"}] /\ r.state \in State
    BY DEF TypeOK, Store
  <2>3. Protected(r.state) \subseteq Id
    BY <2>2 DEF Protected, State
  <2>4. QED
    BY <1>1, <1>2, <1>4, <2>1, <2>2, <2>3 DEF Whole
<1>5. QED
  BY <1>1, <1>3, <1>4

\* A marker that is removed, or written beside a generation that was verified,
\* authorises nothing new.
LEMMA MarkingTrue ==
  ASSUME TypeOK, NEW i \in Id, NEW v \in BOOLEAN, Marking(i, v),
         v = TRUE => \A r \in disk : r.gen[i] # "new",
         \A r \in disk : \A j \in Id : r.mark[j] => r.gen[j] # "new"
  PROVE  \A x \in disk' : \A j \in Id : x.mark[j] => x.gen[j] # "new"
<1> SUFFICES ASSUME NEW x \in disk', NEW j \in Id, x.mark[j] PROVE x.gen[j] # "new"
  OBVIOUS
<1>1. PICK r \in disk : /\ x.gen = r.gen
                        /\ \/ x.mark = r.mark
                           \/ x.mark = [r.mark EXCEPT ![i] = v]
  BY DEF Marking
<1>2. r.mark \in [Id -> BOOLEAN]
  BY DEF TypeOK, Store
<1>3. r.mark[j] \/ (j = i /\ v = TRUE)
  BY <1>1, <1>2
<1>4. QED
  BY <1>1, <1>3

LEMMA RemovingTrue ==
  ASSUME TypeOK, NEW i \in Id, Removing(i),
         \A r \in disk : \A j \in Id : r.mark[j] => r.gen[j] # "new"
  PROVE  \A x \in disk' : \A j \in Id : x.mark[j] => x.gen[j] # "new"
<1> SUFFICES ASSUME NEW x \in disk', NEW j \in Id, x.mark[j] PROVE x.gen[j] # "new"
  OBVIOUS
<1>1. PICK r \in disk : /\ x.mark = r.mark
                        /\ \/ x.gen = r.gen
                           \/ x.gen = [r.gen EXCEPT ![i] = "none"]
  BY DEF Removing
<1>2. r.gen \in [Id -> {"none", "new", "verified"}]
  BY DEF TypeOK, Store
<1>3. QED
  BY <1>1, <1>2

LEMMA SyncStep ==
  ASSUME TypeOK, todo # {}, Sync(todo), store' = store, ordered' = ordered
  PROVE  /\ Quiet /\ store' = store
         /\ ordered => disk' = {store}
         /\ \A r \in disk' : /\ "gen" \in todo => r.gen = store.gen
                             /\ "mark" \in todo => r.mark = store.mark
                             /\ "state" \in todo => r.state = store.state
<1>1. store \in Store /\ disk \subseteq Store /\ store \in disk
  BY DEF TypeOK
<1>2. disk' = IF ordered THEN {store}
              ELSE {r \in disk : \A d \in todo : r[d] = store[d]}
  BY DEF Sync
<1>3. store \in disk' /\ disk' \subseteq disk
  BY <1>1, <1>2
<1>4. \A r \in disk' : r = store \/ \A d \in todo : r[d] = store[d]
  BY <1>2
<1>5. \A r \in disk' : /\ "gen" \in todo => r.gen = store.gen
                       /\ "mark" \in todo => r.mark = store.mark
                       /\ "state" \in todo => r.state = store.state
  BY <1>4
<1>6. Quiet
  BY <1>1, <1>3 DEF Quiet, FilesTyped
<1>7. QED
  BY <1>2, <1>5, <1>6

\* The operation is over, whether it succeeded or not: nothing is half done that
\* the invariant speaks of.
LEMMA IdleKeeps ==
  ASSUME IInv, Idle, store' = store, disk' = disk, ordered' = ordered,
         held' \in [Proc -> Token \union {None}],
         \A p, q \in Proc : held'[p] = held'[q] /\ held'[p] # None => p = q,
         fails' \in Nat, kills' \in Nat,
         Calm' => Calm /\ todo = {}
  PROVE  IInv'
<1>0. TypeOK /\ Works /\ Markers /\ Published /\ Synced /\ Kept /\ Apart
  BY DEF IInv
<1>1. /\ owner' = None /\ pc' = "idle" /\ job' = NoJob
      /\ token' = None /\ todo' = {} /\ live' = {}
  BY DEF Idle
<1>2. job' = [kind |-> "none", id |-> None, ok |-> FALSE]
  BY <1>1 DEF NoJob
<1>3. TypeOK'
  <2>1. job' \in Job
    BY <1>2 DEF Job
  <2>2. QED
    BY <1>0, <1>1, <2>1 DEF TypeOK, Label
<1>4. Works'
  BY <1>1, <1>2 DEF Works, Owned, Committing
<1>5. Markers'
  BY <1>0, <1>1 DEF Markers
<1>6. Published'
  BY <1>1, <1>2 DEF Published
<1>7. Synced'
  BY <1>0, <1>1 DEF Synced, Calm
<1>8. Kept'
  <2>1. ordered' \/ Calm' => ordered \/ Calm
    OBVIOUS
  <2>2. ordered \/ Calm => \A r \in disk : Whole(r)
    BY <1>0 DEF Kept
  <2>3. QED
    BY <1>1, <2>1, <2>2 DEF Kept
<1>9. Apart'
  BY <1>1 DEF Apart, Owned
<1>10. QED
  BY <1>3, <1>4, <1>5, <1>6, <1>7, <1>8, <1>9 DEF IInv
-----------------------------------------------------------------------------
LEMMA OpenLeaseKeeps ==
  ASSUME IInv, OpenLease
  PROVE  IInv'
<1>0. TypeOK /\ Works /\ Markers /\ Published /\ Synced /\ Kept /\ Apart
  BY DEF IInv
<1>1. /\ pc = "lease" /\ todo = {}
      /\ pc' = "fill" /\ todo' = {}
      /\ held' = held /\ owner' = owner
      /\ job' = job /\ token' = token
      /\ live' = live /\ fails' = fails
      /\ kills' = kills /\ Put("lease", token, "torn")
  BY DEF OpenLease, At, Goto, Unsynced, fileVars, budget
<1>2. Quiet /\ store'.cand = store.cand
  BY <1>0, <1>1, LeaseStep DEF Works, TypeOK, Owned
<1>3. TypeOK'
  BY <1>0, <1>1, <1>2 DEF TypeOK, Label, Owned, Quiet, FilesTyped
<1>4. Works'
  BY <1>0, <1>1, <1>2 DEF Works, TypeOK, Owned, Committing
<1>5. Markers'
  BY <1>0, <1>1, <1>2 DEF Markers, TypeOK, Works, Committing, Quiet, FilesTyped
<1>6. Published'
  BY <1>0, <1>1, <1>2 DEF Published, Works, TypeOK, Committing, Owned, Quiet, FilesTyped
<1>7. Synced'
  BY <1>0, <1>1, <1>2 DEF Synced, Calm, TypeOK, Quiet, FilesTyped
<1>8. Kept'
  <2>1. ordered \/ Calm => \A r \in disk : Whole(r)
    BY <1>0 DEF Kept
  <2>2. ordered' \/ Calm' => ordered \/ Calm
    BY <1>0, <1>1, <1>2 DEF Calm, TypeOK, Quiet, FilesTyped
  <2>3. ordered \/ Calm => \A x \in disk' : Whole(x)
    BY <1>2, <2>1, QuietWhole
  <2>4. QED
    BY <1>0, <1>1, <1>2, <2>2, <2>3 DEF Kept, Spared, TypeOK, Works, Quiet, FilesTyped
<1>9. Apart'
  BY <1>0, <1>1, <1>2 DEF Apart, Works, TypeOK, Owned, Quiet, FilesTyped
<1>10. QED
  BY <1>3, <1>4, <1>5, <1>6, <1>7, <1>8, <1>9 DEF IInv

LEMMA UndoLeaseKeeps ==
  ASSUME IInv, UndoLease
  PROVE  IInv'
<1>0. TypeOK /\ Works /\ Markers /\ Published /\ Synced /\ Kept /\ Apart
  BY DEF IInv
<1>1. /\ pc = "undoLease" /\ todo = {}
      /\ pc' = "undoCandidate" /\ todo' = {"lease"}
      /\ held' = held /\ owner' = owner
      /\ job' = job /\ token' = token
      /\ live' = live /\ fails' = fails
      /\ kills' = kills /\ Put("lease", token, "none")
  BY DEF UndoLease, At, Goto, Unsynced, fileVars, budget
<1>2. Quiet /\ store'.cand = store.cand
  BY <1>0, <1>1, LeaseStep DEF Works, TypeOK, Owned
<1>3. TypeOK'
  BY <1>0, <1>1, <1>2 DEF TypeOK, Label, Owned, Quiet, FilesTyped
<1>4. Works'
  BY <1>0, <1>1, <1>2 DEF Works, TypeOK, Owned, Committing
<1>5. Markers'
  BY <1>0, <1>1, <1>2 DEF Markers, TypeOK, Works, Committing, Quiet, FilesTyped
<1>6. Published'
  BY <1>0, <1>1, <1>2 DEF Published, Works, TypeOK, Committing, Owned, Quiet, FilesTyped
<1>7. Synced'
  BY <1>0, <1>1, <1>2 DEF Synced, Calm, TypeOK, Quiet, FilesTyped
<1>8. Kept'
  <2>1. ordered \/ Calm => \A r \in disk : Whole(r)
    BY <1>0 DEF Kept
  <2>2. ordered' \/ Calm' => ordered \/ Calm
    BY <1>0, <1>1, <1>2 DEF Calm, TypeOK, Quiet, FilesTyped
  <2>3. ordered \/ Calm => \A x \in disk' : Whole(x)
    BY <1>2, <2>1, QuietWhole
  <2>4. QED
    BY <1>0, <1>1, <1>2, <2>2, <2>3 DEF Kept, Spared, TypeOK, Works, Quiet, FilesTyped
<1>9. Apart'
  BY <1>0, <1>1, <1>2 DEF Apart, Works, TypeOK, Owned, Quiet, FilesTyped
<1>10. QED
  BY <1>3, <1>4, <1>5, <1>6, <1>7, <1>8, <1>9 DEF IInv

LEMMA UndoCandidateKeeps ==
  ASSUME IInv, UndoCandidate
  PROVE  IInv'
<1>0. TypeOK /\ Works /\ Markers /\ Published /\ Synced /\ Kept /\ Apart
  BY DEF IInv
<1>1. /\ pc = "undoCandidate" /\ todo = {}
      /\ pc' = "done" /\ todo' = {"cand"}
      /\ held' = held /\ owner' = owner
      /\ job' = job /\ token' = token
      /\ live' = live /\ fails' = fails
      /\ kills' = kills /\ Put("cand", token, FALSE)
  BY DEF UndoCandidate, At, Goto, Unsynced, fileVars, budget
<1>2. Quiet
  BY <1>0, <1>1, CandStep DEF Works, TypeOK, Owned
<1>3. TypeOK'
  BY <1>0, <1>1, <1>2 DEF TypeOK, Label, Owned, Quiet, FilesTyped
<1>4. Works'
  BY <1>0, <1>1, <1>2 DEF Works, TypeOK, Owned, Committing
<1>5. Markers'
  BY <1>0, <1>1, <1>2 DEF Markers, TypeOK, Works, Committing, Quiet, FilesTyped
<1>6. Published'
  BY <1>0, <1>1, <1>2 DEF Published, Works, TypeOK, Committing, Owned, Quiet, FilesTyped
<1>7. Synced'
  BY <1>0, <1>1, <1>2 DEF Synced, Calm, TypeOK, Quiet, FilesTyped
<1>8. Kept'
  <2>1. ordered \/ Calm => \A r \in disk : Whole(r)
    BY <1>0 DEF Kept
  <2>2. ordered' \/ Calm' => ordered \/ Calm
    BY <1>0, <1>1, <1>2 DEF Calm, TypeOK, Quiet, FilesTyped
  <2>3. ordered \/ Calm => \A x \in disk' : Whole(x)
    BY <1>2, <2>1, QuietWhole
  <2>4. QED
    BY <1>0, <1>1, <1>2, <2>2, <2>3 DEF Kept, Spared, TypeOK, Works, Quiet, FilesTyped
<1>9. Apart'
  BY <1>0, <1>1, <1>2 DEF Apart, Works, TypeOK, Owned, Quiet, FilesTyped
<1>10. QED
  BY <1>3, <1>4, <1>5, <1>6, <1>7, <1>8, <1>9 DEF IInv

LEMMA DiscardKeeps ==
  ASSUME IInv, Discard
  PROVE  IInv'
<1>0. TypeOK /\ Works /\ Markers /\ Published /\ Synced /\ Kept /\ Apart
  BY DEF IInv
<1>1. /\ pc = "discard" /\ todo = {}
      /\ pc' = "unlease" /\ todo' = {"cand"}
      /\ held' = held /\ owner' = owner
      /\ job' = job /\ token' = token
      /\ live' = live /\ fails' = fails
      /\ kills' = kills /\ Put("cand", token, FALSE)
  BY DEF Discard, At, Goto, Unsynced, fileVars, budget
<1>2. Quiet
  BY <1>0, <1>1, CandStep DEF Works, TypeOK, Owned
<1>3. TypeOK'
  BY <1>0, <1>1, <1>2 DEF TypeOK, Label, Owned, Quiet, FilesTyped
<1>4. Works'
  BY <1>0, <1>1, <1>2 DEF Works, TypeOK, Owned, Committing
<1>5. Markers'
  BY <1>0, <1>1, <1>2 DEF Markers, TypeOK, Works, Committing, Quiet, FilesTyped
<1>6. Published'
  BY <1>0, <1>1, <1>2 DEF Published, Works, TypeOK, Committing, Owned, Quiet, FilesTyped
<1>7. Synced'
  BY <1>0, <1>1, <1>2 DEF Synced, Calm, TypeOK, Quiet, FilesTyped
<1>8. Kept'
  <2>1. ordered \/ Calm => \A r \in disk : Whole(r)
    BY <1>0 DEF Kept
  <2>2. ordered' \/ Calm' => ordered \/ Calm
    BY <1>0, <1>1, <1>2 DEF Calm, TypeOK, Quiet, FilesTyped
  <2>3. ordered \/ Calm => \A x \in disk' : Whole(x)
    BY <1>2, <2>1, QuietWhole
  <2>4. QED
    BY <1>0, <1>1, <1>2, <2>2, <2>3 DEF Kept, Spared, TypeOK, Works, Quiet, FilesTyped
<1>9. Apart'
  BY <1>0, <1>1, <1>2 DEF Apart, Works, TypeOK, Owned, Quiet, FilesTyped
<1>10. QED
  BY <1>3, <1>4, <1>5, <1>6, <1>7, <1>8, <1>9 DEF IInv

LEMMA RemoveLeaseKeeps ==
  ASSUME IInv, RemoveLease
  PROVE  IInv'
<1>0. TypeOK /\ Works /\ Markers /\ Published /\ Synced /\ Kept /\ Apart
  BY DEF IInv
<1>1. /\ pc = "unlease" /\ todo = {}
      /\ pc' = "done" /\ todo' = {"lease"}
      /\ held' = held /\ owner' = owner
      /\ job' = job /\ token' = token
      /\ live' = live /\ fails' = fails
      /\ kills' = kills /\ Put("lease", token, "none")
  BY DEF RemoveLease, At, Goto, Unsynced, fileVars, budget
<1>2. Quiet
  BY <1>0, <1>1, LeaseStep DEF Works, TypeOK, Owned
<1>3. TypeOK'
  BY <1>0, <1>1, <1>2 DEF TypeOK, Label, Owned, Quiet, FilesTyped
<1>4. Works'
  BY <1>0, <1>1, <1>2 DEF Works, TypeOK, Owned, Committing
<1>5. Markers'
  BY <1>0, <1>1, <1>2 DEF Markers, TypeOK, Works, Committing, Quiet, FilesTyped
<1>6. Published'
  BY <1>0, <1>1, <1>2 DEF Published, Works, TypeOK, Committing, Owned, Quiet, FilesTyped
<1>7. Synced'
  BY <1>0, <1>1, <1>2 DEF Synced, Calm, TypeOK, Quiet, FilesTyped
<1>8. Kept'
  <2>1. ordered \/ Calm => \A r \in disk : Whole(r)
    BY <1>0 DEF Kept
  <2>2. ordered' \/ Calm' => ordered \/ Calm
    BY <1>0, <1>1, <1>2 DEF Calm, TypeOK, Quiet, FilesTyped
  <2>3. ordered \/ Calm => \A x \in disk' : Whole(x)
    BY <1>2, <2>1, QuietWhole
  <2>4. QED
    BY <1>0, <1>1, <1>2, <2>2, <2>3 DEF Kept, Spared, TypeOK, Works, Quiet, FilesTyped
<1>9. Apart'
  BY <1>0, <1>1, <1>2 DEF Apart, Works, TypeOK, Owned, Quiet, FilesTyped
<1>10. QED
  BY <1>3, <1>4, <1>5, <1>6, <1>7, <1>8, <1>9 DEF IInv

LEMMA RevokeKeeps ==
  ASSUME IInv, Revoke
  PROVE  IInv'
<1>0. TypeOK /\ Works /\ Markers /\ Published /\ Synced /\ Kept /\ Apart
  BY DEF IInv
<1>1. /\ pc = "revoke" /\ todo = {}
      /\ pc' = "rename" /\ todo' = {"mark"}
      /\ held' = held /\ owner' = owner
      /\ job' = job /\ token' = token
      /\ live' = live /\ fails' = fails
      /\ kills' = kills /\ Put("mark", job.id, FALSE)
  BY DEF Revoke, At, Goto, Unsynced, fileVars, budget
<1>2. Marking(job.id, FALSE)
  BY <1>0, <1>1, MarkStep DEF Works, Committing
<1>3. TypeOK'
  BY <1>0, <1>1, <1>2 DEF TypeOK, Label, Owned, Marking, FilesTyped
<1>4. Works'
  BY <1>0, <1>1, <1>2 DEF Works, TypeOK, Owned, Committing
<1>5. Markers'
  <2>1. \A x \in disk' : \A j \in Id : x.mark[j] => x.gen[j] # "new"
    BY <1>0, <1>1, <1>2, MarkingTrue DEF Markers, Works, Committing
  <2>2. QED
    BY <1>0, <1>1, <1>2, <2>1 DEF Markers, Works, Committing, TypeOK, Store, Marking, FilesTyped
<1>6. Published'
  BY <1>0, <1>1, <1>2 DEF Published, Works, TypeOK, Committing, Owned, Store, Marking, FilesTyped
<1>7. Synced'
  BY <1>0, <1>1, <1>2 DEF Synced, Calm, TypeOK, Marking, FilesTyped
<1>8. Kept'
  <2>1. ordered \/ Calm => \A r \in disk : Whole(r)
    BY <1>0 DEF Kept
  <2>2. ordered' \/ Calm' => ordered \/ Calm
    BY <1>0, <1>1, <1>2 DEF Calm, TypeOK, Marking, FilesTyped
  <2>s. ordered \/ ~ Calm \/ \A r \in disk : r.state = store.state
    BY <1>0, <1>1 DEF Synced
  <2>p. ordered \/ Calm => job.id \notin Protected(store.state)
    BY <1>0, <1>1, <2>1 DEF Kept, Whole, TypeOK
  <2>3. ordered \/ Calm => \A x \in disk' : Whole(x)
    BY <1>0, <1>1, <1>2, <2>1, <2>s, <2>p, MarkingWhole DEF Works, Committing
  <2>4. QED
    BY <1>0, <1>1, <1>2, <2>2, <2>3, <2>p DEF Kept, Spared, TypeOK, Works, Marking, FilesTyped
<1>9. Apart'
  BY <1>0, <1>1, <1>2 DEF Apart, Works, TypeOK, Owned, Marking, FilesTyped
<1>10. QED
  BY <1>3, <1>4, <1>5, <1>6, <1>7, <1>8, <1>9 DEF IInv

LEMMA MarkKeeps ==
  ASSUME IInv, Mark
  PROVE  IInv'
<1>0. TypeOK /\ Works /\ Markers /\ Published /\ Synced /\ Kept /\ Apart
  BY DEF IInv
<1>1. /\ pc = "mark" /\ todo = {}
      /\ pc' = "marked" /\ todo' = {"mark"}
      /\ held' = held /\ owner' = owner
      /\ job' = job /\ token' = token
      /\ live' = live /\ fails' = fails
      /\ kills' = kills /\ Put("mark", job.id, TRUE)
  BY DEF Mark, At, Goto, Unsynced, fileVars, budget
<1>2. Marking(job.id, TRUE)
  BY <1>0, <1>1, MarkStep DEF Works, Committing
<1>3. TypeOK'
  BY <1>0, <1>1, <1>2 DEF TypeOK, Label, Owned, Marking, FilesTyped
<1>4. Works'
  BY <1>0, <1>1, <1>2 DEF Works, TypeOK, Owned, Committing
<1>5. Markers'
  <2>1. \A x \in disk' : \A j \in Id : x.mark[j] => x.gen[j] # "new"
    BY <1>0, <1>1, <1>2, MarkingTrue DEF Markers, Works, Committing
  <2>2. QED
    BY <1>0, <1>1, <1>2, <2>1 DEF Markers, Works, Committing, TypeOK, Store, Marking, FilesTyped
<1>6. Published'
  BY <1>0, <1>1, <1>2 DEF Published, Works, TypeOK, Committing, Owned, Store, Marking, FilesTyped
<1>7. Synced'
  BY <1>0, <1>1, <1>2 DEF Synced, Calm, TypeOK, Marking, FilesTyped
<1>8. Kept'
  <2>1. ordered \/ Calm => \A r \in disk : Whole(r)
    BY <1>0 DEF Kept
  <2>2. ordered' \/ Calm' => ordered \/ Calm
    BY <1>0, <1>1, <1>2 DEF Calm, TypeOK, Marking, FilesTyped
  <2>s. ordered \/ \A r \in disk : r.state = store.state \/ ~ Calm
    BY <1>0, <1>1 DEF Synced
  <2>3. ordered \/ Calm => \A x \in disk' : Whole(x)
    BY <1>0, <1>1, <1>2, <2>1, <2>s, MarkingWhole DEF Works, Committing
  <2>4. QED
    BY <1>0, <1>1, <1>2, <2>2, <2>3 DEF Kept, Spared, TypeOK, Works, Marking, FilesTyped
<1>9. Apart'
  BY <1>0, <1>1, <1>2 DEF Apart, Works, TypeOK, Owned, Marking, FilesTyped
<1>10. QED
  BY <1>3, <1>4, <1>5, <1>6, <1>7, <1>8, <1>9 DEF IInv

LEMMA UnpublishKeeps ==
  ASSUME IInv, Unpublish
  PROVE  IInv'
<1>0. TypeOK /\ Works /\ Markers /\ Published /\ Synced /\ Kept /\ Apart
  BY DEF IInv
<1>1. /\ pc = "unpublish" /\ todo = {}
      /\ pc' = "detach" /\ todo' = {"mark"}
      /\ held' = held /\ owner' = owner
      /\ job' = job /\ token' = token
      /\ live' = live /\ fails' = fails
      /\ kills' = kills /\ Put("mark", job.id, FALSE)
  BY DEF Unpublish, At, Goto, Unsynced, fileVars, budget
<1>2. Marking(job.id, FALSE)
  BY <1>0, <1>1, MarkStep DEF Works, Committing
<1>3. TypeOK'
  BY <1>0, <1>1, <1>2 DEF TypeOK, Label, Owned, Marking, FilesTyped
<1>4. Works'
  BY <1>0, <1>1, <1>2 DEF Works, TypeOK, Owned, Committing
<1>5. Markers'
  <2>1. \A x \in disk' : \A j \in Id : x.mark[j] => x.gen[j] # "new"
    BY <1>0, <1>1, <1>2, MarkingTrue DEF Markers, Works, Committing
  <2>2. QED
    BY <1>0, <1>1, <1>2, <2>1 DEF Markers, Works, Committing, TypeOK, Store, Marking, FilesTyped
<1>6. Published'
  BY <1>0, <1>1, <1>2 DEF Published, Works, TypeOK, Committing, Owned, Store, Marking, FilesTyped
<1>7. Synced'
  BY <1>0, <1>1, <1>2 DEF Synced, Calm, TypeOK, Marking, FilesTyped
<1>8. Kept'
  <2>1. ordered \/ Calm => \A r \in disk : Whole(r)
    BY <1>0 DEF Kept
  <2>2. ordered' \/ Calm' => ordered \/ Calm
    BY <1>0, <1>1, <1>2 DEF Calm, TypeOK, Marking, FilesTyped
  <2>s. ordered \/ ~ Calm \/ \A r \in disk : r.state = store.state
    BY <1>0, <1>1 DEF Synced
  <2>p. ordered \/ Calm => job.id \notin Protected(store.state)
    BY <1>0, <1>1 DEF Kept, Spared
  <2>3. ordered \/ Calm => \A x \in disk' : Whole(x)
    BY <1>0, <1>1, <1>2, <2>1, <2>s, <2>p, MarkingWhole DEF Works, Committing
  <2>4. QED
    BY <1>0, <1>1, <1>2, <2>2, <2>3, <2>p DEF Kept, Spared, TypeOK, Works, Marking, FilesTyped
<1>9. Apart'
  BY <1>0, <1>1, <1>2 DEF Apart, Works, TypeOK, Owned, Marking, FilesTyped
<1>10. QED
  BY <1>3, <1>4, <1>5, <1>6, <1>7, <1>8, <1>9 DEF IInv

LEMMA DetachKeeps ==
  ASSUME IInv, Detach
  PROVE  IInv'
<1>0. TypeOK /\ Works /\ Markers /\ Published /\ Synced /\ Kept /\ Apart
  BY DEF IInv
<1>1. /\ pc = "detach" /\ todo = {}
      /\ pc' = "unlease" /\ todo' = {"gen", "cand"}
      /\ held' = held /\ owner' = owner
      /\ job' = job /\ token' = token
      /\ live' = live /\ fails' = fails
      /\ kills' = kills /\ Put("gen", job.id, "none")
  BY DEF Detach, At, Goto, Unsynced, fileVars, budget
<1>2. Removing(job.id)
  BY <1>0, <1>1, RemoveStep DEF Works, Committing
<1>3. TypeOK'
  BY <1>0, <1>1, <1>2 DEF TypeOK, Label, Owned, Removing, FilesTyped
<1>4. Works'
  BY <1>0, <1>1, <1>2 DEF Works, TypeOK, Owned, Committing
<1>5. Markers'
  <2>1. \A x \in disk' : \A j \in Id : x.mark[j] => x.gen[j] # "new"
    BY <1>0, <1>1, <1>2, RemovingTrue DEF Markers, Works, Committing
  <2>2. QED
    BY <1>0, <1>1, <1>2, <2>1 DEF Markers, Works, Committing, TypeOK, Store, Removing, FilesTyped
<1>6. Published'
  BY <1>0, <1>1, <1>2 DEF Published, Works, TypeOK, Committing, Owned, Store, Removing, FilesTyped
<1>7. Synced'
  BY <1>0, <1>1, <1>2 DEF Synced, Calm, TypeOK, Removing, FilesTyped
<1>8. Kept'
  <2>1. ordered \/ Calm => \A r \in disk : Whole(r)
    BY <1>0 DEF Kept
  <2>2. ordered' \/ Calm' => ordered \/ Calm
    BY <1>0, <1>1, <1>2 DEF Calm, TypeOK, Removing, FilesTyped
  <2>s. ordered \/ ~ Calm \/ \A r \in disk : r.state = store.state
    BY <1>0, <1>1 DEF Synced
  <2>p. ordered \/ Calm => job.id \notin Protected(store.state)
    BY <1>0, <1>1 DEF Kept, Spared
  <2>3. ordered \/ Calm => \A x \in disk' : Whole(x)
    BY <1>0, <1>1, <1>2, <2>1, <2>s, <2>p, RemovingWhole DEF Works, Committing
  <2>4. QED
    BY <1>0, <1>1, <1>2, <2>2, <2>3, <2>p DEF Kept, Spared, TypeOK, Works, Removing, FilesTyped
<1>9. Apart'
  BY <1>0, <1>1, <1>2 DEF Apart, Works, TypeOK, Owned, Removing, FilesTyped
<1>10. QED
  BY <1>3, <1>4, <1>5, <1>6, <1>7, <1>8, <1>9 DEF IInv

LEMMA PruneKeeps ==
  ASSUME IInv, Prune
  PROVE  IInv'
<1>0. TypeOK /\ Works /\ Markers /\ Published /\ Synced /\ Kept /\ Apart
  BY DEF IInv
<1>1. /\ pc = "prune" /\ todo = {}
      /\ pc' = "sweep" /\ todo' = {"gen"}
      /\ held' = held /\ owner' = owner
      /\ job' = job /\ token' = token
      /\ live' = live /\ fails' = fails
      /\ kills' = kills /\ Put("gen", job.id, "none")
  BY DEF Prune, At, Goto, Unsynced, fileVars, budget
<1>2. Removing(job.id)
  BY <1>0, <1>1, RemoveStep DEF Works
<1>3. TypeOK'
  BY <1>0, <1>1, <1>2 DEF TypeOK, Label, Owned, Removing, FilesTyped
<1>4. Works'
  BY <1>0, <1>1, <1>2 DEF Works, TypeOK, Owned, Committing
<1>5. Markers'
  <2>1. \A x \in disk' : \A j \in Id : x.mark[j] => x.gen[j] # "new"
    BY <1>0, <1>1, <1>2, RemovingTrue DEF Markers, Works, Committing
  <2>2. QED
    BY <1>0, <1>1, <1>2, <2>1 DEF Markers, Works, Committing, TypeOK, Store, Removing, FilesTyped
<1>6. Published'
  BY <1>0, <1>1, <1>2 DEF Published, Works, TypeOK, Committing, Owned, Store, Removing, FilesTyped
<1>7. Synced'
  BY <1>0, <1>1, <1>2 DEF Synced, Calm, TypeOK, Removing, FilesTyped
<1>8. Kept'
  <2>1. ordered \/ Calm => \A r \in disk : Whole(r)
    BY <1>0 DEF Kept
  <2>2. ordered' \/ Calm' => ordered \/ Calm
    BY <1>0, <1>1, <1>2 DEF Calm, TypeOK, Removing, FilesTyped
  <2>s. ordered \/ ~ Calm \/ \A r \in disk : r.state = store.state
    BY <1>0, <1>1 DEF Synced
  <2>p. ordered \/ Calm => job.id \notin Protected(store.state)
    BY <1>0, <1>1 DEF Kept, Spared
  <2>3. ordered \/ Calm => \A x \in disk' : Whole(x)
    BY <1>0, <1>1, <1>2, <2>1, <2>s, <2>p, RemovingWhole DEF Works, Committing
  <2>4. QED
    BY <1>0, <1>1, <1>2, <2>2, <2>3, <2>p DEF Kept, Spared, TypeOK, Works, Removing, FilesTyped
<1>9. Apart'
  BY <1>0, <1>1, <1>2 DEF Apart, Works, TypeOK, Owned, Removing, FilesTyped
<1>10. QED
  BY <1>3, <1>4, <1>5, <1>6, <1>7, <1>8, <1>9 DEF IInv

LEMMA CreateKeeps ==
  ASSUME IInv, NEW p \in Proc, Create(p)
  PROVE  IInv'
<1>0. TypeOK /\ Works /\ Markers /\ Published /\ Synced /\ Kept /\ Apart
  BY DEF IInv
<1>1. /\ owner = None /\ held[p] = None /\ owner' = p
      /\ pc' = "mkdir" /\ todo' = {}
      /\ job' = [kind |-> "create", id |-> None, ok |-> FALSE] /\ store' = store
      /\ disk' = disk /\ ordered' = ordered
      /\ held' = held /\ token' = token
      /\ live' = live /\ fails' = fails
      /\ kills' = kills
  BY DEF Create, At, Goto, Unsynced, fileVars, budget, Take
<1>j. job' \in Job /\ ~ job'.ok
  BY <1>0, <1>1 DEF Job, TypeOK
<1>3. TypeOK'
  BY <1>0, <1>1, <1>j DEF TypeOK, Label, Owned
<1>4. Works'
  BY <1>0, <1>1, <1>j, NamesAssumption DEF Works, TypeOK, Owned, Committing
<1>5. Markers'
  BY <1>0, <1>1 DEF Markers, TypeOK, Works, Committing
<1>6. Published'
  BY <1>0, <1>1, <1>j DEF Published, Works, Committing, Owned
<1>7. Synced'
  BY <1>0, <1>1 DEF Synced, Calm, Works
<1>8. Kept'
  <2>1. ordered \/ Calm => \A r \in disk : Whole(r)
    BY <1>0 DEF Kept
  <2>2. ordered' \/ Calm' => ordered \/ Calm
    BY <1>0, <1>1 DEF Calm, TypeOK
  <2>3. ordered \/ Calm => \A x \in disk' : Whole(x)
    BY <1>1, <2>1
  <2>4. QED
    BY <1>0, <1>1, <2>2, <2>3 DEF Kept, Spared, TypeOK, Works
<1>9. Apart'
  BY <1>0, <1>1 DEF Apart, Works, TypeOK, Owned
<1>10. QED
  BY <1>3, <1>4, <1>5, <1>6, <1>7, <1>8, <1>9 DEF IInv

LEMMA MakeCandidateKeeps ==
  ASSUME IInv, MakeCandidate
  PROVE  IInv'
<1>0. TypeOK /\ Works /\ Markers /\ Published /\ Synced /\ Kept /\ Apart
  BY DEF IInv
<1>p. PICK t \in Token : t \in Unused /\ Put("cand", t, TRUE) /\ token' = t
  BY DEF MakeCandidate, Unused
<1>1. /\ pc = "mkdir" /\ todo = {}
      /\ pc' = "lease" /\ todo' = {"cand"}
      /\ token' = t /\ Put("cand", t, TRUE)
      /\ held' = held /\ owner' = owner
      /\ job' = job /\ live' = live
      /\ fails' = fails /\ kills' = kills
  BY <1>p DEF MakeCandidate, At, Goto, Unsynced, fileVars, budget
<1>2. Quiet
  BY <1>0, <1>1, CandStep
<1>3. TypeOK'
  BY <1>0, <1>1, <1>2 DEF TypeOK, Label, Owned, Quiet, FilesTyped
<1>4. Works'
  BY <1>0, <1>1, NamesAssumption DEF Works, TypeOK, Owned, Committing
<1>5. Markers'
  BY <1>0, <1>1, <1>2 DEF Markers, TypeOK, Works, Committing, Quiet, FilesTyped
<1>6. Published'
  BY <1>0, <1>1, <1>2 DEF Published, Works, TypeOK, Committing, Owned, Quiet, FilesTyped
<1>7. Synced'
  BY <1>0, <1>1, <1>2 DEF Synced, Calm, TypeOK, Quiet, FilesTyped
<1>8. Kept'
  <2>1. ordered \/ Calm => \A r \in disk : Whole(r)
    BY <1>0 DEF Kept
  <2>2. ordered' \/ Calm' => ordered \/ Calm
    BY <1>0, <1>1, <1>2 DEF Calm, TypeOK, Quiet, FilesTyped
  <2>3. ordered \/ Calm => \A x \in disk' : Whole(x)
    BY <1>2, <2>1, QuietWhole
  <2>4. QED
    BY <1>0, <1>1, <1>2, <2>2, <2>3 DEF Kept, Spared, TypeOK, Works, Quiet, FilesTyped
<1>9. Apart'
  BY <1>0, <1>1, <1>2, <1>p DEF Apart, Works, TypeOK, Owned, Unused, Live
<1>10. QED
  BY <1>3, <1>4, <1>5, <1>6, <1>7, <1>8, <1>9 DEF IInv

LEMMA FillLeaseKeeps ==
  ASSUME IInv, FillLease
  PROVE  IInv'
<1>0. TypeOK /\ Works /\ Markers /\ Published /\ Synced /\ Kept /\ Apart
  BY DEF IInv
<1>p. token \in Token
  BY <1>0 DEF TypeOK, Works, Owned, FillLease, At
<1>1. /\ pc = "fill" /\ todo = {}
      /\ pc' = "keep" /\ todo' = {"cand", "lease"}
      /\ held' = held /\ owner' = owner
      /\ job' = job /\ token' = token
      /\ live' = live /\ fails' = fails
      /\ kills' = kills /\ token \in Token
  BY <1>p DEF FillLease, At, Goto, Unsynced, fileVars, budget
<1>2. Quiet
  BY <1>0, <1>1, FillStep
<1>3. TypeOK'
  BY <1>0, <1>1, <1>2 DEF TypeOK, Label, Owned, Quiet, FilesTyped
<1>4. Works'
  BY <1>0, <1>1, <1>2 DEF Works, TypeOK, Owned, Committing
<1>5. Markers'
  BY <1>0, <1>1, <1>2 DEF Markers, TypeOK, Works, Committing, Quiet, FilesTyped
<1>6. Published'
  BY <1>0, <1>1, <1>2 DEF Published, Works, TypeOK, Committing, Owned, Quiet, FilesTyped
<1>7. Synced'
  BY <1>0, <1>1, <1>2 DEF Synced, Calm, TypeOK, Quiet, FilesTyped
<1>8. Kept'
  <2>1. ordered \/ Calm => \A r \in disk : Whole(r)
    BY <1>0 DEF Kept
  <2>2. ordered' \/ Calm' => ordered \/ Calm
    BY <1>0, <1>1, <1>2 DEF Calm, TypeOK, Quiet, FilesTyped
  <2>3. ordered \/ Calm => \A x \in disk' : Whole(x)
    BY <1>2, <2>1, QuietWhole
  <2>4. QED
    BY <1>0, <1>1, <1>2, <2>2, <2>3 DEF Kept, Spared, TypeOK, Works, Quiet, FilesTyped
<1>9. Apart'
  BY <1>0, <1>1, <1>2 DEF Apart, Works, TypeOK, Owned, Quiet, FilesTyped
<1>10. QED
  BY <1>3, <1>4, <1>5, <1>6, <1>7, <1>8, <1>9 DEF IInv

LEMMA CommitKeeps ==
  ASSUME IInv, NEW p \in Proc, Commit(p)
  PROVE  IInv'
<1>0. TypeOK /\ Works /\ Markers /\ Published /\ Synced /\ Kept /\ Apart
  BY DEF IInv
<1>p. PICK i \in Id : /\ Take(p, "commit", i)
                       /\ \/ Goto("discard", {})
                          \/ Goto(IF store.gen[i] = "none" THEN "revoke" ELSE "reuse", {})
  BY DEF Commit
<1>1. /\ owner = None /\ held[p] # None /\ store.cand[held[p]]
      /\ owner' = p /\ pc' \in {"discard", "revoke", "reuse"} /\ todo' = {}
      /\ pc' = "revoke" => store.gen[i] = "none"
      /\ pc' = "reuse" => store.gen[i] # "none"
      /\ job' = [kind |-> "commit", id |-> i, ok |-> FALSE] /\ store' = store
      /\ disk' = disk /\ ordered' = ordered
      /\ held' = held /\ token' = held[p]
      /\ live' = live /\ fails' = fails
      /\ kills' = kills
  BY <1>p DEF Commit, At, Goto, Unsynced, fileVars, budget, Take, ValidLease
<1>j. job' \in Job /\ ~ job'.ok /\ job'.id = i
  BY <1>0, <1>1 DEF Job, TypeOK
<1>3. TypeOK'
  BY <1>0, <1>1, <1>j DEF TypeOK, Label, Owned
<1>4. Works'
  BY <1>0, <1>1, <1>j, NamesAssumption DEF Works, TypeOK, Owned, Committing
<1>5. Markers'
  BY <1>0, <1>1 DEF Markers, TypeOK, Works, Committing
<1>6. Published'
  BY <1>0, <1>1, <1>j DEF Published, Works, Committing, Owned
<1>7. Synced'
  BY <1>0, <1>1 DEF Synced, Calm, Works
<1>8. Kept'
  <2>1. ordered \/ Calm => \A r \in disk : Whole(r)
    BY <1>0 DEF Kept
  <2>2. ordered' \/ Calm' => ordered \/ Calm
    BY <1>0, <1>1 DEF Calm, TypeOK
  <2>3. ordered \/ Calm => \A x \in disk' : Whole(x)
    BY <1>1, <2>1
  <2>4. QED
    BY <1>0, <1>1, <2>2, <2>3 DEF Kept, Spared, TypeOK, Works
<1>9. Apart'
  BY <1>0, <1>1 DEF Apart, Works, TypeOK, Owned
<1>10. QED
  BY <1>3, <1>4, <1>5, <1>6, <1>7, <1>8, <1>9 DEF IInv

LEMMA AbortKeeps ==
  ASSUME IInv, NEW p \in Proc, Abort(p)
  PROVE  IInv'
<1>0. TypeOK /\ Works /\ Markers /\ Published /\ Synced /\ Kept /\ Apart
  BY DEF IInv
<1>1. /\ owner = None /\ held[p] # None /\ owner' = p
      /\ pc' = "discard" /\ todo' = {}
      /\ job' = [kind |-> "abort", id |-> None, ok |-> FALSE] /\ store' = store
      /\ disk' = disk /\ ordered' = ordered
      /\ held' = held /\ token' = held[p]
      /\ live' = live /\ fails' = fails
      /\ kills' = kills
  BY DEF Abort, At, Goto, Unsynced, fileVars, budget, Take, ValidLease
<1>j. job' \in Job /\ ~ job'.ok
  BY <1>0, <1>1 DEF Job, TypeOK
<1>3. TypeOK'
  BY <1>0, <1>1, <1>j DEF TypeOK, Label, Owned
<1>4. Works'
  BY <1>0, <1>1, <1>j, NamesAssumption DEF Works, TypeOK, Owned, Committing
<1>5. Markers'
  BY <1>0, <1>1 DEF Markers, TypeOK, Works, Committing
<1>6. Published'
  BY <1>0, <1>1, <1>j DEF Published, Works, Committing, Owned
<1>7. Synced'
  BY <1>0, <1>1 DEF Synced, Calm, Works
<1>8. Kept'
  <2>1. ordered \/ Calm => \A r \in disk : Whole(r)
    BY <1>0 DEF Kept
  <2>2. ordered' \/ Calm' => ordered \/ Calm
    BY <1>0, <1>1 DEF Calm, TypeOK
  <2>3. ordered \/ Calm => \A x \in disk' : Whole(x)
    BY <1>1, <2>1
  <2>4. QED
    BY <1>0, <1>1, <2>2, <2>3 DEF Kept, Spared, TypeOK, Works
<1>9. Apart'
  BY <1>0, <1>1 DEF Apart, Works, TypeOK, Owned
<1>10. QED
  BY <1>3, <1>4, <1>5, <1>6, <1>7, <1>8, <1>9 DEF IInv

LEMMA MarkedKeeps ==
  ASSUME IInv, Marked
  PROVE  IInv'
<1>0. TypeOK /\ Works /\ Markers /\ Published /\ Synced /\ Kept /\ Apart
  BY DEF IInv
<1>1. /\ pc = "marked" /\ todo = {}
      /\ pc' \in {"discard", "unlease"} /\ todo' = {}
      /\ job' = [job EXCEPT !.ok = TRUE] /\ store' = store
      /\ disk' = disk /\ ordered' = ordered
      /\ held' = held /\ owner' = owner
      /\ token' = token /\ live' = live
      /\ fails' = fails /\ kills' = kills
  BY DEF Marked, At, Goto, Unsynced, fileVars, budget
<1>3. TypeOK'
  BY <1>0, <1>1 DEF TypeOK, Label, Owned, Job
<1>4. Works'
  BY <1>0, <1>1 DEF Works, TypeOK, Owned, Committing
<1>5. Markers'
  BY <1>0, <1>1 DEF Markers, TypeOK, Works, Committing
<1>6. Published'
  BY <1>0, <1>1 DEF Published, Works, TypeOK, Committing, Owned
<1>7. Synced'
  BY <1>0, <1>1 DEF Synced, Calm, TypeOK
<1>8. Kept'
  <2>1. ordered \/ Calm => \A r \in disk : Whole(r)
    BY <1>0 DEF Kept
  <2>2. ordered' \/ Calm' => ordered \/ Calm
    BY <1>0, <1>1 DEF Calm, TypeOK
  <2>3. ordered \/ Calm => \A x \in disk' : Whole(x)
    BY <1>1, <2>1
  <2>4. QED
    BY <1>0, <1>1, <2>2, <2>3 DEF Kept, Spared, TypeOK, Works
<1>9. Apart'
  BY <1>0, <1>1 DEF Apart, Works, TypeOK, Owned
<1>10. QED
  BY <1>3, <1>4, <1>5, <1>6, <1>7, <1>8, <1>9 DEF IInv

LEMMA ReconcileKeeps ==
  ASSUME IInv, NEW p \in Proc, Reconcile(p)
  PROVE  IInv'
<1>0. TypeOK /\ Works /\ Markers /\ Published /\ Synced /\ Kept /\ Apart
  BY DEF IInv
<1>1. /\ owner = None /\ owner' = p
      /\ pc' = "sweep" /\ todo' = {}
      /\ \E k \in {"reconcile", "admit"} :
            job' = [kind |-> k, id |-> None, ok |-> FALSE]
      /\ store' = store /\ disk' = disk
      /\ ordered' = ordered /\ held' = held
      /\ token' = token /\ fails' = fails
      /\ kills' = kills
      /\ live' = {t \in Token : Live(t) /\ store.lease[t] # "none"}
  BY DEF Reconcile, At, Goto, Unsynced, fileVars, budget, Take
<1>j. job' \in Job /\ ~ job'.ok
  BY <1>0, <1>1 DEF Job, TypeOK
<1>3. TypeOK'
  BY <1>0, <1>1, <1>j DEF TypeOK, Label, Owned
<1>4. Works'
  BY <1>0, <1>1, <1>j, NamesAssumption DEF Works, TypeOK, Owned, Committing
<1>5. Markers'
  BY <1>0, <1>1 DEF Markers, TypeOK, Works, Committing
<1>6. Published'
  BY <1>0, <1>1, <1>j DEF Published, Works, Committing, Owned
<1>7. Synced'
  BY <1>0, <1>1 DEF Synced, Calm, Works
<1>8. Kept'
  <2>1. ordered \/ Calm => \A r \in disk : Whole(r)
    BY <1>0 DEF Kept
  <2>2. ordered' \/ Calm' => ordered \/ Calm
    BY <1>0, <1>1 DEF Calm, TypeOK
  <2>3. ordered \/ Calm => \A x \in disk' : Whole(x)
    BY <1>1, <2>1
  <2>4. QED
    BY <1>0, <1>1, <2>2, <2>3 DEF Kept, Spared, TypeOK, Works
<1>9. Apart'
  BY <1>0, <1>1 DEF Apart, Live, Owned, TypeOK
<1>10. QED
  BY <1>3, <1>4, <1>5, <1>6, <1>7, <1>8, <1>9 DEF IInv

LEMMA NoUniqueNameKeeps ==
  ASSUME IInv, NoUniqueName
  PROVE  IInv'
<1>0. TypeOK /\ Works /\ Apart
  BY DEF IInv
<1>1. Idle /\ todo = {} /\ store' = store /\ disk' = disk /\ ordered' = ordered
  BY DEF NoUniqueName, Stop, At, Goto, Unsynced, fileVars, budget
<1>2. fails' = fails /\ kills' = kills /\ (Calm' => Calm)
  BY <1>1 DEF NoUniqueName, Stop, budget, Calm, Goto
<1>3. held' \in [Proc -> Token \union {None}]
  BY <1>0 DEF NoUniqueName, TypeOK, Stop
<1>4. \A p, q \in Proc : held'[p] = held'[q] /\ held'[p] # None => p = q
  BY <1>0 DEF NoUniqueName, TypeOK, Apart, Works, Owned, Stop, At
<1>5. QED
  BY <1>0, <1>1, <1>2, <1>3, <1>4, IdleKeeps DEF TypeOK

LEMMA KeepLeaseKeeps ==
  ASSUME IInv, KeepLease
  PROVE  IInv'
<1>0. TypeOK /\ Works /\ Apart
  BY DEF IInv
<1>1. Idle /\ todo = {} /\ store' = store /\ disk' = disk /\ ordered' = ordered
  BY DEF KeepLease, Stop, At, Goto, Unsynced, fileVars, budget
<1>2. fails' = fails /\ kills' = kills /\ (Calm' => Calm)
  BY <1>1 DEF KeepLease, Stop, budget, Calm, Goto
<1>3. held' \in [Proc -> Token \union {None}]
  BY <1>0 DEF KeepLease, TypeOK, Stop
<1>4. \A p, q \in Proc : held'[p] = held'[q] /\ held'[p] # None => p = q
  BY <1>0 DEF KeepLease, TypeOK, Apart, Works, Owned, Stop, At
<1>5. QED
  BY <1>0, <1>1, <1>2, <1>3, <1>4, IdleKeeps DEF TypeOK

LEMMA ReturnKeeps ==
  ASSUME IInv, Return
  PROVE  IInv'
<1>0. TypeOK /\ Works /\ Apart
  BY DEF IInv
<1>1. Idle /\ todo = {} /\ store' = store /\ disk' = disk /\ ordered' = ordered
  BY DEF Return, Stop, At, Goto, Unsynced, fileVars, budget
<1>2. fails' = fails /\ kills' = kills /\ (Calm' => Calm)
  BY <1>1 DEF Return, Stop, budget, Calm, Goto
<1>3. held' \in [Proc -> Token \union {None}]
  BY <1>0 DEF Return, TypeOK, Stop
<1>4. \A p, q \in Proc : held'[p] = held'[q] /\ held'[p] # None => p = q
  BY <1>0 DEF Return, TypeOK, Apart, Works, Owned, Stop, At
<1>5. QED
  BY <1>0, <1>1, <1>2, <1>3, <1>4, IdleKeeps DEF TypeOK

LEMMA ReconcileRefusesKeeps ==
  ASSUME IInv, ReconcileRefuses
  PROVE  IInv'
<1>0. TypeOK /\ Works /\ Apart
  BY DEF IInv
<1>1. Idle /\ todo = {} /\ store' = store /\ disk' = disk /\ ordered' = ordered
  BY DEF ReconcileRefuses, Stop, At, Goto, Unsynced, fileVars, budget, Swept
<1>2. fails' = fails /\ kills' = kills /\ (Calm' => Calm)
  BY <1>1 DEF ReconcileRefuses, Stop, budget, Calm, Goto, Swept
<1>3. held' \in [Proc -> Token \union {None}]
  BY <1>0 DEF ReconcileRefuses, TypeOK, Stop, Swept
<1>4. \A p, q \in Proc : held'[p] = held'[q] /\ held'[p] # None => p = q
  BY <1>0 DEF ReconcileRefuses, TypeOK, Apart, Works, Owned, Stop, At, Swept
<1>5. QED
  BY <1>0, <1>1, <1>2, <1>3, <1>4, IdleKeeps DEF TypeOK

LEMMA RemoveAbandonedKeeps ==
  ASSUME IInv, RemoveAbandoned
  PROVE  IInv'
<1>0. TypeOK /\ Works /\ Markers /\ Published /\ Synced /\ Kept /\ Apart
  BY DEF IInv
<1>p. PICK t \in Token : Put("cand", t, FALSE) /\ token' \in {None, t}
  BY DEF RemoveAbandoned, Abandoned
<1>1. /\ pc = "sweep" /\ todo = {}
      /\ pc' = "sweep" /\ todo' = {"cand"}
      /\ token' \in {None, t} /\ Put("cand", t, FALSE)
      /\ held' = held /\ owner' = owner
      /\ job' = job /\ live' = live
      /\ fails' = fails /\ kills' = kills
  BY <1>p DEF RemoveAbandoned, At, Goto, Unsynced, fileVars, budget
<1>2. Quiet /\ store'.lease = store.lease
  BY <1>0, <1>1, CandStep
<1>3. TypeOK'
  BY <1>0, <1>1, <1>2 DEF TypeOK, Label, Owned, Quiet, FilesTyped
<1>4. Works'
  BY <1>0, <1>1, <1>2 DEF Works, TypeOK, Owned, Committing
<1>5. Markers'
  BY <1>0, <1>1, <1>2 DEF Markers, TypeOK, Works, Committing, Quiet, FilesTyped
<1>6. Published'
  BY <1>0, <1>1, <1>2 DEF Published, Works, TypeOK, Committing, Owned, Quiet, FilesTyped
<1>7. Synced'
  BY <1>0, <1>1, <1>2 DEF Synced, Calm, TypeOK, Quiet, FilesTyped
<1>8. Kept'
  <2>1. ordered \/ Calm => \A r \in disk : Whole(r)
    BY <1>0 DEF Kept
  <2>2. ordered' \/ Calm' => ordered \/ Calm
    BY <1>0, <1>1, <1>2 DEF Calm, TypeOK, Quiet, FilesTyped
  <2>3. ordered \/ Calm => \A x \in disk' : Whole(x)
    BY <1>2, <2>1, QuietWhole
  <2>4. QED
    BY <1>0, <1>1, <1>2, <2>2, <2>3 DEF Kept, Spared, TypeOK, Works, Quiet, FilesTyped
<1>9. Apart'
  BY <1>0, <1>1, <1>2 DEF Apart, Works, TypeOK, Owned, Quiet, FilesTyped
<1>10. QED
  BY <1>3, <1>4, <1>5, <1>6, <1>7, <1>8, <1>9 DEF IInv

LEMMA RemoveOrphanKeeps ==
  ASSUME IInv, RemoveOrphan
  PROVE  IInv'
<1>0. TypeOK /\ Works /\ Markers /\ Published /\ Synced /\ Kept /\ Apart
  BY DEF IInv
<1>p. PICK t \in Token : Put("lease", t, "none")
  BY DEF RemoveOrphan, Orphans
<1>1. /\ pc = "sweep" /\ todo = {}
      /\ pc' = "sweep" /\ todo' = {"lease"}
      /\ token' = None /\ Put("lease", t, "none")
      /\ held' = held /\ owner' = owner
      /\ job' = job /\ live' = live
      /\ fails' = fails /\ kills' = kills
  BY <1>p DEF RemoveOrphan, At, Goto, Unsynced, fileVars, budget
<1>2. Quiet /\ store'.lease = [store.lease EXCEPT ![t] = "none"]
  BY <1>0, <1>1, LeaseStep
<1>3. TypeOK'
  BY <1>0, <1>1, <1>2 DEF TypeOK, Label, Owned, Quiet, FilesTyped
<1>4. Works'
  BY <1>0, <1>1, <1>2 DEF Works, TypeOK, Owned, Committing
<1>5. Markers'
  BY <1>0, <1>1, <1>2 DEF Markers, TypeOK, Works, Committing, Quiet, FilesTyped
<1>6. Published'
  BY <1>0, <1>1, <1>2 DEF Published, Works, TypeOK, Committing, Owned, Quiet, FilesTyped
<1>7. Synced'
  BY <1>0, <1>1, <1>2 DEF Synced, Calm, TypeOK, Quiet, FilesTyped
<1>8. Kept'
  <2>1. ordered \/ Calm => \A r \in disk : Whole(r)
    BY <1>0 DEF Kept
  <2>2. ordered' \/ Calm' => ordered \/ Calm
    BY <1>0, <1>1, <1>2 DEF Calm, TypeOK, Quiet, FilesTyped
  <2>3. ordered \/ Calm => \A x \in disk' : Whole(x)
    BY <1>2, <2>1, QuietWhole
  <2>4. QED
    BY <1>0, <1>1, <1>2, <2>2, <2>3 DEF Kept, Spared, TypeOK, Works, Quiet, FilesTyped
<1>9. Apart'
  BY <1>0, <1>1, <1>2, NamesAssumption DEF Apart, Works, TypeOK, Owned, Store
<1>10. QED
  BY <1>3, <1>4, <1>5, <1>6, <1>7, <1>8, <1>9 DEF IInv

LEMMA RemoveStaleKeeps ==
  ASSUME IInv, RemoveStale
  PROVE  IInv'
<1>0. TypeOK /\ Works /\ Markers /\ Published /\ Synced /\ Kept /\ Apart
  BY DEF IInv
<1>p. PICK i \in Id : store.gen[i] = "none" /\ Put("mark", i, FALSE)
  BY DEF RemoveStale, Stale, Generations
<1>1. /\ pc = "sweep" /\ todo = {}
      /\ pc' = "sweep" /\ todo' = {"mark"}
      /\ Put("mark", i, FALSE) /\ held' = held
      /\ owner' = owner /\ job' = job
      /\ token' = token /\ live' = live
      /\ fails' = fails /\ kills' = kills
  BY <1>p DEF RemoveStale, At, Goto, Unsynced, fileVars, budget, Swept
<1>2. Marking(i, FALSE)
  BY <1>0, <1>1, MarkStep
<1>3. TypeOK'
  BY <1>0, <1>1, <1>2 DEF TypeOK, Label, Owned, Marking, FilesTyped
<1>4. Works'
  BY <1>0, <1>1, <1>2 DEF Works, TypeOK, Owned, Committing
<1>5. Markers'
  <2>1. \A x \in disk' : \A j \in Id : x.mark[j] => x.gen[j] # "new"
    BY <1>0, <1>1, <1>2, MarkingTrue DEF Markers, Works, Committing
  <2>2. QED
    BY <1>0, <1>1, <1>2, <2>1 DEF Markers, Works, Committing, TypeOK, Store, Marking, FilesTyped
<1>6. Published'
  BY <1>0, <1>1, <1>2 DEF Published, Works, TypeOK, Committing, Owned, Store, Marking, FilesTyped
<1>7. Synced'
  BY <1>0, <1>1, <1>2 DEF Synced, Calm, TypeOK, Marking, FilesTyped
<1>8. Kept'
  <2>1. ordered \/ Calm => \A r \in disk : Whole(r)
    BY <1>0 DEF Kept
  <2>2. ordered' \/ Calm' => ordered \/ Calm
    BY <1>0, <1>1, <1>2 DEF Calm, TypeOK, Marking, FilesTyped
  <2>s. ordered \/ ~ Calm \/ \A r \in disk : r.state = store.state
    BY <1>0, <1>1 DEF Synced
  <2>p. ordered \/ Calm => i \notin Protected(store.state)
    BY <1>0, <1>p, <2>1 DEF Whole, TypeOK
  <2>3. ordered \/ Calm => \A x \in disk' : Whole(x)
    BY <1>0, <1>1, <1>2, <2>1, <2>s, <2>p, MarkingWhole DEF Works, Committing
  <2>4. QED
    BY <1>0, <1>1, <1>2, <2>2, <2>3, <2>p DEF Kept, Spared, TypeOK, Works, Marking, FilesTyped
<1>9. Apart'
  BY <1>0, <1>1, <1>2 DEF Apart, Works, TypeOK, Owned, Marking, FilesTyped
<1>10. QED
  BY <1>3, <1>4, <1>5, <1>6, <1>7, <1>8, <1>9 DEF IInv

LEMMA RemoveUnmarkedKeeps ==
  ASSUME IInv, RemoveUnmarked
  PROVE  IInv'
<1>0. TypeOK /\ Works /\ Markers /\ Published /\ Synced /\ Kept /\ Apart
  BY DEF IInv
<1>p. PICK i \in Id : ~ store.mark[i] /\ Put("gen", i, "none")
  BY DEF RemoveUnmarked, Unmarked, Generations
<1>1. /\ pc = "sweep" /\ todo = {}
      /\ pc' = "sweep" /\ todo' = {"gen"}
      /\ Put("gen", i, "none") /\ held' = held
      /\ owner' = owner /\ job' = job
      /\ token' = token /\ live' = live
      /\ fails' = fails /\ kills' = kills
  BY <1>p DEF RemoveUnmarked, At, Goto, Unsynced, fileVars, budget, Swept
<1>2. Removing(i)
  BY <1>0, <1>1, RemoveStep
<1>3. TypeOK'
  BY <1>0, <1>1, <1>2 DEF TypeOK, Label, Owned, Removing, FilesTyped
<1>4. Works'
  BY <1>0, <1>1, <1>2 DEF Works, TypeOK, Owned, Committing
<1>5. Markers'
  <2>1. \A x \in disk' : \A j \in Id : x.mark[j] => x.gen[j] # "new"
    BY <1>0, <1>1, <1>2, RemovingTrue DEF Markers, Works, Committing
  <2>2. QED
    BY <1>0, <1>1, <1>2, <2>1 DEF Markers, Works, Committing, TypeOK, Store, Removing, FilesTyped
<1>6. Published'
  BY <1>0, <1>1, <1>2 DEF Published, Works, TypeOK, Committing, Owned, Store, Removing, FilesTyped
<1>7. Synced'
  BY <1>0, <1>1, <1>2 DEF Synced, Calm, TypeOK, Removing, FilesTyped
<1>8. Kept'
  <2>1. ordered \/ Calm => \A r \in disk : Whole(r)
    BY <1>0 DEF Kept
  <2>2. ordered' \/ Calm' => ordered \/ Calm
    BY <1>0, <1>1, <1>2 DEF Calm, TypeOK, Removing, FilesTyped
  <2>s. ordered \/ ~ Calm \/ \A r \in disk : r.state = store.state
    BY <1>0, <1>1 DEF Synced
  <2>p. ordered \/ Calm => i \notin Protected(store.state)
    BY <1>0, <1>p, <2>1 DEF Whole, TypeOK
  <2>3. ordered \/ Calm => \A x \in disk' : Whole(x)
    BY <1>0, <1>1, <1>2, <2>1, <2>s, <2>p, RemovingWhole DEF Works, Committing
  <2>4. QED
    BY <1>0, <1>1, <1>2, <2>2, <2>3, <2>p DEF Kept, Spared, TypeOK, Works, Removing, FilesTyped
<1>9. Apart'
  BY <1>0, <1>1, <1>2 DEF Apart, Works, TypeOK, Owned, Removing, FilesTyped
<1>10. QED
  BY <1>3, <1>4, <1>5, <1>6, <1>7, <1>8, <1>9 DEF IInv

LEMMA ExpireKeeps ==
  ASSUME IInv, Expire
  PROVE  IInv'
<1>0. TypeOK /\ Works /\ Markers /\ Published /\ Synced /\ Kept /\ Apart
  BY DEF IInv
<1>p. PICK i \in Id : /\ i \notin Protected(store.state) /\ Put("mark", i, FALSE)
                       /\ job' = [job EXCEPT !.id = i]
  BY DEF Expire, Unprotected, Generations
<1>1. /\ pc = "sweep" /\ todo = {}
      /\ pc' = "prune" /\ todo' = {"mark"}
      /\ Put("mark", i, FALSE) /\ job' = [job EXCEPT !.id = i]
      /\ held' = held /\ owner' = owner
      /\ token' = token /\ live' = live
      /\ fails' = fails /\ kills' = kills
  BY <1>p DEF Expire, At, Goto, Unsynced, fileVars, budget, Swept, Sound
<1>2. Marking(i, FALSE)
  BY <1>0, <1>1, MarkStep
<1>3. TypeOK'
  BY <1>0, <1>1, <1>2 DEF TypeOK, Label, Owned, Job, Marking, FilesTyped
<1>4. Works'
  BY <1>0, <1>1, <1>2 DEF Works, TypeOK, Owned, Committing
<1>5. Markers'
  <2>1. \A x \in disk' : \A j \in Id : x.mark[j] => x.gen[j] # "new"
    BY <1>0, <1>1, <1>2, MarkingTrue DEF Markers, Works, Committing
  <2>2. QED
    BY <1>0, <1>1, <1>2, <2>1 DEF Markers, Works, Committing, TypeOK, Store, Marking, FilesTyped
<1>6. Published'
  BY <1>0, <1>1, <1>2 DEF Published, Works, TypeOK, Committing, Owned, Store, Marking, FilesTyped
<1>7. Synced'
  BY <1>0, <1>1, <1>2 DEF Synced, Calm, TypeOK, Marking, FilesTyped
<1>8. Kept'
  <2>1. ordered \/ Calm => \A r \in disk : Whole(r)
    BY <1>0 DEF Kept
  <2>2. ordered' \/ Calm' => ordered \/ Calm
    BY <1>0, <1>1, <1>2 DEF Calm, TypeOK, Marking, FilesTyped
  <2>s. ordered \/ ~ Calm \/ \A r \in disk : r.state = store.state
    BY <1>0, <1>1 DEF Synced
  <2>p. ordered \/ Calm => i \notin Protected(store.state)
    BY <1>p
  <2>3. ordered \/ Calm => \A x \in disk' : Whole(x)
    BY <1>0, <1>1, <1>2, <2>1, <2>s, <2>p, MarkingWhole DEF Works, Committing
  <2>4. QED
    BY <1>0, <1>1, <1>2, <2>2, <2>3, <2>p DEF Kept, Spared, TypeOK, Works, Marking, FilesTyped
<1>9. Apart'
  BY <1>0, <1>1, <1>2 DEF Apart, Works, TypeOK, Owned, Marking, FilesTyped
<1>10. QED
  BY <1>3, <1>4, <1>5, <1>6, <1>7, <1>8, <1>9 DEF IInv

LEMMA SyncDirectoriesKeeps ==
  ASSUME IInv, SyncDirectories
  PROVE  IInv'
<1>0. TypeOK /\ Works /\ Markers /\ Published /\ Synced /\ Kept /\ Apart
  BY DEF IInv
<1>1. /\ todo # {} /\ todo' = {} /\ pc' = pc
      /\ store' = store /\ ordered' = ordered
      /\ Sync(todo) /\ held' = held
      /\ owner' = owner /\ job' = job
      /\ token' = token /\ live' = live
      /\ fails' = fails /\ kills' = kills
  BY DEF SyncDirectories, At, Goto, Unsynced, fileVars, budget
<1>2. /\ Quiet /\ store' = store
      /\ ordered => disk' = {store}
      /\ \A r \in disk' : /\ "gen" \in todo => r.gen = store.gen
                          /\ "mark" \in todo => r.mark = store.mark
                          /\ "state" \in todo => r.state = store.state
  BY <1>0, <1>1, SyncStep
<1>3. TypeOK'
  BY <1>0, <1>1, <1>2 DEF TypeOK, Label, Owned, Quiet, FilesTyped
<1>4. Works'
  BY <1>0, <1>1, <1>2 DEF Works, TypeOK, Owned, Committing
<1>5. Markers'
  <2>1. \A x \in disk' : \A j \in Id : x.mark[j] => x.gen[j] # "new"
    BY <1>0, <1>2 DEF Markers, Quiet
  <2>2. pc' = "rename" => \A r \in disk' : ~ r.mark[job.id]
    <3> SUFFICES ASSUME pc = "rename", NEW x \in disk' PROVE ~ x.mark[job.id]
      BY <1>1
    <3>1. CASE "mark" \in todo
      BY <1>0, <1>2, <3>1 DEF Markers
    <3>2. CASE "mark" \notin todo
      <4>1. PICK r \in disk : x.mark = r.mark
        BY <1>2 DEF Quiet
      <4>2. QED
        BY <1>0, <3>2, <4>1 DEF Markers
    <3>3. QED
      BY <3>1, <3>2
  <2>3. pc' = "mark" => \A r \in disk' : r.gen[job.id] # "new"
    BY <1>0, <1>1, <1>2 DEF Markers, Quiet
  <2>4. QED
    BY <1>0, <1>1, <1>2, <2>1, <2>2, <2>3 DEF Markers
<1>6. Published'
  BY <1>0, <1>1, <1>2 DEF Published, Works, TypeOK, Committing, Owned, Quiet, FilesTyped
<1>7. Synced'
  <2>1. ASSUME Calm', NEW x \in disk'
        PROVE  x.gen = store.gen /\ x.mark = store.mark /\ x.state = store.state
    <3>1. Calm
      BY <1>1, <2>1 DEF Calm
    <3>2. PICK r \in disk : x.gen = r.gen /\ x.mark = r.mark /\ x.state = r.state
      BY <1>2, <2>1 DEF Quiet
    <3>3. QED
      BY <1>0, <1>2, <2>1, <3>1, <3>2 DEF Synced
  <2>2. QED
    BY <1>1, <1>2, <2>1 DEF Synced
<1>8. Kept'
  <2>1. ordered \/ Calm => \A r \in disk : Whole(r)
    BY <1>0 DEF Kept
  <2>2. ordered' \/ Calm' => ordered \/ Calm
    BY <1>0, <1>1, <1>2 DEF Calm, TypeOK, Quiet, FilesTyped
  <2>3. ordered \/ Calm => \A x \in disk' : Whole(x)
    BY <1>2, <2>1, QuietWhole
  <2>4. QED
    BY <1>0, <1>1, <1>2, <2>2, <2>3 DEF Kept, Spared, TypeOK, Works, Quiet, FilesTyped
<1>9. Apart'
  BY <1>0, <1>1, <1>2 DEF Apart, Works, TypeOK, Owned, Quiet, FilesTyped
<1>10. QED
  BY <1>3, <1>4, <1>5, <1>6, <1>7, <1>8, <1>9 DEF IInv

LEMMA RenameKeeps ==
  ASSUME IInv, Rename
  PROVE  IInv'
<1>0. TypeOK /\ Works /\ Markers /\ Published /\ Synced /\ Kept /\ Apart
  BY DEF IInv
<1>p. token \in Token /\ job.id \in Id
  BY <1>0 DEF TypeOK, Works, Owned, Committing, Rename, At
<1>1. /\ pc = "rename" /\ todo = {}
      /\ pc' = "verify" /\ todo' = {"gen", "cand"}
      /\ held' = held /\ owner' = owner
      /\ job' = job /\ token' = token
      /\ live' = live /\ fails' = fails
      /\ kills' = kills
  BY <1>p DEF Rename, At, Goto, Unsynced, fileVars, budget
<1>2. /\ FilesTyped
      /\ store'.cand = [store.cand EXCEPT ![token] = FALSE]
      /\ store'.gen = [store.gen EXCEPT ![job.id] = "new"]
      /\ store'.lease = store.lease /\ store'.mark = store.mark
      /\ store'.state = store.state
      /\ \A x \in disk' : \E r \in disk :
           /\ x.mark = r.mark /\ x.state = r.state
           /\ \/ x.gen = r.gen
              \/ x.gen = [r.gen EXCEPT ![job.id] = "new"] /\ (ordered => r = store)
  BY <1>0, <1>1, <1>p, RenameStep
<1>3. TypeOK'
  BY <1>0, <1>1, <1>2 DEF TypeOK, Label, Owned, FilesTyped
<1>4. Works'
  BY <1>0, <1>1, <1>2 DEF Works, TypeOK, Owned, Committing
<1>5. Markers'
  <2>1. ASSUME NEW x \in disk', NEW j \in Id, x.mark[j]
        PROVE  x.gen[j] # "new"
    <3>1. PICK r \in disk :
            /\ x.mark = r.mark
            /\ \/ x.gen = r.gen
               \/ x.gen = [r.gen EXCEPT ![job.id] = "new"] /\ (ordered => r = store)
      BY <1>2, <2>1
    <3>2. ~ r.mark[job.id] \/ x.gen = r.gen
      BY <1>0, <1>1, <3>1 DEF Markers
    <3>3. r.gen \in [Id -> {"none", "new", "verified"}]
      BY <1>0 DEF TypeOK, Store
    <3>4. QED
      BY <1>0, <2>1, <3>1, <3>2, <3>3 DEF Markers
  <2>2. QED
    BY <1>1, <2>1 DEF Markers
<1>6. Published'
  BY <1>0, <1>1, <1>2 DEF Published, Works, TypeOK, Committing, Owned, Store, FilesTyped
<1>7. Synced'
  BY <1>0, <1>1, <1>2 DEF Synced, Calm, TypeOK, FilesTyped
<1>8. Kept'
  <2>1. ordered \/ Calm => /\ \A r \in disk : Whole(r)
                           /\ job.id \notin Protected(store.state)
    BY <1>0, <1>1 DEF Kept, Spared
  <2>2. ordered' \/ Calm' => ordered \/ Calm
    BY <1>0, <1>1, <1>2 DEF Calm, TypeOK, FilesTyped
  <2>3. ASSUME ordered \/ Calm, NEW x \in disk' PROVE Whole(x)
    <3>1. PICK r \in disk :
            /\ x.mark = r.mark /\ x.state = r.state
            /\ \/ x.gen = r.gen
               \/ x.gen = [r.gen EXCEPT ![job.id] = "new"]
      BY <1>2, <2>3
    <3>2. r.gen \in [Id -> {"none", "new", "verified"}] /\ r.state \in State
      BY <1>0 DEF TypeOK, Store
    <3>3. Protected(r.state) \subseteq Id
      BY <3>2 DEF Protected, State
    <3>4. QED
      BY <2>1, <2>3, <3>1, <3>2, <3>3 DEF Whole
  <2>4. store.cand \in [Token -> BOOLEAN]
    BY <1>0 DEF TypeOK, Store
  <2>5. QED
    BY <1>1, <1>2, <1>p, <2>1, <2>2, <2>3, <2>4 DEF Kept, Spared
<1>9. Apart'
  BY <1>0, <1>1, <1>2 DEF Apart, Works, TypeOK, Owned, FilesTyped
<1>10. QED
  BY <1>3, <1>4, <1>5, <1>6, <1>7, <1>8, <1>9 DEF IInv

LEMMA VerifyPublishedKeeps ==
  ASSUME IInv, VerifyPublished
  PROVE  IInv'
<1>0. TypeOK /\ Works /\ Markers /\ Published /\ Synced /\ Kept /\ Apart
  BY DEF IInv
<1>p. job.id \in Id
  BY <1>0 DEF Works, Committing, VerifyPublished, At
<1>1. /\ pc = "verify" /\ todo = {}
      /\ pc' \in {"mark", "unpublish"} /\ todo' = {}
      /\ store' = Verified(store) /\ ordered' = ordered
      /\ disk' = {Verified(r) : r \in disk} /\ held' = held
      /\ owner' = owner /\ job' = job
      /\ token' = token /\ live' = live
      /\ fails' = fails /\ kills' = kills
  BY <1>p DEF VerifyPublished, At, Goto, Unsynced, fileVars, budget
<1>2. /\ FilesTyped
      /\ store'.cand = store.cand /\ store'.lease = store.lease
      /\ store'.mark = store.mark /\ store'.state = store.state
      /\ \A i \in Id : store'.gen[i] = "none" <=> store.gen[i] = "none"
      /\ \A x \in disk' : \E r \in disk :
           /\ x.mark = r.mark /\ x.state = r.state
           /\ x.gen[job.id] # "new"
           /\ r.gen = store.gen => x.gen = store'.gen
           /\ \A i \in Id : /\ x.gen[i] = "new" => r.gen[i] = "new"
                            /\ x.gen[i] = "none" <=> r.gen[i] = "none"
  BY <1>0, <1>1, <1>p, VerifiedStep
<1>3. TypeOK'
  BY <1>0, <1>1, <1>2 DEF TypeOK, Label, Owned, FilesTyped
<1>4. Works'
  BY <1>0, <1>1, <1>2 DEF Works, TypeOK, Owned, Committing
<1>5. Markers'
  <2>1. \A x \in disk' : \A j \in Id : x.mark[j] => x.gen[j] # "new"
    BY <1>0, <1>2 DEF Markers
  <2>2. QED
    BY <1>1, <1>2, <2>1 DEF Markers
<1>6. Published'
  BY <1>0, <1>1, <1>2, <1>p DEF Published, Works
<1>7. Synced'
  <2>1. ASSUME Calm', NEW x \in disk'
        PROVE  x.gen = store'.gen /\ x.mark = store.mark /\ x.state = store.state
    <3>1. Calm
      BY <1>1, <2>1 DEF Calm
    <3>2. PICK r \in disk : /\ x.mark = r.mark /\ x.state = r.state
                            /\ r.gen = store.gen => x.gen = store'.gen
      BY <1>2, <2>1
    <3>3. QED
      BY <1>0, <1>1, <3>1, <3>2 DEF Synced
  <2>2. QED
    BY <1>1, <1>2, <2>1 DEF Synced
<1>8. Kept'
  <2>1. ordered \/ Calm => \A r \in disk : Whole(r)
    BY <1>0 DEF Kept
  <2>2. ordered' \/ Calm' => ordered \/ Calm
    BY <1>0, <1>1 DEF Calm, TypeOK
  <2>3. ASSUME ordered \/ Calm, NEW x \in disk' PROVE Whole(x)
    <3>1. PICK r \in disk :
            /\ x.mark = r.mark /\ x.state = r.state
            /\ \A i \in Id : x.gen[i] = "none" <=> r.gen[i] = "none"
      BY <1>2, <2>3
    <3>2. Protected(r.state) \subseteq Id
      BY <1>0 DEF TypeOK, Store, Protected, State
    <3>3. QED
      BY <2>1, <2>3, <3>1, <3>2 DEF Whole
  <2>4. QED
    BY <1>0, <1>1, <1>2, <2>2, <2>3 DEF Kept, Spared
<1>9. Apart'
  BY <1>0, <1>1, <1>2 DEF Apart, Works, TypeOK, Owned, FilesTyped
<1>10. QED
  BY <1>3, <1>4, <1>5, <1>6, <1>7, <1>8, <1>9 DEF IInv

LEMMA ReuseKeeps ==
  ASSUME IInv, Reuse
  PROVE  IInv'
<1>0. TypeOK /\ Works /\ Markers /\ Published /\ Synced /\ Kept /\ Apart
  BY DEF IInv
<1>p. job.id \in Id
  BY <1>0 DEF Works, Committing, Reuse, At
<1>1. /\ pc = "reuse" /\ todo = {}
      /\ pc' \in {"mark", "marked"} /\ todo' = {}
      /\ pc' = "marked" => store.mark[job.id]
      /\ store' = Verified(store) /\ ordered' = ordered
      /\ disk' = {Verified(r) : r \in disk} /\ held' = held
      /\ owner' = owner /\ job' = job
      /\ token' = token /\ live' = live
      /\ fails' = fails /\ kills' = kills
  BY <1>p DEF Reuse, At, Goto, Unsynced, fileVars, budget
<1>2. /\ FilesTyped
      /\ store'.cand = store.cand /\ store'.lease = store.lease
      /\ store'.mark = store.mark /\ store'.state = store.state
      /\ \A i \in Id : store'.gen[i] = "none" <=> store.gen[i] = "none"
      /\ \A x \in disk' : \E r \in disk :
           /\ x.mark = r.mark /\ x.state = r.state
           /\ x.gen[job.id] # "new"
           /\ r.gen = store.gen => x.gen = store'.gen
           /\ \A i \in Id : /\ x.gen[i] = "new" => r.gen[i] = "new"
                            /\ x.gen[i] = "none" <=> r.gen[i] = "none"
  BY <1>0, <1>1, <1>p, VerifiedStep
<1>3. TypeOK'
  BY <1>0, <1>1, <1>2 DEF TypeOK, Label, Owned, FilesTyped
<1>4. Works'
  BY <1>0, <1>1, <1>2 DEF Works, TypeOK, Owned, Committing
<1>5. Markers'
  <2>1. \A x \in disk' : \A j \in Id : x.mark[j] => x.gen[j] # "new"
    BY <1>0, <1>2 DEF Markers
  <2>2. QED
    BY <1>1, <1>2, <2>1 DEF Markers
<1>6. Published'
  BY <1>0, <1>1, <1>2, <1>p DEF Published, Works
<1>7. Synced'
  <2>1. ASSUME Calm', NEW x \in disk'
        PROVE  x.gen = store'.gen /\ x.mark = store.mark /\ x.state = store.state
    <3>1. Calm
      BY <1>1, <2>1 DEF Calm
    <3>2. PICK r \in disk : /\ x.mark = r.mark /\ x.state = r.state
                            /\ r.gen = store.gen => x.gen = store'.gen
      BY <1>2, <2>1
    <3>3. QED
      BY <1>0, <1>1, <3>1, <3>2 DEF Synced
  <2>2. QED
    BY <1>1, <1>2, <2>1 DEF Synced
<1>8. Kept'
  <2>1. ordered \/ Calm => \A r \in disk : Whole(r)
    BY <1>0 DEF Kept
  <2>2. ordered' \/ Calm' => ordered \/ Calm
    BY <1>0, <1>1 DEF Calm, TypeOK
  <2>3. ASSUME ordered \/ Calm, NEW x \in disk' PROVE Whole(x)
    <3>1. PICK r \in disk :
            /\ x.mark = r.mark /\ x.state = r.state
            /\ \A i \in Id : x.gen[i] = "none" <=> r.gen[i] = "none"
      BY <1>2, <2>3
    <3>2. Protected(r.state) \subseteq Id
      BY <1>0 DEF TypeOK, Store, Protected, State
    <3>3. QED
      BY <2>1, <2>3, <3>1, <3>2 DEF Whole
  <2>4. store.cand[token]
    BY <1>0, <1>1 DEF Published
  <2>5. QED
    BY <1>1, <1>2, <2>2, <2>3, <2>4 DEF Kept, Spared
<1>9. Apart'
  BY <1>0, <1>1, <1>2 DEF Apart, Works, TypeOK, Owned, FilesTyped
<1>10. QED
  BY <1>3, <1>4, <1>5, <1>6, <1>7, <1>8, <1>9 DEF IInv

LEMMA ReconciledKeeps ==
  ASSUME IInv, Reconciled
  PROVE  IInv'
<1>0. TypeOK /\ Works /\ Markers /\ Published /\ Synced /\ Kept /\ Apart
  BY DEF IInv
<1>1. pc = "sweep" /\ todo = {}
  BY DEF Reconciled, Sound, Swept, At
<1>2. CASE job.kind = "admit"
  <2>1. /\ pc' = "mkdir" /\ todo' = {} /\ live' = {}
        /\ store' = store /\ disk' = disk /\ ordered' = ordered
        /\ held' = held /\ owner' = owner /\ job' = job /\ token' = token
        /\ fails' = fails /\ kills' = kills
    BY <1>2 DEF Reconciled, Goto, fileVars, budget
  <2>2. TypeOK'
    BY <1>0, <2>1 DEF TypeOK, Label
  <2>3. Works'
    BY <1>0, <1>1, <2>1 DEF Works, Owned, Committing
  <2>4. Markers'
    BY <1>0, <2>1 DEF Markers
  <2>5. Published'
    BY <1>0, <2>1 DEF Published
  <2>6. Synced'
    BY <1>0, <1>1, <2>1 DEF Synced, Calm
  <2>7. Kept'
    <3>1. ordered' \/ Calm' => ordered \/ Calm
      BY <2>1 DEF Calm
    <3>2. ordered \/ Calm => \A r \in disk : Whole(r)
      BY <1>0 DEF Kept
    <3>3. QED
      BY <2>1, <3>1, <3>2 DEF Kept
  <2>8. Apart'
    BY <1>0, <2>1 DEF Apart, Owned
  <2>9. QED
    BY <2>2, <2>3, <2>4, <2>5, <2>6, <2>7, <2>8 DEF IInv
<1>3. CASE job.kind # "admit"
  <2>1. /\ Idle /\ store' = store /\ disk' = disk /\ ordered' = ordered
        /\ held' = held /\ fails' = fails /\ kills' = kills
    BY <1>3 DEF Reconciled, Stop, fileVars, budget
  <2>2. \A p, q \in Proc : held'[p] = held'[q] /\ held'[p] # None => p = q
    BY <1>0, <2>1 DEF Apart
  <2>3. Calm' => Calm /\ todo = {}
    BY <1>1, <2>1 DEF Calm
  <2>4. QED
    BY <1>0, <2>1, <2>2, <2>3, IdleKeeps DEF TypeOK
<1>4. QED
  BY <1>2, <1>3

\* A state that an operation may save names only generations that the earlier one
\* named, and ones whose evidence was checked.
LEMMA NextStatesTrusted ==
  ASSUME NEW s \in State, NEW t \in NextStates(s)
  PROVE  /\ t \in State
         /\ \A i \in Protected(t) : i \in Protected(s) \/ Evidence(i)
<1>0. PICK n \in Nat : n = s.revision + 1
  BY DEF State
<1>1. CASE \E i \in Id, o \in Op : Evidence(i) /\ t = Begin(s, i, o)
  <2>1. PICK i \in Id, o \in Op : Evidence(i) /\ t = Begin(s, i, o)
    BY <1>1
  <2>2. t = [s EXCEPT !.revision = n, !.pending = i, !.op = o]
    BY <1>0, <2>1 DEF Begin
  <2>3. /\ t \in State
        /\ t.active = s.active /\ t.lkg = s.lkg /\ t.pending = i
    BY <2>2 DEF State
  <2>4. QED
    BY <2>1, <2>3 DEF Protected
<1>2. CASE t = Acknowledge(s) /\ s.pending \in Id
  <2>1. PICK h \in Nat : h = IF SeqNo[s.pending] > s.hw THEN SeqNo[s.pending] ELSE s.hw
    BY <1>2, SeqAssumption DEF State
  <2>2. t = [s EXCEPT !.revision = n, !.active = s.pending, !.lkg = s.active,
                      !.hw = h, !.pending = None, !.op = None]
    BY <1>0, <1>2, <2>1 DEF Acknowledge
  <2>3. /\ t \in State
        /\ t.active = s.pending /\ t.lkg = s.active /\ t.pending = None
    BY <2>2 DEF State
  <2>4. QED
    BY <2>3 DEF Protected
<1>3. CASE t = Reject(s)
  <2>1. t = [s EXCEPT !.revision = n, !.pending = None, !.op = None]
    BY <1>0, <1>3 DEF Reject
  <2>2. /\ t \in State
        /\ t.active = s.active /\ t.lkg = s.lkg /\ t.pending = None
    BY <2>1 DEF State
  <2>3. QED
    BY <2>2 DEF Protected
<1>4. CASE t = Rollback(s)
  <2>1. t = [s EXCEPT !.revision = n, !.active = s.lkg]
    BY <1>0, <1>4 DEF Rollback
  <2>2. /\ t \in State
        /\ t.active = s.lkg /\ t.lkg = s.lkg /\ t.pending = s.pending
    BY <2>1 DEF State
  <2>3. QED
    BY <2>2 DEF Protected
<1>5. QED
  BY <1>1, <1>2, <1>3, <1>4 DEF NextStates, CanAcknowledge

LEMMA ActivateKeeps ==
  ASSUME IInv, NEW p \in Proc, Activate(p)
  PROVE  IInv'
<1>0. TypeOK /\ Works /\ Markers /\ Published /\ Synced /\ Kept /\ Apart
  BY DEF IInv
<1>1. PICK t \in NextStates(store.state) :
        Change([r \in Contents |-> [r EXCEPT !.state = t]])
  BY DEF Activate
<1>2. /\ owner = None /\ todo = {}
      /\ owner' = p /\ pc' = "saved" /\ todo' = {"state"}
      /\ job' = [kind |-> "activate", id |-> None, ok |-> FALSE]
      /\ held' = held /\ token' = token /\ live' = live
      /\ fails' = fails /\ kills' = kills
  BY <1>0 DEF Activate, Take, Goto, budget, Works
<1>3. store.state \in State
  BY <1>0 DEF TypeOK, Store
<1>4. t \in State /\ \A i \in Protected(t) : i \in Protected(store.state) \/ Evidence(i)
  BY <1>3, NextStatesTrusted
<1>5. /\ FilesTyped
      /\ store'.state = t
      /\ store'.cand = store.cand /\ store'.lease = store.lease
      /\ store'.gen = store.gen /\ store'.mark = store.mark
      /\ \A x \in disk' : \E r \in disk :
           /\ x.gen = r.gen /\ x.mark = r.mark
           /\ x.state = r.state \/ (x.state = t /\ (ordered => r = store))
  BY <1>0, <1>1, <1>4, StateStep
<1>6. job' \in Job /\ ~ job'.ok
  BY <1>2 DEF Job
<1>7. TypeOK'
  BY <1>0, <1>2, <1>5, <1>6 DEF TypeOK, FilesTyped, Label
<1>8. Works'
  BY <1>2, <1>6, NamesAssumption DEF Works, Owned, Committing
<1>9. Markers'
  BY <1>0, <1>2, <1>5 DEF Markers
<1>10. Published'
  BY <1>2, <1>6 DEF Published
<1>11. Synced'
  <2>1. ASSUME Calm', NEW x \in disk' PROVE x.gen = store'.gen /\ x.mark = store'.mark
    <3>1. Calm
      BY <1>2, <1>5, <2>1 DEF Calm, FilesTyped
    <3>2. QED
      BY <1>0, <1>2, <1>5, <2>1, <3>1 DEF Synced
  <2>2. QED
    BY <1>2, <2>1 DEF Synced
<1>12. Kept'
  <2>1. ordered' \/ Calm' => ordered \/ Calm
    BY <1>2, <1>5 DEF Calm, FilesTyped
  <2>2. ASSUME ordered \/ Calm, NEW x \in disk' PROVE Whole(x)
    <3>1. PICK r \in disk : /\ x.gen = r.gen /\ x.mark = r.mark
                            /\ x.state = r.state \/ (x.state = t /\ (ordered => r = store))
      BY <1>5, <2>2
    <3>2. Whole(r) /\ Whole(store)
      BY <1>0, <2>2 DEF Kept, TypeOK
    <3>3. CASE x.state = r.state
      BY <3>1, <3>2, <3>3 DEF Whole
    <3>4. CASE x.state = t /\ (ordered => r = store)
      <4>1. x.gen = store.gen /\ x.mark = store.mark
        BY <1>0, <1>2, <2>2, <3>1, <3>4 DEF Synced
      <4>2. QED
        BY <1>4, <3>2, <3>4, <4>1 DEF Whole, Evidence, Generations
    <3>5. QED
      BY <3>1, <3>3, <3>4
  <2>3. QED
    BY <1>2, <2>1, <2>2 DEF Kept
<1>13. Apart'
  BY <1>0, <1>2 DEF Apart, Owned
<1>14. QED
  BY <1>7, <1>8, <1>9, <1>10, <1>11, <1>12, <1>13 DEF IInv

LEMMA DropKeeps ==
  ASSUME IInv, NEW p \in Proc, Drop(p)
  PROVE  IInv'
<1>0. TypeOK /\ Works /\ Markers /\ Published /\ Synced /\ Kept /\ Apart
  BY DEF IInv
<1>1. /\ held' = [held EXCEPT ![p] = None]
      /\ store' = store /\ disk' = disk /\ ordered' = ordered
      /\ owner' = owner /\ pc' = pc /\ job' = job /\ token' = token
      /\ todo' = todo /\ live' = live /\ fails' = fails /\ kills' = kills
  BY DEF Drop, fileVars, budget
<1>2. held \in [Proc -> Token \union {None}]
  BY <1>0 DEF TypeOK
<1>3. \A q \in Proc : held'[q] = held[q] \/ held'[q] = None
  BY <1>1, <1>2
<1>4. TypeOK'
  BY <1>0, <1>1, <1>2 DEF TypeOK
<1>5. Works' /\ Markers' /\ Published' /\ Synced'
  BY <1>0, <1>1 DEF Works, Markers, Published, Synced, Calm
<1>6. Kept'
  BY <1>0, <1>1 DEF Kept, Calm, Spared
<1>7. Apart'
  BY <1>0, <1>1, <1>2, <1>3, NamesAssumption DEF Apart, TypeOK, Works
<1>8. QED
  BY <1>4, <1>5, <1>6, <1>7 DEF IInv

\* Where an operation goes on after an error.
LEMMA RecoveryAt ==
  ASSUME pc \in Label, Recovery # "idle"
  PROVE  /\ Recovery \in {"undoLease", "undoCandidate", "discard", "unpublish", "unlease",
                          "resync"}
         /\ Recovery # "resync" => pc \in Owned
         /\ Recovery = "unpublish" => /\ pc \in {"verify", "mark", "marked"}
                                      /\ ~ store.cand[token]
<1>1. CASE pc \in {"fill", "keep", "lease", "undoLease"}
  BY <1>1 DEF Recovery, Owned
<1>2. CASE pc \in {"revoke", "rename", "reuse"}
  BY <1>2 DEF Recovery, Owned
<1>3. CASE pc \in {"verify", "mark", "marked"}
  <2>1. CASE store.cand[token]
    BY <1>3, <2>1 DEF Recovery, Owned
  <2>2. CASE ~ store.cand[token]
    BY <1>3, <2>2 DEF Recovery, Owned
  <2>3. QED
    BY <2>1, <2>2
<1>4. CASE pc \in {"unpublish", "detach"}
  BY <1>4 DEF Recovery, Owned
<1>5. CASE pc = "discard"
  <2>1. CASE job.ok /\ store.cand[token]
    BY <1>5, <2>1 DEF Recovery, Owned
  <2>2. CASE ~ (job.ok /\ store.cand[token]) /\ job.kind = "commit"
    BY <1>5, <2>2 DEF Recovery, Owned
  <2>3. CASE ~ (job.ok /\ store.cand[token]) /\ job.kind # "commit"
    BY <1>5, <2>3 DEF Recovery
  <2>4. QED
    BY <2>1, <2>2, <2>3
<1>6. CASE pc = "unlease"
  <2>1. CASE "gen" \in todo
    BY <1>6, <2>1 DEF Recovery, Owned
  <2>2. CASE "gen" \notin todo
    BY <1>6, <2>2 DEF Recovery
  <2>3. QED
    BY <2>1, <2>2
<1>7. CASE pc = "saved"
  BY <1>7 DEF Recovery
<1>8. CASE pc \in {"undoCandidate", "done", "idle", "mkdir", "resync", "sweep", "prune"}
  BY <1>8 DEF Recovery
<1>9. QED
  BY <1>1, <1>2, <1>3, <1>4, <1>5, <1>6, <1>7, <1>8 DEF Label, Owned

LEMMA FailKeeps ==
  ASSUME IInv, Fail
  PROVE  IInv'
<1>0. TypeOK /\ Works /\ Markers /\ Published /\ Synced /\ Kept /\ Apart
  BY DEF IInv
<1>1. /\ owner # None /\ fails' = fails + 1 /\ kills' = kills
      /\ store' = store /\ disk' = disk /\ ordered' = ordered /\ held' = held
  BY DEF Fail, fileVars
<1>2. fails' \in Nat /\ kills' \in Nat /\ ~ Calm'
  BY <1>0, <1>1 DEF TypeOK, Calm
<1>3. CASE Recovery = "idle"
  <2>1. Idle
    BY <1>3 DEF Fail
  <2>2. \A p, q \in Proc : held'[p] = held'[q] /\ held'[p] # None => p = q
    BY <1>0, <1>1 DEF Apart
  <2>3. QED
    BY <1>0, <1>1, <1>2, <2>1, <2>2, IdleKeeps DEF TypeOK
<1>4. CASE Recovery # "idle"
  <2>1. /\ pc' = Recovery /\ job' = [job EXCEPT !.ok = FALSE]
        /\ owner' = owner /\ token' = token /\ live' = live
    BY <1>4 DEF Fail, Goto
  <2>2. todo' \subseteq {"cand", "gen", "state"}
    BY <1>4 DEF Fail, Goto
  <2>3. /\ pc' \in {"undoLease", "undoCandidate", "discard", "unpublish", "unlease", "resync"}
        /\ pc' # "resync" => pc \in Owned
        /\ pc' = "unpublish" => /\ pc \in {"verify", "mark", "marked"}
                                /\ ~ store.cand[token]
    BY <1>0, <1>4, <2>1, RecoveryAt DEF TypeOK
  <2>4. job' \in Job /\ ~ job'.ok /\ job'.id = job.id
    BY <1>0, <2>1 DEF TypeOK, Job
  <2>5. TypeOK'
    BY <1>0, <1>1, <1>2, <2>1, <2>2, <2>3, <2>4 DEF TypeOK, Label, Owned
  <2>6. Works'
    BY <1>0, <1>1, <2>1, <2>3, <2>4 DEF Works, Owned, Committing
  <2>7. Markers'
    BY <1>0, <1>1, <2>3 DEF Markers
  <2>8. Published'
    BY <2>3, <2>4 DEF Published
  <2>9. Synced'
    BY <1>2, <2>3 DEF Synced
  <2>10. Kept'
    BY <1>0, <1>1, <1>2, <2>1, <2>3, <2>4 DEF Kept, Spared
  <2>11. Apart'
    BY <1>0, <1>1, <2>1, <2>3 DEF Apart, Owned
  <2>12. QED
    BY <2>5, <2>6, <2>7, <2>8, <2>9, <2>10, <2>11 DEF IInv
<1>5. QED
  BY <1>3, <1>4

LEMMA KillKeeps ==
  ASSUME IInv, Kill
  PROVE  IInv'
<1>0. TypeOK /\ Apart /\ Works
  BY DEF IInv
<1>1. /\ Idle /\ store' = store /\ disk' = disk /\ ordered' = ordered
      /\ held' = [held EXCEPT ![owner] = None]
      /\ fails' = fails /\ kills' = kills + 1
  BY DEF Kill, fileVars
<1>2. fails' \in Nat /\ kills' \in Nat /\ ~ Calm'
  BY <1>0, <1>1 DEF TypeOK, Calm
<1>3. held' \in [Proc -> Token \union {None}]
  BY <1>0, <1>1 DEF TypeOK
<1>4. \A p, q \in Proc : held'[p] = held'[q] /\ held'[p] # None => p = q
  BY <1>0, <1>1 DEF TypeOK, Apart
<1>5. QED
  BY <1>1, <1>2, <1>3, <1>4, IdleKeeps

LEMMA PowerLossKeeps ==
  ASSUME IInv, PowerLoss
  PROVE  IInv'
<1>0. TypeOK /\ Works /\ Markers /\ Published /\ Synced /\ Kept /\ Apart
  BY DEF IInv
<1>1. /\ store' \in disk /\ disk' = {store'} /\ ordered' = ordered
      /\ held' = [p \in Proc |-> None] /\ fails' = fails /\ kills' = kills
      /\ owner' = None /\ pc' = "idle" /\ job' = NoJob
      /\ token' = None /\ todo' = {} /\ live' = {}
  BY DEF PowerLoss, Idle
<1>2. job' \in Job /\ ~ job'.ok
  BY <1>1 DEF NoJob, Job
<1>3. TypeOK'
  BY <1>0, <1>1, <1>2 DEF TypeOK, Label
<1>4. Works'
  BY <1>1, <1>2 DEF Works, Owned, Committing
<1>5. Markers'
  BY <1>0, <1>1 DEF Markers
<1>6. Published'
  BY <1>1, <1>2 DEF Published
<1>7. Synced'
  BY <1>1 DEF Synced
<1>8. Kept'
  <2>1. ordered' \/ Calm' => ordered \/ Calm
    BY <1>1 DEF Calm
  <2>2. ordered \/ Calm => Whole(store')
    BY <1>0, <1>1 DEF Kept
  <2>3. QED
    BY <1>1, <2>1, <2>2 DEF Kept
<1>9. Apart'
  BY <1>1 DEF Apart, Owned
<1>10. QED
  BY <1>3, <1>4, <1>5, <1>6, <1>7, <1>8, <1>9 DEF IInv

LEMMA InitKeeps == Init => IInv
<1> SUFFICES ASSUME Init PROVE IInv
  OBVIOUS
<1>0. /\ ordered \in BOOLEAN /\ disk = {store} /\ held = [p \in Proc |-> None]
      /\ owner = None /\ pc = "idle" /\ job = NoJob
      /\ token = None /\ todo = {} /\ live = {} /\ fails = 0 /\ kills = 0
  BY DEF Init
<1>1. Default \in State /\ Protected(Default) = {}
  BY DEF Default, State, Protected
<1>2. /\ store \in Store
      /\ store.mark = [i \in Id |-> FALSE] /\ store.state = Default
  BY <1>1 DEF Init, Store
<1>3. job \in Job /\ ~ job.ok
  BY <1>0 DEF NoJob, Job
<1>4. TypeOK
  BY <1>0, <1>2, <1>3 DEF TypeOK, Label
<1>5. Works
  BY <1>0, <1>3 DEF Works, Owned, Committing
<1>6. Markers
  BY <1>0, <1>2 DEF Markers
<1>7. Published
  BY <1>0, <1>3 DEF Published
<1>8. Synced
  BY <1>0 DEF Synced
<1>9. Kept
  BY <1>0, <1>1, <1>2 DEF Kept, Whole
<1>10. Apart
  BY <1>0 DEF Apart, Owned
<1>11. QED
  BY <1>4, <1>5, <1>6, <1>7, <1>8, <1>9, <1>10 DEF IInv

\* The invariant is inductive.
LEMMA NextKeeps ==
  ASSUME IInv, [Next]_vars
  PROVE  IInv'
<1>1. ASSUME NEW p \in Proc, Create(p) PROVE IInv'
  BY <1>1, CreateKeeps
<1>2. ASSUME NEW p \in Proc, Commit(p) PROVE IInv'
  BY <1>2, CommitKeeps
<1>3. ASSUME NEW p \in Proc, Abort(p) PROVE IInv'
  BY <1>3, AbortKeeps
<1>4. ASSUME NEW p \in Proc, Activate(p) PROVE IInv'
  BY <1>4, ActivateKeeps
<1>5. ASSUME NEW p \in Proc, Reconcile(p) PROVE IInv'
  BY <1>5, ReconcileKeeps
<1>6. ASSUME NEW p \in Proc, Drop(p) PROVE IInv'
  BY <1>6, DropKeeps
<1>7. CASE SyncDirectories
  BY <1>7, SyncDirectoriesKeeps
<1>8. CASE MakeCandidate
  BY <1>8, MakeCandidateKeeps
<1>9. CASE NoUniqueName
  BY <1>9, NoUniqueNameKeeps
<1>10. CASE OpenLease
  BY <1>10, OpenLeaseKeeps
<1>11. CASE FillLease
  BY <1>11, FillLeaseKeeps
<1>12. CASE KeepLease
  BY <1>12, KeepLeaseKeeps
<1>13. CASE UndoLease
  BY <1>13, UndoLeaseKeeps
<1>14. CASE UndoCandidate
  BY <1>14, UndoCandidateKeeps
<1>15. CASE Revoke
  BY <1>15, RevokeKeeps
<1>16. CASE Rename
  BY <1>16, RenameKeeps
<1>17. CASE VerifyPublished
  BY <1>17, VerifyPublishedKeeps
<1>18. CASE Reuse
  BY <1>18, ReuseKeeps
<1>19. CASE Mark
  BY <1>19, MarkKeeps
<1>20. CASE Marked
  BY <1>20, MarkedKeeps
<1>21. CASE Unpublish
  BY <1>21, UnpublishKeeps
<1>22. CASE Detach
  BY <1>22, DetachKeeps
<1>23. CASE Discard
  BY <1>23, DiscardKeeps
<1>24. CASE RemoveLease
  BY <1>24, RemoveLeaseKeeps
<1>25. CASE Return
  BY <1>25, ReturnKeeps
<1>26. CASE RemoveAbandoned
  BY <1>26, RemoveAbandonedKeeps
<1>27. CASE RemoveOrphan
  BY <1>27, RemoveOrphanKeeps
<1>28. CASE RemoveStale
  BY <1>28, RemoveStaleKeeps
<1>29. CASE RemoveUnmarked
  BY <1>29, RemoveUnmarkedKeeps
<1>30. CASE Expire
  BY <1>30, ExpireKeeps
<1>31. CASE Prune
  BY <1>31, PruneKeeps
<1>32. CASE Reconciled
  BY <1>32, ReconciledKeeps
<1>33. CASE ReconcileRefuses
  BY <1>33, ReconcileRefusesKeeps
<1>34. CASE Fail
  BY <1>34, FailKeeps
<1>35. CASE Kill
  BY <1>35, KillKeeps
<1>36. CASE PowerLoss
  BY <1>36, PowerLossKeeps
<1>37. CASE UNCHANGED vars
  <2>1. TypeOK' /\ Works' /\ Markers' /\ Published'
    BY <1>37 DEF IInv, vars, fileVars, budget, TypeOK, Works, Markers, Published
  <2>2. Synced' /\ Kept' /\ Apart'
    BY <1>37 DEF IInv, vars, fileVars, budget, Synced, Kept, Apart, Calm, Spared
  <2>3. QED
    BY <2>1, <2>2 DEF IInv
<1>38. QED
  BY <1>1, <1>2, <1>3, <1>4, <1>5, <1>6, <1>7, <1>8, <1>9, <1>10, <1>11, <1>12,
     <1>13, <1>14, <1>15, <1>16, <1>17, <1>18, <1>19, <1>20, <1>21, <1>22, <1>23,
     <1>24, <1>25, <1>26, <1>27, <1>28, <1>29, <1>30, <1>31, <1>32, <1>33, <1>34,
     <1>35, <1>36, <1>37 DEF Next, Step

-----------------------------------------------------------------------------
\* The inductive invariant of the cache: what its markers and its generations
\* are, what a commit has reached, what is synced, what the activation state
\* names, and whose candidate it is.
THEOREM CacheInvariant == Spec => []IInv
<1>1. Init => IInv
  BY InitKeeps
<1>2. IInv /\ [Next]_vars => IInv'
  BY NextKeeps
<1>3. QED
  BY <1>1, <1>2, PTL DEF Spec

\* A marker never authorises a generation that was not verified in its final
\* place: a commit revokes and syncs what an earlier one left before it renames,
\* and it marks only what it has verified where it is.
THEOREM MarkersAreEarned == Spec => []MarkerMeansVerified
<1>1. IInv => MarkerMeansVerified
  BY DEF IInv, Markers, MarkerMeansVerified, Contents, TypeOK
<1>2. QED
  BY <1>1, CacheInvariant, PTL

\* A commit that returned success survives a power loss.
THEOREM CommitsAreDurable == Spec => []CommitDurable
<1>1. IInv => CommitDurable
  <2> SUFFICES ASSUME IInv, Trusted, pc = "done", todo = {}, job.ok, NEW r \in disk
               PROVE  r.mark[job.id] /\ job.id \in Generations(r)
    BY DEF CommitDurable, At
  <2>0. TypeOK /\ Works /\ Published /\ Synced
    BY DEF IInv
  <2>1. /\ store.mark[job.id] /\ store.gen[job.id] # "none" /\ job.id \in Id
    BY <2>0 DEF Published, Works
  <2>2. ordered \/ Calm
    BY <2>0 DEF Trusted, Calm, TypeOK
  <2>3. r.mark = store.mark /\ r.gen = store.gen
    BY <2>0, <2>2 DEF Synced
  <2>4. QED
    BY <2>1, <2>3 DEF Generations
<1>2. QED
  BY <1>1, CacheInvariant, PTL

\* No step touches the candidate, or the lease, of another process that lives.
LEMMA NeighboursKept ==
  ASSUME IInv, [Next]_vars
  PROVE  LiveUntouched
<1> SUFFICES ASSUME NEW p \in Proc, ValidLease(p), held'[p] = held[p],
                    p # owner, p # owner'
             PROVE  /\ store'.cand[held[p]] = store.cand[held[p]]
                    /\ store'.lease[held[p]] = store.lease[held[p]]
  BY DEF LiveUntouched
<1> DEFINE c == held[p]
<1>0. TypeOK /\ Works /\ Apart
  BY DEF IInv
<1>1. c \in Token /\ c # None /\ store.cand[c] /\ store.lease[c] = "full"
  BY <1>0 DEF TypeOK, ValidLease
<1>2. pc \in Owned => c # token
  BY <1>0 DEF Apart
<1>3. pc = "sweep" => c \in live
  BY <1>0, <1>1 DEF Apart
<1>4. /\ store.cand \in [Token -> BOOLEAN]
      /\ store.lease \in [Token -> {"none", "torn", "full"}]
  BY <1>0 DEF TypeOK, Store
<1>5. pc \in Owned => token \in Token
  BY <1>0 DEF TypeOK, Works
<1>6. pc \in Committing \union {"prune"} => job.id \in Id
  BY <1>0 DEF Works
<1> DEFINE Goal == store'.cand[c] = store.cand[c] /\ store'.lease[c] = store.lease[c]
<1> SUFFICES Goal
  OBVIOUS
<1>7. store' = store => Goal
  OBVIOUS
<1>8. \A n \in Token, v \in BOOLEAN : n # c /\ Put("cand", n, v) => Goal
  BY <1>0, <1>1, <1>4, CandStep
<1>9. \A n \in Token, v \in {"none", "torn", "full"} : n # c /\ Put("lease", n, v) => Goal
  BY <1>0, <1>1, <1>4, LeaseStep
<1>10. \A i \in Id, v \in BOOLEAN : Put("mark", i, v) => Goal
  BY <1>0, MarkStep DEF Marking
<1>11. \A i \in Id : Put("gen", i, "none") => Goal
  BY <1>0, RemoveStep DEF Removing
<1> HIDE DEF Goal, c
<1>12. ASSUME NEW q \in Proc, Create(q) PROVE Goal
  BY <1>7, <1>12 DEF Create, fileVars
<1>13. ASSUME NEW q \in Proc, Commit(q) PROVE Goal
  BY <1>7, <1>13 DEF Commit, fileVars
<1>14. ASSUME NEW q \in Proc, Abort(q) PROVE Goal
  BY <1>7, <1>14 DEF Abort, fileVars
<1>15. ASSUME NEW q \in Proc, Reconcile(q) PROVE Goal
  BY <1>7, <1>15 DEF Reconcile, fileVars
<1>16. ASSUME NEW q \in Proc, Drop(q) PROVE Goal
  BY <1>7, <1>16 DEF Drop, fileVars
<1>17. ASSUME NEW q \in Proc, Activate(q) PROVE Goal
  <2>1. PICK t \in NextStates(store.state) :
          Change([r \in Contents |-> [r EXCEPT !.state = t]])
    BY <1>17 DEF Activate
  <2>2. t \in State
    BY <1>0, NextStatesTrusted DEF TypeOK, Store
  <2>3. QED
    BY <1>0, <2>1, <2>2, StateStep DEF Goal
<1>18. CASE SyncDirectories
  BY <1>7, <1>18 DEF SyncDirectories, fileVars, Stop
<1>19. CASE NoUniqueName
  BY <1>7, <1>19 DEF NoUniqueName, fileVars, Stop
<1>20. CASE KeepLease
  BY <1>7, <1>20 DEF KeepLease, fileVars, Stop
<1>21. CASE Marked
  BY <1>7, <1>21 DEF Marked, fileVars, Stop
<1>22. CASE Return
  BY <1>7, <1>22 DEF Return, fileVars, Stop
<1>23. CASE Reconciled
  BY <1>7, <1>23 DEF Reconciled, fileVars, Stop
<1>24. CASE ReconcileRefuses
  BY <1>7, <1>24 DEF ReconcileRefuses, fileVars, Stop
<1>25. CASE Fail
  BY <1>7, <1>25 DEF Fail, fileVars, Stop
<1>26. CASE Kill
  BY <1>7, <1>26 DEF Kill, fileVars, Stop
<1>27. CASE MakeCandidate
  <2>1. PICK t \in Unused : Put("cand", t, TRUE)
    BY <1>27 DEF MakeCandidate
  <2>2. t \in Token /\ t # c
    BY <1>1 DEF Unused, Live, c
  <2>3. QED
    BY <1>8, <2>1, <2>2
<1>28. CASE OpenLease
  BY <1>2, <1>5, <1>9, <1>28 DEF OpenLease, At, Owned
<1>29. CASE UndoLease
  BY <1>2, <1>5, <1>9, <1>29 DEF UndoLease, At, Owned
<1>30. CASE RemoveLease
  BY <1>2, <1>5, <1>9, <1>30 DEF RemoveLease, At, Owned
<1>31. CASE UndoCandidate
  BY <1>2, <1>5, <1>8, <1>31 DEF UndoCandidate, At, Owned
<1>32. CASE Discard
  BY <1>2, <1>5, <1>8, <1>32 DEF Discard, At, Owned
<1>33. CASE FillLease
  <2>1. pc \in Owned
    BY <1>33 DEF FillLease, At, Owned
  <2>2. QED
    BY <1>0, <1>1, <1>2, <1>5, <1>33, <2>1, FillStep DEF Goal
<1>34. CASE Revoke
  BY <1>6, <1>10, <1>34 DEF Revoke, At, Committing
<1>35. CASE Mark
  BY <1>6, <1>10, <1>35 DEF Mark, At, Committing
<1>36. CASE Unpublish
  BY <1>6, <1>10, <1>36 DEF Unpublish, At, Committing
<1>37. CASE Detach
  BY <1>6, <1>11, <1>37 DEF Detach, At, Committing
<1>38. CASE Prune
  BY <1>6, <1>11, <1>38 DEF Prune, At, Committing
<1>39. CASE Rename
  <2>1. pc \in Owned /\ pc \in Committing
    BY <1>39 DEF Rename, At, Owned, Committing
  <2>2. QED
    BY <1>0, <1>1, <1>2, <1>4, <1>5, <1>6, <1>39, <2>1, RenameStep DEF Goal
<1>40. CASE VerifyPublished
  <2>1. job.id \in Id
    BY <1>6, <1>40 DEF VerifyPublished, At, Committing
  <2>2. QED
    BY <1>0, <1>40, <2>1, VerifiedStep DEF VerifyPublished, Goal
<1>41. CASE Reuse
  <2>1. job.id \in Id
    BY <1>6, <1>41 DEF Reuse, At, Committing
  <2>2. QED
    BY <1>0, <1>41, <2>1, VerifiedStep DEF Reuse, Goal
<1>42. CASE RemoveAbandoned
  <2>1. PICK t \in Token \ live : pc = "sweep" /\ Put("cand", t, FALSE)
    BY <1>42 DEF RemoveAbandoned, Abandoned, At
  <2>2. QED
    BY <1>3, <1>8, <2>1
<1>43. CASE RemoveOrphan
  <2>1. PICK t \in Token \ live : pc = "sweep" /\ Put("lease", t, "none")
    BY <1>43 DEF RemoveOrphan, Orphans, At
  <2>2. QED
    BY <1>3, <1>9, <2>1
<1>44. CASE RemoveStale
  BY <1>10, <1>44 DEF RemoveStale, Stale
<1>45. CASE RemoveUnmarked
  BY <1>11, <1>45 DEF RemoveUnmarked, Unmarked, Generations
<1>46. CASE Expire
  BY <1>10, <1>46 DEF Expire, Unprotected, Generations
<1>47. CASE PowerLoss
  BY <1>1, <1>47 DEF PowerLoss, c
<1>48. CASE UNCHANGED vars
  BY <1>7, <1>48 DEF vars, fileVars
<1>49. QED
  BY <1>12, <1>13, <1>14, <1>15, <1>16, <1>17, <1>18, <1>19, <1>20, <1>21, <1>22,
     <1>23, <1>24, <1>25, <1>26, <1>27, <1>28, <1>29, <1>30, <1>31, <1>32, <1>33,
     <1>34, <1>35, <1>36, <1>37, <1>38, <1>39, <1>40, <1>41, <1>42, <1>43, <1>44,
     <1>45, <1>46, <1>47, <1>48 DEF Next, Step

\* What the activation state names, and what a live process works on, is kept by
\* every step, also by one that may lose what was not synced.
THEOREM NamedAndLiveKept == Spec => GenerationsKept
<1>1. IInv => ProtectedWhole
  <2> SUFFICES ASSUME IInv, Trusted, NEW r \in Contents, NEW i \in Protected(r.state)
               PROVE  r.mark[i] /\ i \in Generations(r)
    BY DEF ProtectedWhole
  <2>0. TypeOK /\ Kept
    BY DEF IInv
  <2>1. r \in disk
    BY <2>0 DEF Contents, TypeOK
  <2>2. Whole(r)
    BY <2>0, <2>1 DEF Kept, Trusted, Calm, TypeOK
  <2>3. i \in Id
    BY <2>0, <2>1 DEF TypeOK, Store, Protected, State
  <2>4. QED
    BY <2>2, <2>3 DEF Whole, Generations
<1>2. IInv' => ProtectedWhole'
  BY <1>1, PTL
<1>3. IInv /\ IInv' /\ [Next]_vars => [ProtectedWhole' /\ LiveUntouched]_vars
  BY <1>2, NeighboursKept
<1>4. QED
  BY <1>3, CacheInvariant, PTL DEF Spec, GenerationsKept

=============================================================================
