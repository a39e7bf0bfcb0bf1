-------------------------- MODULE RulesCacheProofs --------------------------
(***************************************************************************)
(* Safety of the rules cache for any number of threads, paths, versions    *)
(* and edits, when no two edits of a file give it the same mtime.          *)
(***************************************************************************)
EXTENDS RulesCache, TLAPS

\* The path an idle thread is given is a path.
LEMMA AnyPathInPaths == AnyPath \in Paths
  BY PathAssumption DEF AnyPath

\* Parsing yields a ruleset or NULL.
LEMMA ParseType == \A v, n : Parse(v, n) \in Ruleset
  BY DEF Parse, Ruleset

\* So does a file's content.
LEMMA MeaningType == \A f : Meaning(f) \in Ruleset
  BY ParseType DEF Meaning, Ruleset

\* What the first n bytes of a file give is its meaning or does not parse.
LEMMA ParsePrefix ==
  ASSUME NEW f \in FileType, f.ver # 0, f.len <= Size[f.ver], NEW n \in Nat, n <= f.len
  PROVE  /\ Parse(f.ver, n) \in {0, Meaning(f)}
         /\ n = f.len => Parse(f.ver, n) = Meaning(f)
  BY VersionAssumption DEF Parse, Meaning, FileType, Ruleset

\* The entry a thread installs is well typed.
LEMMA LoadedType ==
  ASSUME TypeOK, NEW t \in Threads
  PROVE  Loaded(t) \in EntryType
  BY DEF TypeOK, Loaded, EntryType, StatType

\* An entry of a well-typed list is well typed.
LEMMA EntryInType ==
  ASSUME NEW c \in Seq(EntryType), NEW i \in DOMAIN c
  PROVE  /\ c[i] \in EntryType
         /\ c[i].path \in Paths /\ c[i].mtime \in Nat /\ c[i].size \in Nat
         /\ c[i].ruleset \in Ruleset
<1>1. c[i] \in EntryType
  OBVIOUS
<1> QED
  BY <1>1 DEF EntryType

\* Install changes one position of the list, or adds one for a new path.
LEMMA InstallEffect ==
  ASSUME TypeOK, NEW t \in Threads, Install(t)
  PROVE  /\ cache' \in Seq(EntryType)
         /\ \A i \in DOMAIN cache' :
              cache'[i] = Loaded(t) \/ (i \in DOMAIN cache /\ cache'[i] = cache[i])
         /\ OneEntryPerPath => OneEntryPerPath'
<1> USE LoadedType DEF TypeOK
<1>1. CASE Matches(path[t]) = {} /\ cache' = Append(cache, Loaded(t))
  <2>1. /\ DOMAIN cache = 1..Len(cache) /\ DOMAIN cache' = 1..(Len(cache) + 1)
        /\ Len(cache) \in Nat
        /\ \A i \in 1..Len(cache) : cache'[i] = cache[i]
        /\ cache'[Len(cache) + 1] = Loaded(t)
        /\ cache' \in Seq(EntryType)
    BY <1>1
  <2>2. \A i \in DOMAIN cache : cache[i].path # path[t]
    BY <1>1 DEF Matches
  <2>3. Loaded(t).path = path[t]
    BY DEF Loaded
  <2>4. \A i \in DOMAIN cache' :
          cache'[i] = Loaded(t) \/ (i \in DOMAIN cache /\ cache'[i] = cache[i])
    BY <2>1
  <2>5. ASSUME OneEntryPerPath, NEW i \in DOMAIN cache', NEW j \in DOMAIN cache',
               cache'[i].path = cache'[j].path
        PROVE  i = j
    <3>1. CASE i \in DOMAIN cache /\ j \in DOMAIN cache
      BY <2>1, <2>5, <3>1 DEF OneEntryPerPath
    <3>2. CASE i = Len(cache) + 1 /\ j \in DOMAIN cache
      <4>1. cache'[i].path = path[t] /\ cache'[j].path # path[t]
        BY <2>1, <2>2, <2>3, <3>2
      <4> QED
        BY <4>1, <2>5
    <3>3. CASE j = Len(cache) + 1 /\ i \in DOMAIN cache
      <4>1. cache'[j].path = path[t] /\ cache'[i].path # path[t]
        BY <2>1, <2>2, <2>3, <3>3
      <4> QED
        BY <4>1, <2>5
    <3> QED
      BY <2>1, <3>1, <3>2, <3>3
  <2> QED
    BY <2>1, <2>4, <2>5 DEF OneEntryPerPath
<1>2. ASSUME NEW i \in Matches(path[t]), cache' = [cache EXCEPT ![i] = Loaded(t)]
      PROVE  /\ cache' \in Seq(EntryType)
             /\ \A j \in DOMAIN cache' :
                  cache'[j] = Loaded(t) \/ (j \in DOMAIN cache /\ cache'[j] = cache[j])
             /\ OneEntryPerPath => OneEntryPerPath'
  <2>1. DOMAIN cache' = DOMAIN cache /\ i \in DOMAIN cache /\ cache[i].path = path[t]
    BY <1>2 DEF Matches
  <2>2. cache' \in Seq(EntryType)
    BY <1>2, <2>1
  <2>3. \A j \in DOMAIN cache : cache'[j] = IF j = i THEN Loaded(t) ELSE cache[j]
    BY <1>2, <2>1
  <2>4. Loaded(t).path = path[t]
    BY DEF Loaded
  <2> QED
    BY <2>1, <2>2, <2>3, <2>4 DEF OneEntryPerPath
<1> QED
  BY <1>1, <1>2 DEF Install

-----------------------------------------------------------------------------
(* Types.                                                                  *)

\* The initial state is well typed.
LEMMA TypeInit == Init => TypeOK
<1> SUFFICES ASSUME Init PROVE TypeOK
  OBVIOUS
<1>1. file \in [Paths -> FileType]
  BY VersionAssumption DEF Init, Missing, FileType, Ruleset
<1> QED
  BY <1>1, AnyPathInPaths DEF Init, TypeOK, NoStat, StatType, Ruleset

\* An edit keeps the types.
LEMMA TypeEdit ==
  ASSUME TypeOK, NEW p \in Paths, NEW f \in FileType, NEW R \in SUBSET Reading(p),
         Edit(p, f, R)
  PROVE  TypeOK'
<1>1. PICK torn \in [R -> Ruleset] :
        /\ fresh' = [t \in Threads |-> IF t \in R THEN torn[t] ELSE fresh[t]]
        /\ window' = [t \in Threads |->
                         IF pc[t] # "idle" /\ path[t] = p
                         THEN window[t] \cup {0, Meaning(f)} \cup {torn[u] : u \in R}
                         ELSE window[t]]
  BY DEF Edit
<1>2. window' \in [Threads -> SUBSET Ruleset]
  BY <1>1, MeaningType DEF TypeOK, Ruleset
<1>3. fresh' \in [Threads -> Ruleset]
  BY <1>1 DEF TypeOK
<1> QED
  BY <1>2, <1>3 DEF TypeOK, Edit, FileType

\* What the operator's steps write: a well-formed file with the next mtime.
LEMMA OperatorEdits ==
  ASSUME TypeOK, Operator
  PROVE  \E p \in Paths, f \in FileType : \E R \in SUBSET Reading(p) :
           /\ Edit(p, f, R)
           /\ f.ver # 0 => f.len <= Size[f.ver]
           /\ DistinctStamps => f.mtime = clock + 1
<1> USE VersionAssumption DEF TypeOK, FileType, Ruleset, NewStamp
<1>1. ASSUME NEW p \in Paths, NEW v \in Versions, Replace(p, v)
      PROVE  \E f \in FileType, R \in SUBSET Reading(p) :
               /\ Edit(p, f, R)
               /\ f.ver # 0 => f.len <= Size[f.ver]
               /\ DistinctStamps => f.mtime = clock + 1
  <2>1. PICK m \in NewStamp : Edit(p, [ver |-> v, len |-> Size[v], mtime |-> m], {})
    BY <1>1 DEF Replace
  <2> DEFINE f == [ver |-> v, len |-> Size[v], mtime |-> m]
  <2>2. f \in FileType /\ f.len <= Size[f.ver] /\ (DistinctStamps => f.mtime = clock + 1)
    OBVIOUS
  <2>3. {} \in SUBSET Reading(p)
    OBVIOUS
  <2> QED
    BY <2>1, <2>2, <2>3
<1>2. ASSUME NEW p \in Paths, NEW v \in Versions, WriteSome(p, v)
      PROVE  \E f \in FileType, R \in SUBSET Reading(p) :
               /\ Edit(p, f, R)
               /\ f.ver # 0 => f.len <= Size[f.ver]
               /\ DistinctStamps => f.mtime = clock + 1
  <2>1. PICK m \in NewStamp, n \in 0..Size[v], R \in SUBSET Reading(p) :
          Edit(p, [ver |-> v, len |-> n, mtime |-> m], R)
    BY <1>2 DEF WriteSome
  <2> DEFINE f == [ver |-> v, len |-> n, mtime |-> m]
  <2>2. f \in FileType /\ f.len <= Size[f.ver] /\ (DistinctStamps => f.mtime = clock + 1)
    OBVIOUS
  <2> QED
    BY <2>1, <2>2
<1>3. ASSUME NEW p \in Paths, WriteRest(p)
      PROVE  \E f \in FileType, R \in SUBSET Reading(p) :
               /\ Edit(p, f, R)
               /\ f.ver # 0 => f.len <= Size[f.ver]
               /\ DistinctStamps => f.mtime = clock + 1
  <2>1. PICK m \in NewStamp, R \in SUBSET Reading(p) :
          Edit(p, [ver |-> file[p].ver, len |-> Size[file[p].ver], mtime |-> m], R)
    BY <1>3 DEF WriteRest
  <2>2. file[p].ver \in Versions
    BY <1>3 DEF WriteRest
  <2> DEFINE f == [ver |-> file[p].ver, len |-> Size[file[p].ver], mtime |-> m]
  <2>3. Size[file[p].ver] \in Nat
    BY ONLY <2>2, VersionAssumption
  <2>4. f \in FileType
    <3>1. m \in Nat
      OBVIOUS
    <3> QED
      BY ONLY <2>2, <2>3, <3>1 DEF FileType, Ruleset
  <2>5. f.len <= Size[f.ver]
    BY <2>3
  <2> QED
    BY <2>1, <2>4, <2>5
<1>4. ASSUME NEW p \in Paths, Remove(p)
      PROVE  \E f \in FileType, R \in SUBSET Reading(p) :
               /\ Edit(p, f, R)
               /\ f.ver # 0 => f.len <= Size[f.ver]
               /\ DistinctStamps => f.mtime = clock + 1
  <2>1. PICK m \in NewStamp : Edit(p, Missing(m), {})
    BY <1>4 DEF Remove
  <2>2. Missing(m) \in FileType /\ Missing(m).ver = 0
        /\ (DistinctStamps => Missing(m).mtime = clock + 1)
    BY DEF Missing
  <2> QED
    BY <2>1, <2>2
<1> QED
  BY <1>1, <1>2, <1>3, <1>4 DEF Operator

\* A thread's step keeps the types.
LEMMA TypeThreadStep ==
  ASSUME TypeOK, NEW t \in Threads, ThreadStep(t)
  PROVE  TypeOK'
<1>s. NoStat \in StatType /\ 0 \in Ruleset
  BY DEF NoStat, StatType, Ruleset
<1> USE <1>s DEF TypeOK, Return, call
<1>1. CASE StatFails(t)
  BY <1>1 DEF StatFails
<1>2. CASE Stat(t)
  <2>1. [mtime |-> file[path[t]].mtime, size |-> file[path[t]].len] \in StatType
    BY DEF StatType, FileType
  <2> QED
    BY <1>2, <2>1 DEF Stat
<1>3. CASE Lock(t)
  BY <1>3 DEF Lock
<1>4. CASE ScanHit(t)
  <2>1. PICK i \in DOMAIN cache : Return(t, cache[i].ruleset)
    BY <1>4 DEF ScanHit, Matches
  <2>2. cache[i].ruleset \in Ruleset
    BY <2>1, EntryInType
  <2> QED
    BY <1>4, <2>1, <2>2 DEF ScanHit
<1>5. CASE ScanMiss(t)
  BY <1>5 DEF ScanMiss
<1>6. CASE ReadFails(t)
  BY <1>6 DEF ReadFails, ShortRead
<1>7. CASE Read(t)
  BY <1>7, ParseType DEF Read
<1>8. CASE Install(t)
  <2>1. cache' \in Seq(EntryType)
    BY <1>8, InstallEffect
  <2> QED
    BY <1>8, <2>1 DEF Install
<1>9. CASE Finish(t)
  BY <1>9, AnyPathInPaths DEF Finish
<1>10. CASE IOError(t)
  BY <1>10 DEF IOError
<1> QED
  BY <1>1, <1>2, <1>3, <1>4, <1>5, <1>6, <1>7, <1>8, <1>9, <1>10 DEF ThreadStep

\* Every step keeps the types.
LEMMA TypeStep == TypeOK /\ [Next]_vars => TypeOK'
<1> SUFFICES ASSUME TypeOK, [Next]_vars PROVE TypeOK'
  OBVIOUS
<1>1. ASSUME NEW t \in Threads, NEW p \in Paths, Call(t, p)
      PROVE  TypeOK'
  BY <1>1, MeaningType DEF TypeOK, Call
<1>2. CASE Operator
  BY <1>2, OperatorEdits, TypeEdit
<1>3. CASE UNCHANGED vars
  BY <1>3 DEF TypeOK, vars
<1> QED
  BY <1>1, <1>2, <1>3, TypeThreadStep DEF Next

\* Every variable keeps its type, for any instance of the cache.
THEOREM TypeCorrect == Spec => []TypeOK
<1>1. Init => TypeOK
  BY TypeInit
<1>2. TypeOK /\ [Next]_vars => TypeOK'
  BY TypeStep
<1> QED
  BY <1>1, <1>2, PTL DEF Spec

-----------------------------------------------------------------------------
(* The invariant.                                                          *)

\* It holds of an empty list.
LEMMA RulesInvInit == Init => RulesInv
<1> SUFFICES ASSUME Init PROVE RulesInv
  OBVIOUS
<1>1. \A p \in Paths : file[p].mtime <= clock /\ (file[p].ver # 0 => file[p].len <= Size[file[p].ver])
  BY VersionAssumption DEF Init, Missing
<1> QED
  BY <1>1, TypeInit
  DEF Init, RulesInv, OneEntryPerPath, StampsInOrder, StampVouches, WindowOpen,
      NewerIsInWindow, ResultIsRecent, AfterStat, AfterRead

\* Call preserves every part of the invariant.
LEMMA CallInv ==
  ASSUME RulesInv, TypeOK', NEW t \in Threads, NEW p \in Paths, Call(t, p)
  PROVE  RulesInv'
<1> USE DEF RulesInv, TypeOK, AfterStat, AfterRead, Call
<1>1. OneEntryPerPath'
  BY DEF OneEntryPerPath
<1>2. StampsInOrder'
  BY DEF StampsInOrder
<1>3. StampVouches'
  BY DEF StampVouches
<1>4. WindowOpen'
  BY DEF WindowOpen
<1>5. NewerIsInWindow'
  BY DEF NewerIsInWindow
<1>6. ResultIsRecent'
  BY DEF ResultIsRecent
<1> QED
  BY <1>1, <1>2, <1>3, <1>4, <1>5, <1>6 DEF RulesInv

\* StatFails preserves every part of the invariant.
LEMMA StatFailsInv ==
  ASSUME RulesInv, TypeOK', NEW t \in Threads, StatFails(t)
  PROVE  RulesInv'
<1> USE DEF RulesInv, TypeOK, AfterStat, AfterRead, StatFails, Return
<1>1. OneEntryPerPath'
  BY DEF OneEntryPerPath
<1>2. StampsInOrder'
  BY DEF StampsInOrder
<1>3. StampVouches'
  BY DEF StampVouches
<1>4. WindowOpen'
  BY DEF WindowOpen
<1>5. NewerIsInWindow'
  BY DEF NewerIsInWindow
<1>6. ResultIsRecent'
  BY DEF ResultIsRecent, WindowOpen, Meaning
<1> QED
  BY <1>1, <1>2, <1>3, <1>4, <1>5, <1>6 DEF RulesInv

\* Stat preserves every part of the invariant.
LEMMA StatInv ==
  ASSUME RulesInv, TypeOK', NEW t \in Threads, Stat(t)
  PROVE  RulesInv'
<1> USE DEF RulesInv, TypeOK, AfterStat, AfterRead, Stat, EntryType, StatType, FileType
<1>e. \A i \in DOMAIN cache : cache[i].path \in Paths /\ cache[i].mtime \in Nat
  BY EntryInType
<1>f. /\ \A x \in Threads : st[x].mtime \in Nat
      /\ \A q \in Paths : file[q].mtime \in Nat
  BY DEF StatType, FileType
<1>w. Meaning(file[path[t]]) \in window[t]
  BY DEF WindowOpen
<1>1. OneEntryPerPath'
  BY DEF OneEntryPerPath
<1>2. StampsInOrder'
  BY DEF StampsInOrder
<1>3. StampVouches'
  BY DEF StampVouches
<1>4. WindowOpen'
  BY DEF WindowOpen
<1>5. NewerIsInWindow'
  <2>1. ASSUME NEW i \in DOMAIN cache, cache[i].path = path[t],
               cache[i].mtime >= file[path[t]].mtime
        PROVE  cache[i].ruleset \in window[t]
    <3>1. cache[i].mtime <= file[path[t]].mtime
      BY <2>1 DEF StampsInOrder
    <3>2. cache[i].mtime \in Nat /\ file[path[t]].mtime \in Nat
      BY <1>e, <1>f
    <3>3. cache[i].mtime = file[path[t]].mtime
      BY ONLY <2>1, <3>1, <3>2
    <3>4. cache[i].ruleset = Meaning(file[path[t]])
      BY <2>1, <3>3 DEF StampVouches
    <3> QED
      BY <1>w, <3>4
  <2>2. ASSUME NEW u \in Threads, pc[u] \in AfterRead, path[u] = path[t],
               st[u].mtime >= file[path[t]].mtime
        PROVE  fresh[u] \in window[t]
    <3>1. st[u].mtime = file[path[t]].mtime
      BY <1>f, <2>2 DEF StampsInOrder
    <3>2. fresh[u] = Meaning(file[path[t]])
      BY <2>2, <3>1 DEF StampVouches
    <3> QED
      BY <1>w, <3>2
  <2> QED
    BY <2>1, <2>2 DEF NewerIsInWindow
<1>6. ResultIsRecent'
  BY DEF ResultIsRecent
<1> QED
  BY <1>1, <1>2, <1>3, <1>4, <1>5, <1>6 DEF RulesInv

\* Lock preserves every part of the invariant.
LEMMA LockInv ==
  ASSUME RulesInv, TypeOK', NEW t \in Threads, Lock(t)
  PROVE  RulesInv'
<1> USE DEF RulesInv, TypeOK, AfterStat, AfterRead, Lock, call
<1>1. OneEntryPerPath'
  BY DEF OneEntryPerPath
<1>2. StampsInOrder'
  BY DEF StampsInOrder
<1>3. StampVouches'
  BY DEF StampVouches
<1>4. WindowOpen'
  BY DEF WindowOpen
<1>5. NewerIsInWindow'
  BY DEF NewerIsInWindow
<1>6. ResultIsRecent'
  BY DEF ResultIsRecent
<1> QED
  BY <1>1, <1>2, <1>3, <1>4, <1>5, <1>6 DEF RulesInv

\* ScanHit preserves every part of the invariant.
LEMMA ScanHitInv ==
  ASSUME RulesInv, TypeOK', NEW t \in Threads, ScanHit(t)
  PROVE  RulesInv'
<1> USE DEF RulesInv, TypeOK, AfterStat, AfterRead
<1>e. \A i \in DOMAIN cache : cache[i].path \in Paths /\ cache[i].mtime \in Nat
  BY EntryInType
<1>f. /\ \A x \in Threads : st[x].mtime \in Nat
      /\ \A q \in Paths : file[q].mtime \in Nat
  BY DEF StatType, FileType
<1>u. /\ pc[t] = "scan" /\ pc' = [pc EXCEPT ![t] = "done"]
      /\ st' = [st EXCEPT ![t] = NoStat] /\ fresh' = [fresh EXCEPT ![t] = 0]
      /\ UNCHANGED <<file, clock, cache, path, window>>
  BY DEF ScanHit, Return
<1>1. OneEntryPerPath'
  BY <1>u DEF OneEntryPerPath
<1>2. StampsInOrder'
  BY <1>u DEF StampsInOrder
<1>3. StampVouches'
  BY <1>u DEF StampVouches
<1>4. WindowOpen'
  BY <1>u DEF WindowOpen
<1>5. NewerIsInWindow'
  BY <1>u DEF NewerIsInWindow
<1>6. ResultIsRecent'
  <2>1. PICK i \in DOMAIN cache :
          /\ cache[i].path = path[t] /\ cache[i].mtime = st[t].mtime
          /\ result' = [result EXCEPT ![t] = cache[i].ruleset]
    BY DEF ScanHit, Return, Matches
  <2>2. cache[i].ruleset \in window[t]
    <3>1. cache[i].mtime >= st[t].mtime
      BY <1>f, <2>1
    <3> QED
      BY <1>u, <2>1, <3>1 DEF NewerIsInWindow
  <2> QED
    BY <1>u, <2>1, <2>2 DEF ResultIsRecent
<1> QED
  BY <1>1, <1>2, <1>3, <1>4, <1>5, <1>6 DEF RulesInv

\* ScanMiss preserves every part of the invariant.
LEMMA ScanMissInv ==
  ASSUME RulesInv, TypeOK', NEW t \in Threads, ScanMiss(t)
  PROVE  RulesInv'
<1> USE DEF RulesInv, TypeOK, AfterStat, AfterRead, ScanMiss, call
<1>1. OneEntryPerPath'
  BY DEF OneEntryPerPath
<1>2. StampsInOrder'
  BY DEF StampsInOrder
<1>3. StampVouches'
  BY DEF StampVouches
<1>4. WindowOpen'
  BY DEF WindowOpen
<1>5. NewerIsInWindow'
  BY DEF NewerIsInWindow
<1>6. ResultIsRecent'
  BY DEF ResultIsRecent
<1> QED
  BY <1>1, <1>2, <1>3, <1>4, <1>5, <1>6 DEF RulesInv

\* ReadFails preserves every part of the invariant.
LEMMA ReadFailsInv ==
  ASSUME RulesInv, TypeOK', NEW t \in Threads, ReadFails(t)
  PROVE  RulesInv'
<1> USE DEF RulesInv, TypeOK, AfterStat, AfterRead, ReadFails, ShortRead, Return, EntryType, StatType, FileType
<1>1. OneEntryPerPath'
  BY DEF OneEntryPerPath
<1>2. StampsInOrder'
  BY DEF StampsInOrder
<1>3. StampVouches'
  BY DEF StampVouches
<1>4. WindowOpen'
  BY DEF WindowOpen
<1>5. NewerIsInWindow'
  BY DEF NewerIsInWindow
<1>6. ResultIsRecent'
  <2>1. 0 \in window[t]
    BY DEF WindowOpen, StampsInOrder, StampVouches, Meaning
  <2> QED
    BY <2>1 DEF ResultIsRecent
<1> QED
  BY <1>1, <1>2, <1>3, <1>4, <1>5, <1>6 DEF RulesInv

\* IOError preserves every part of the invariant.
LEMMA IOErrorInv ==
  ASSUME RulesInv, TypeOK', NEW t \in Threads, IOError(t)
  PROVE  RulesInv'
<1> USE DEF RulesInv, TypeOK, AfterStat, AfterRead, IOError, Return, EntryType, StatType, FileType
<1>1. OneEntryPerPath'
  BY DEF OneEntryPerPath
<1>2. StampsInOrder'
  BY DEF StampsInOrder
<1>3. StampVouches'
  BY DEF StampVouches
<1>4. WindowOpen'
  BY DEF WindowOpen
<1>5. NewerIsInWindow'
  BY DEF NewerIsInWindow
<1>6. ResultIsRecent'
  BY DEF ResultIsRecent
<1> QED
  BY <1>1, <1>2, <1>3, <1>4, <1>5, <1>6 DEF RulesInv

\* Read preserves every part of the invariant.
LEMMA ReadInv ==
  ASSUME RulesInv, TypeOK', NEW t \in Threads, Read(t)
  PROVE  RulesInv'
<1> USE DEF RulesInv, TypeOK, AfterStat, AfterRead, Read, EntryType, StatType, FileType
<1>p. /\ fresh'[t] \in {0, Meaning(file[path[t]])}
      /\ st[t].mtime = file[path[t]].mtime => fresh'[t] = Meaning(file[path[t]])
  BY ParsePrefix DEF StampsInOrder, StampVouches
<1>1. OneEntryPerPath'
  BY DEF OneEntryPerPath
<1>2. StampsInOrder'
  BY DEF StampsInOrder
<1>3. StampVouches'
  BY <1>p DEF StampVouches
<1>4. WindowOpen'
  BY DEF WindowOpen
<1>5. NewerIsInWindow'
  <2>1. ASSUME NEW x \in Threads, pc'[x] \in AfterStat, path[x] = path[t],
               st[t].mtime >= st[x].mtime
        PROVE  fresh'[t] \in window[x]
    BY <1>p, <2>1 DEF WindowOpen, StampsInOrder
  <2> QED
    BY <2>1 DEF NewerIsInWindow
<1>6. ResultIsRecent'
  BY DEF ResultIsRecent
<1> QED
  BY <1>1, <1>2, <1>3, <1>4, <1>5, <1>6 DEF RulesInv

\* Install preserves every part of the invariant.
LEMMA InstallInv ==
  ASSUME RulesInv, TypeOK', NEW t \in Threads, Install(t)
  PROVE  RulesInv'
<1> USE DEF RulesInv, TypeOK, AfterStat, AfterRead, Return, EntryType, StatType, FileType
<1>c. /\ \A i \in DOMAIN cache' :
           cache'[i] = Loaded(t) \/ (i \in DOMAIN cache /\ cache'[i] = cache[i])
      /\ OneEntryPerPath => OneEntryPerPath'
  BY InstallEffect
<1>l. /\ Loaded(t).path = path[t] /\ Loaded(t).mtime = st[t].mtime
      /\ Loaded(t).ruleset = fresh[t]
  BY DEF Loaded
<1>u. /\ pc[t] = "install" /\ pc' = [pc EXCEPT ![t] = "done"]
      /\ result' = [result EXCEPT ![t] = fresh[t]]
      /\ st' = [st EXCEPT ![t] = NoStat] /\ fresh' = [fresh EXCEPT ![t] = 0]
      /\ UNCHANGED <<file, clock, path, window, edits>>
  BY DEF Install
<1>v. st[t].mtime = file[path[t]].mtime => fresh[t] = Meaning(file[path[t]])
  BY <1>u DEF StampVouches
<1>n. \A x \in Threads : pc'[x] \in AfterStat /\ path[x] = path[t] /\ st[t].mtime >= st[x].mtime
        => fresh[t] \in window[x]
  BY <1>u DEF NewerIsInWindow
<1>1. OneEntryPerPath'
  BY <1>c
<1>2. StampsInOrder'
  BY <1>c, <1>l, <1>u DEF StampsInOrder
<1>3. StampVouches'
  <2>1. ASSUME NEW i \in DOMAIN cache', cache'[i].mtime = file[cache'[i].path].mtime
        PROVE  cache'[i].ruleset = Meaning(file[cache'[i].path])
    <3>1. CASE cache'[i] = Loaded(t)
      BY ONLY <1>l, <1>v, <2>1, <3>1
    <3>2. CASE i \in DOMAIN cache /\ cache'[i] = cache[i]
      BY <2>1, <3>2 DEF StampVouches
    <3> QED
      BY <1>c, <3>1, <3>2
  <2>2. file' = file
    BY <1>u
  <2> QED
    BY <1>u, <2>1, <2>2 DEF StampVouches, Meaning
<1>4. WindowOpen'
  BY <1>u DEF WindowOpen
<1>5. NewerIsInWindow'
  <2>1. ASSUME NEW x \in Threads, pc'[x] \in AfterStat, NEW i \in DOMAIN cache',
               cache'[i].path = path[x], cache'[i].mtime >= st[x].mtime
        PROVE  cache'[i].ruleset \in window[x]
    <3>1. CASE cache'[i] = Loaded(t)
      BY ONLY <1>l, <1>n, <2>1, <3>1
    <3>2. CASE i \in DOMAIN cache /\ cache'[i] = cache[i]
      BY <1>u, <2>1, <3>2 DEF NewerIsInWindow
    <3> QED
      BY <1>c, <2>1, <3>1, <3>2
  <2> QED
    BY <1>u, <2>1 DEF NewerIsInWindow
<1>6. ResultIsRecent'
  BY <1>u DEF ResultIsRecent, NewerIsInWindow
<1> QED
  BY <1>1, <1>2, <1>3, <1>4, <1>5, <1>6 DEF RulesInv

\* Finish preserves every part of the invariant.
LEMMA FinishInv ==
  ASSUME RulesInv, TypeOK', NEW t \in Threads, Finish(t)
  PROVE  RulesInv'
<1> USE DEF RulesInv, TypeOK, AfterStat, AfterRead, Finish
<1>1. OneEntryPerPath'
  BY DEF OneEntryPerPath
<1>2. StampsInOrder'
  BY DEF StampsInOrder
<1>3. StampVouches'
  BY DEF StampVouches
<1>4. WindowOpen'
  BY DEF WindowOpen
<1>5. NewerIsInWindow'
  BY DEF NewerIsInWindow
<1>6. ResultIsRecent'
  BY DEF ResultIsRecent
<1> QED
  BY <1>1, <1>2, <1>3, <1>4, <1>5, <1>6 DEF RulesInv

\* Edit preserves every part of the invariant.
LEMMA EditInv ==
  ASSUME RulesInv, TypeOK', NEW p \in Paths, NEW f \in FileType,
         NEW R \in SUBSET Reading(p), Edit(p, f, R),
         f.mtime = clock + 1, f.ver # 0 => f.len <= Size[f.ver]
  PROVE  RulesInv'
<1> USE DEF RulesInv, TypeOK, AfterStat, AfterRead
<1>e. \A i \in DOMAIN cache : cache[i].path \in Paths /\ cache[i].mtime \in Nat
  BY EntryInType
<1>f. /\ \A x \in Threads : st[x].mtime \in Nat
      /\ \A q \in Paths : file[q].mtime \in Nat
  BY DEF StatType, FileType
<1>u. /\ file' = [file EXCEPT ![p] = f] /\ clock' = f.mtime
      /\ UNCHANGED <<mutex, cache, pc, path, st, result>>
  BY DEF Edit
<1>k. clock \in Nat /\ f.mtime \in Nat
  BY DEF FileType
<1>t. PICK torn \in [R -> Ruleset] :
        /\ fresh' = [t \in Threads |-> IF t \in R THEN torn[t] ELSE fresh[t]]
        /\ window' = [t \in Threads |->
                         IF pc[t] # "idle" /\ path[t] = p
                         THEN window[t] \cup {0, Meaning(f)} \cup {torn[u] : u \in R}
                         ELSE window[t]]
  BY DEF Edit
<1>r. \A t \in Threads : t \in R => path[t] = p
  BY DEF Reading
<1>m. /\ file'[p] = f
      /\ \A q \in Paths : q # p => file'[q] = file[q]
      /\ file[p].mtime < f.mtime
  BY <1>f, <1>k, <1>u DEF StampsInOrder
<1>w. \A t \in Threads : /\ window[t] \subseteq window'[t]
                         /\ pc[t] # "idle" /\ path[t] = p => {0, Meaning(f)} \subseteq window'[t]
  BY <1>t
<1>v. \A t, u \in Threads :
        pc[t] # "idle" /\ path[t] = path[u] /\ fresh[u] \in window[t] => fresh'[u] \in window'[t]
  BY <1>r, <1>t
<1>1. OneEntryPerPath'
  BY <1>u DEF OneEntryPerPath
<1>2. StampsInOrder'
  <2>1. \A q \in Paths : file'[q].mtime <= clock' /\ file[q].mtime <= file'[q].mtime
    BY <1>f, <1>k, <1>m, <1>u DEF StampsInOrder
  <2>2. \A i \in DOMAIN cache : cache[i].mtime <= file'[cache[i].path].mtime
    <3> SUFFICES ASSUME NEW i \in DOMAIN cache
                 PROVE  cache[i].mtime <= file'[cache[i].path].mtime
      OBVIOUS
    <3> DEFINE q == cache[i].path
    <3>1. q \in Paths /\ cache[i].mtime \in Nat /\ cache[i].mtime <= file[q].mtime
      BY <1>e DEF StampsInOrder
    <3>2. file'[q].mtime \in Nat /\ file[q].mtime \in Nat /\ file[q].mtime <= file'[q].mtime
      BY <1>f, <1>k, <1>m, <2>1, <3>1
    <3> HIDE DEF q
    <3>3. cache[i].mtime <= file'[q].mtime
      BY ONLY <3>1, <3>2
    <3> QED
      BY <3>3 DEF q
  <2> QED
    <3>1. \A q \in Paths : file'[q].ver # 0 => file'[q].len <= Size[file'[q].ver]
      BY <1>m DEF StampsInOrder
    <3>2. \A t \in Threads : pc[t] \in AfterStat => st[t].mtime <= file'[path[t]].mtime
      <4> SUFFICES ASSUME NEW t \in Threads, pc[t] \in AfterStat
                   PROVE  st[t].mtime <= file'[path[t]].mtime
        OBVIOUS
      <4>1. st[t].mtime <= file[path[t]].mtime /\ path[t] \in Paths
        BY DEF StampsInOrder
      <4>2. /\ st[t].mtime \in Nat /\ file[path[t]].mtime \in Nat
            /\ file'[path[t]].mtime \in Nat
        BY <1>f, <1>k, <1>m, <4>1
      <4>3. file[path[t]].mtime <= file'[path[t]].mtime
        BY <2>1, <4>1
      <4> QED
        BY ONLY <4>1, <4>2, <4>3
    <3> QED
      BY <1>u, <2>1, <2>2, <3>1, <3>2 DEF StampsInOrder
<1>3. StampVouches'
  <2>1. ASSUME NEW i \in DOMAIN cache, cache[i].mtime = file'[cache[i].path].mtime
        PROVE  cache[i].path # p
    <3>1. cache[i].mtime <= file[cache[i].path].mtime
      BY DEF StampsInOrder
    <3>2. cache[i].mtime \in Nat /\ file[p].mtime \in Nat /\ f.mtime \in Nat
      BY <1>e, <1>f, <1>k
    <3> QED
      BY ONLY <1>m, <2>1, <3>1, <3>2
  <2>2. ASSUME NEW t \in Threads, pc[t] \in AfterStat, st[t].mtime = file'[path[t]].mtime
        PROVE  path[t] # p
    BY <1>f, <1>k, <1>m, <2>2 DEF StampsInOrder
  <2>3. \A i \in DOMAIN cache : cache[i].path \in Paths
    BY EntryInType
  <2> QED
    <3>1. ASSUME NEW i \in DOMAIN cache, cache[i].mtime = file'[cache[i].path].mtime
          PROVE  cache[i].ruleset = Meaning(file'[cache[i].path])
      BY <1>m, <2>1, <2>3, <3>1 DEF StampVouches
    <3>2. ASSUME NEW t \in Threads, pc[t] \in AfterStat, st[t].mtime = file'[path[t]].mtime
          PROVE  /\ file'[path[t]].ver # 0
                 /\ st[t].size = file'[path[t]].len
                 /\ pc[t] \in AfterRead => fresh'[t] = Meaning(file'[path[t]])
      <4>1. path[t] # p /\ path[t] \in Paths /\ file'[path[t]] = file[path[t]]
        BY <1>m, <2>2, <3>2
      <4>2. fresh'[t] = fresh[t]
        BY <1>r, <1>t, <4>1
      <4> QED
        BY <3>2, <4>1, <4>2 DEF StampVouches
    <3>3. /\ \A i \in DOMAIN cache' : Meaning(file[cache[i].path])' = Meaning(file'[cache[i].path])
          /\ \A t \in Threads : Meaning(file[path[t]])' = Meaning(file'[path[t]])
      BY <1>u DEF Meaning
    <3> QED
      BY <1>u, <3>1, <3>2, <3>3 DEF StampVouches
<1>4. WindowOpen'
  BY <1>m, <1>u, <1>w DEF WindowOpen, Meaning
<1>5. NewerIsInWindow'
  BY <1>u, <1>v, <1>w DEF NewerIsInWindow
<1>6. ResultIsRecent'
  BY <1>u, <1>w DEF ResultIsRecent
<1> QED
  BY <1>1, <1>2, <1>3, <1>4, <1>5, <1>6 DEF RulesInv

\* Every step preserves the invariant.
LEMMA RulesInvStep ==
  ASSUME DistinctStamps, RulesInv, [Next]_vars
  PROVE  RulesInv'
<1>t. TypeOK'
  BY TypeStep DEF RulesInv
<1>1. ASSUME NEW t \in Threads, NEW p \in Paths, Call(t, p)
      PROVE  RulesInv'
  BY <1>t, <1>1, CallInv
<1>2. ASSUME NEW t \in Threads, ThreadStep(t)
      PROVE  RulesInv'
  BY <1>t, <1>2, StatFailsInv, StatInv, LockInv, ScanHitInv, ScanMissInv, ReadFailsInv,
     ReadInv, IOErrorInv, InstallInv, FinishInv DEF ThreadStep
<1>3. CASE Operator
  <2>1. PICK p \in Paths, f \in FileType :
          /\ \E R \in SUBSET Reading(p) : Edit(p, f, R)
          /\ f.ver # 0 => f.len <= Size[f.ver]
          /\ f.mtime = clock + 1
    BY <1>3, OperatorEdits DEF RulesInv
  <2> QED
    BY <1>t, <2>1, EditInv
<1>4. CASE UNCHANGED vars
  BY <1>4 DEF vars, RulesInv, TypeOK, OneEntryPerPath, StampsInOrder, StampVouches,
     WindowOpen, NewerIsInWindow, ResultIsRecent
<1> QED
  BY <1>1, <1>2, <1>3, <1>4 DEF Next

\* The invariant holds of every behaviour in which stamps are not repeated.
THEOREM RulesInvariant == ASSUME DistinctStamps PROVE Spec => []RulesInv
<1>1. Init => RulesInv
  BY RulesInvInit
<1>2. RulesInv /\ [Next]_vars => RulesInv'
  BY RulesInvStep
<1> QED
  BY <1>1, <1>2, PTL DEF Spec

\* get_ruleset_from_file is as good as reading the file at some moment of the
\* call, whatever the operator and the other threads do between its stat, its
\* two critical sections and its unlocked read.
THEOREM CallsSeeTheFile == ASSUME DistinctStamps PROVE Spec => []ResultIsRecent
<1>1. RulesInv => ResultIsRecent
  BY DEF RulesInv
<1> QED
  BY <1>1, RulesInvariant, PTL

\* A thread that installs what it parsed under an outdated stamp never makes
\* later calls take it for the present file.
THEOREM CacheNeverStale == ASSUME DistinctStamps PROVE Spec => []CacheIsCurrent
<1>1. RulesInv => CacheIsCurrent
  BY DEF RulesInv, StampVouches, CacheIsCurrent
<1> QED
  BY <1>1, RulesInvariant, PTL

\* Only an install changes the list, and it keeps one entry per path.
LEMMA OneEntryStep ==
  ASSUME TypeOK, OneEntryPerPath, [Next]_vars
  PROVE  OneEntryPerPath'
<1> SUFFICES ASSUME cache' # cache PROVE OneEntryPerPath'
  BY DEF OneEntryPerPath
<1>1. \A t \in Threads : ThreadStep(t) => Install(t)
  BY DEF ThreadStep, StatFails, Stat, Lock, ScanHit, ScanMiss, ReadFails, Read, IOError, Finish
<1>2. \A t \in Threads, p \in Paths : ~Call(t, p)
  BY DEF Call
<1>3. ~Operator
  BY OperatorEdits DEF Edit
<1>4. PICK t \in Threads : Install(t)
  BY <1>1, <1>2, <1>3 DEF Next, vars
<1> QED
  BY <1>4, InstallEffect

\* Threads that miss together on one path leave one entry, whatever the edits'
\* stamps.
THEOREM NoDuplicateEntries == Spec => []OneEntryPerPath
<1>1. Init => OneEntryPerPath
  BY DEF Init, OneEntryPerPath
<1>2. TypeOK /\ OneEntryPerPath /\ [Next]_vars => OneEntryPerPath'
  BY OneEntryStep
<1> QED
  BY <1>1, <1>2, TypeCorrect, PTL DEF Spec

-----------------------------------------------------------------------------
(* The cache implements RulesFile.                                         *)

\* A thread that returns, by any of the four ways, gives an answer the file
\* allows.
LEMMA ReturnAnswers ==
  ASSUME TypeOK, ResultIsRecent', NEW t \in Threads, NEW r,
         pc[t] \notin {"idle", "done"}, Return(t, r),
         UNCHANGED <<file, path, window>>
  PROVE  Uncached!Answer(t)
<1> USE DEF TypeOK, Return
<1>1. r \in window[t] /\ result' = [result EXCEPT ![t] = r]
  BY DEF ResultIsRecent
<1>2. [u \in Threads |-> Phase(u)]' = [[u \in Threads |-> Phase(u)] EXCEPT ![t] = "done"]
  BY DEF Phase
<1>3. [u \in Threads |-> Phase(u)][t] = "busy"
  BY DEF Phase
<1> QED
  BY <1>1, <1>2, <1>3 DEF Uncached!Answer

\* The steps between are invisible.
LEMMA InnerStutters ==
  ASSUME TypeOK, NEW t \in Threads, Stat(t) \/ Lock(t) \/ ScanMiss(t) \/ Read(t)
  PROVE  UNCHANGED Uncached!vars
<1>1. UNCHANGED <<file, path, window, result>>
  BY DEF Stat, Lock, ScanMiss, Read, call
<1>2. \A u \in Threads : Phase(u)' = Phase(u)
  BY DEF TypeOK, Phase, Stat, Lock, ScanMiss, Read
<1> QED
  BY <1>1, <1>2 DEF Uncached!vars

\* A call begins as RulesFile says.
LEMMA CallAsks ==
  ASSUME TypeOK, NEW t \in Threads, NEW p \in Paths, Call(t, p)
  PROVE  Uncached!Ask(t, p)
<1> USE DEF TypeOK, Call
<1>1. /\ Phase(t) = "idle"
      /\ [u \in Threads |-> Phase(u)]' = [[u \in Threads |-> Phase(u)] EXCEPT ![t] = "busy"]
  BY DEF Phase
<1> QED
  BY <1>1 DEF Uncached!Ask

\* And so does it end.
LEMMA FinishLeaves ==
  ASSUME TypeOK, NEW t \in Threads, Finish(t)
  PROVE  Uncached!Leave(t, AnyPath)
<1> USE DEF TypeOK, Finish
<1>1. /\ Phase(t) = "done"
      /\ [u \in Threads |-> Phase(u)]' = [[u \in Threads |-> Phase(u)] EXCEPT ![t] = "idle"]
  BY DEF Phase
<1> QED
  BY <1>1 DEF Uncached!Leave

\* An edit changes what the file means and nothing a caller has been told.
LEMMA EditChanges ==
  ASSUME TypeOK, NEW p \in Paths, NEW f \in FileType, NEW R \in SUBSET Reading(p),
         Edit(p, f, R)
  PROVE  \E mixtures \in SUBSET Ruleset : Uncached!Change(p, Meaning(f), mixtures)
<1> USE DEF TypeOK
<1>t. PICK torn \in [R -> Ruleset] :
        window' = [t \in Threads |->
                     IF pc[t] # "idle" /\ path[t] = p
                     THEN window[t] \cup {0, Meaning(f)} \cup {torn[u] : u \in R}
                     ELSE window[t]]
  BY DEF Edit
<1> DEFINE mixtures == {torn[u] : u \in R}
<1>s. mixtures \in SUBSET Ruleset
  OBVIOUS
<1>u. file' = [file EXCEPT ![p] = f] /\ UNCHANGED <<pc, path, result>>
  BY DEF Edit
<1>1. [q \in Paths |-> Meaning(file[q])]'
        = [[q \in Paths |-> Meaning(file[q])] EXCEPT ![p] = Meaning(f)]
  BY <1>u
<1>2. [u \in Threads |-> Phase(u)]' = [u \in Threads |-> Phase(u)]
  BY <1>u DEF Phase
<1>3. \A u \in Threads : Phase(u) # "idle" <=> pc[u] # "idle"
  BY DEF Phase
<1>4. Uncached!Change(p, Meaning(f), mixtures)
  BY <1>t, <1>u, <1>1, <1>2, <1>3 DEF Uncached!Change
<1> QED
  BY <1>s, <1>4

\* A call that could not read the file fails as RulesFile says.
LEMMA ErrorFails ==
  ASSUME TypeOK, NEW t \in Threads, IOError(t)
  PROVE  Uncached!Fail(t)
<1> USE DEF TypeOK, IOError, Return
<1>1. /\ Phase(t) = "busy"
      /\ [u \in Threads |-> Phase(u)]' = [[u \in Threads |-> Phase(u)] EXCEPT ![t] = "done"]
  BY DEF Phase
<1> QED
  BY <1>1 DEF Uncached!Fail

\* Every step of the cache is a step of RulesFile or changes nothing in it.
LEMMA StepRefines ==
  ASSUME RulesInv, ResultIsRecent', [Next]_vars
  PROVE  [Uncached!Next]_(Uncached!vars)
<1> USE DEF RulesInv
<1>1. ASSUME NEW t \in Threads, NEW p \in Paths, Call(t, p)
      PROVE  Uncached!Next
  BY <1>1, CallAsks DEF Uncached!Next
<1>2. ASSUME NEW t \in Threads, StatFails(t) \/ ScanHit(t) \/ ReadFails(t) \/ Install(t)
      PROVE  Uncached!Next
  <2>1. PICK r : Return(t, r)
    BY <1>2 DEF StatFails, ScanHit, ReadFails, Install
  <2>2. pc[t] \notin {"idle", "done"} /\ UNCHANGED <<file, path, window>>
    BY <1>2 DEF StatFails, ScanHit, ReadFails, ShortRead, Install
  <2>3. Uncached!Answer(t)
    BY <2>1, <2>2, ReturnAnswers
  <2> QED
    BY <2>3 DEF Uncached!Next
<1>3. ASSUME NEW t \in Threads, Stat(t) \/ Lock(t) \/ ScanMiss(t) \/ Read(t)
      PROVE  UNCHANGED Uncached!vars
  BY <1>3, InnerStutters
<1>4. ASSUME NEW t \in Threads, Finish(t)
      PROVE  Uncached!Next
  BY <1>4, FinishLeaves, AnyPathInPaths DEF Uncached!Next
<1>5. CASE Operator
  <2>1. PICK p \in Paths, f \in FileType : \E R \in SUBSET Reading(p) : Edit(p, f, R)
    BY <1>5, OperatorEdits
  <2>2. \E mixtures \in SUBSET Ruleset : Uncached!Change(p, Meaning(f), mixtures)
    BY <2>1, EditChanges
  <2>3. Meaning(f) \in Ruleset
    BY MeaningType
  <2> QED
    BY <2>2, <2>3 DEF Uncached!Next
<1>6. ASSUME NEW t \in Threads, IOError(t)
      PROVE  Uncached!Next
  BY <1>6, ErrorFails DEF Uncached!Next
<1>7. CASE UNCHANGED vars
  BY <1>7 DEF vars, Uncached!vars, Phase
<1> QED
  BY <1>1, <1>2, <1>3, <1>4, <1>5, <1>6, <1>7 DEF Next, ThreadStep

\* An empty cache is a fresh RulesFile.
LEMMA InitRefines == Init => Uncached!Init
<1> SUFFICES ASSUME Init PROVE Uncached!Init
  OBVIOUS
<1>1. [p \in Paths |-> Meaning(file[p])] \in [Paths -> Ruleset]
  BY MeaningType
<1>2. [t \in Threads |-> Phase(t)] = [t \in Threads |-> "idle"]
  BY DEF Init, Phase
<1> QED
  BY <1>1, <1>2, AnyPathInPaths DEF Init, Uncached!Init

\* For any number of threads, files and edits, as long as no edit repeats a
\* stamp, callers cannot tell the cache from reading the file every time.
THEOREM CacheRefinesFile == ASSUME DistinctStamps PROVE Spec => CacheIsInvisible
<1>1. Init => Uncached!Init
  BY InitRefines
<1>2. RulesInv /\ RulesInv' /\ [Next]_vars => [Uncached!Next]_(Uncached!vars)
  BY StepRefines DEF RulesInv
<1> QED
  BY <1>1, <1>2, RulesInvariant, PTL DEF Spec, CacheIsInvisible, Uncached!Spec
=============================================================================
