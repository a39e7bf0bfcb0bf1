-------------------------- MODULE EntryStoreProofs --------------------------
(***************************************************************************)
(* Safety of the entry store for any number of keys, hosts, workers and    *)
(* purges and any bounds.                                                  *)
(***************************************************************************)
EXTENDS EntryStore, TLAPS

\* The key an idle worker is given is a key.
LEMMA AnyKeyInKeys == AnyKey \in Keys
  BY KeysAssumption DEF AnyKey

\* The initial state is well typed.
LEMMA TypeInit == Init => TypeOK
  BY AnyKeyInKeys DEF Init, TypeOK, HeaderType, NoHeader, CommandType, NoCmd

\* A request that ends, or whose process dies, leaves a well-typed worker.
LEMMA TypeRelease ==
  ASSUME TypeOK, NEW w \in Workers, Release(w)
  PROVE  /\ pc' \in [Workers -> {"idle", "lookup", "open", "hit", "declined",
                           "capture", "publish", "rename", "sent"}]
         /\ rkey' \in [Workers -> Keys]
         /\ header_only' \in [Workers -> BOOLEAN]
         /\ rgen' \in [Workers -> Nat]
         /\ rbody' \in [Workers -> Nat]
         /\ headers_out' \in [Workers -> SUBSET Nat]
  BY AnyKeyInKeys DEF TypeOK, Release

\* A command that ends, or is killed, leaves a well-typed purge.
LEMMA TypeEndCommand ==
  ASSUME TypeOK, NEW v \in Walkers, EndCommand(v)
  PROVE  /\ wpc' \in [Walkers -> {"idle", "walk", "delbody", "delhdr", "sweep"}]
         /\ cmd' \in [Walkers -> CommandType]
         /\ seen' \in [Walkers -> SUBSET Keys]
         /\ snap' \in [Walkers -> [Keys -> Nat]]
         /\ cur' \in [Walkers -> Keys]
  BY AnyKeyInKeys DEF TypeOK, EndCommand, NoCmd, CommandType

\* The record of a completed walk is well typed.
LEMMA TypeCompleted ==
  ASSUME TypeOK, NEW v \in Walkers, NEW f \in {"header", "body"}
  PROVE  Completed(v, f) \in DoneType
  BY DEF TypeOK, Completed, DoneType

\* A worker's step keeps the types.
LEMMA TypeWorkerStep ==
  ASSUME TypeOK, NEW w \in Workers, WorkerStep(w)
  PROVE  TypeOK'
<1> USE BoundsAssumption DEF TypeOK, files, request, worker, walker, history
<1>1. CASE LookupReplay(w)
  BY <1>1 DEF LookupReplay, HeaderType
<1>2. CASE LookupMiss(w)
  BY <1>2 DEF LookupMiss
<1>3. CASE LookupOpenBody(w)
  BY <1>3 DEF LookupOpenBody
<1>4. CASE LookupNoBody(w)
  BY <1>4 DEF LookupNoBody
<1>5. CASE GenerateUncaptured(w)
  BY <1>5 DEF GenerateUncaptured, Generate
<1>6. CASE OutputFilterStart(w)
  BY <1>6 DEF OutputFilterStart, Generate
<1>7. CASE FilterAbandon(w)
  BY <1>7 DEF FilterAbandon
<1>8. CASE FinalizeWriteHeader(w)
  <2>1. [gen |-> rgen[w], key |-> rkey[w], expires |-> now + TTL,
         from |-> headers_out[w]] \in TempType
    BY DEF TempType
  <2> QED
    BY <1>8, <2>1 DEF FinalizeWriteHeader
<1>9. CASE FinalizeRenameBody(w)
  BY <1>9 DEF FinalizeRenameBody
<1>10. CASE FinalizeRenameHeader(w)
  <2>1. PICK t \in tmp_header :
          header' = [header EXCEPT ![rkey[w]] =
                       [gen |-> t.gen, expires |-> t.expires, from |-> t.from]]
    BY <1>10 DEF FinalizeRenameHeader, TempHeaders
  <2>2. header' \in [Keys -> HeaderType]
    BY <2>1 DEF HeaderType, TempType
  <2> QED
    BY <1>10, <2>2 DEF FinalizeRenameHeader
<1>11. CASE FinalizeFail(w)
  BY <1>11 DEF FinalizeFail
<1>12. CASE FinishRequest(w)
  BY <1>12, TypeRelease DEF FinishRequest
<1> QED
  BY <1>1, <1>2, <1>3, <1>4, <1>5, <1>6, <1>7, <1>8, <1>9, <1>10, <1>11, <1>12
  DEF WorkerStep

\* A purge's step keeps the types.
LEMMA TypeWalkerStep ==
  ASSUME TypeOK, NEW v \in Walkers, WalkerStep(v)
  PROVE  TypeOK'
<1> USE DEF TypeOK, files, request, worker, walker, history
<1>1. ASSUME NEW k \in Keys, VisitEntry(v, k)
      PROVE  TypeOK'
  BY <1>1 DEF VisitEntry
<1>2. ASSUME NEW k \in Keys, SweepBody(v, k)
      PROVE  TypeOK'
  BY <1>2 DEF SweepBody
<1>3. CASE VisitTempHeader(v)
  BY <1>3 DEF VisitTempHeader
<1>4. CASE DeleteEntryBody(v)
  BY <1>4 DEF DeleteEntryBody
<1>5. CASE DeleteEntryHeader(v)
  BY <1>5, AnyKeyInKeys DEF DeleteEntryHeader, NoHeader, HeaderType
<1>6. CASE EndWalk(v)
  BY <1>6, TypeEndCommand, TypeCompleted DEF EndWalk
<1>7. CASE StartSweep(v)
  BY <1>7, TypeCompleted DEF StartSweep
<1>8. CASE EndSweep(v)
  BY <1>8, TypeEndCommand, TypeCompleted DEF EndSweep
<1> QED
  BY <1>1, <1>2, <1>3, <1>4, <1>5, <1>6, <1>7, <1>8 DEF WalkerStep

\* Every step keeps the types.
LEMMA TypeStep == TypeOK /\ [Next]_vars => TypeOK'
<1> SUFFICES ASSUME TypeOK, [Next]_vars PROVE TypeOK'
  OBVIOUS
<1> USE DEF TypeOK, files, request, worker, walker, history
<1>1. ASSUME NEW w \in Workers, NEW k \in Keys, NEW head \in BOOLEAN,
             StartRequest(w, k, head)
      PROVE  TypeOK'
  BY <1>1 DEF StartRequest
<1>2. ASSUME NEW w \in Workers, WorkerStep(w)
      PROVE  TypeOK'
  BY <1>2, TypeWorkerStep
<1>3. ASSUME NEW w \in Workers, CrashWorker(w)
      PROVE  TypeOK'
  <2>1. leaked' \subseteq Nat
    BY <1>3 DEF CrashWorker
  <2> QED
    BY <1>3, <2>1, TypeRelease DEF CrashWorker
<1>4. ASSUME NEW v \in Walkers, NEW c \in Commands, StartWalk(v, c)
      PROVE  TypeOK'
  <2>1. [k \in Keys |-> IF k \in Scope(c) THEN header[k].gen ELSE 0] \in [Keys -> Nat]
    BY DEF HeaderType
  <2> QED
    BY <1>4, <2>1, CommandAssumption DEF StartWalk
<1>5. ASSUME NEW v \in Walkers, WalkerStep(v)
      PROVE  TypeOK'
  BY <1>5, TypeWalkerStep
<1>6. ASSUME NEW v \in Walkers, CrashWalker(v)
      PROVE  TypeOK'
  BY <1>6, TypeEndCommand DEF CrashWalker
<1>7. CASE Tick
  BY <1>7 DEF Tick
<1>8. CASE UNCHANGED vars
  BY <1>8 DEF vars
<1> QED
  BY <1>1, <1>2, <1>3, <1>4, <1>5, <1>6, <1>7, <1>8 DEF Next, Quiescent

\* Every variable keeps its type, for any instance of the store.
THEOREM TypeCorrect == Spec => []TypeOK
<1>1. Init => TypeOK
  BY TypeInit
<1>2. TypeOK /\ [Next]_vars => TypeOK'
  BY TypeStep
<1> QED
  BY <1>1, <1>2, PTL DEF Spec

-----------------------------------------------------------------------------
(* The safety invariant.                                                   *)

\* An empty cache root satisfies the invariant.
LEMMA StoreInvInit == Init => StoreInv
  BY TypeInit
  DEF Init, StoreInv, TypeOK, OwnGeneration, TempsMatchStep, PublishedNotHeld,
      RememberedNotHeld, SeenIsGone, DeletesInScope, HeaderAfterBody, TempsAccounted,
      PurgedStaysGone, Held, Holding, NoHeader, TempHeaders

\* Steps that touch no file and no purge, and at most end a capture whose
\* files are then known to be leaked.
Quiet ==
    /\ UNCHANGED <<header, body, tmp_body, tmp_header, wpc, cmd, seen, snap, cur, done>>
    /\ lastGen <= lastGen'
    /\ leaked \subseteq leaked'
    /\ \A w \in Workers :
         /\ rgen'[w] <= lastGen'
         /\ pc'[w] \in Holding => pc'[w] = pc[w] /\ rgen'[w] = rgen[w]
         /\ pc[w] \in Holding =>
              (pc'[w] = pc[w] /\ rgen'[w] = rgen[w]) \/ rgen[w] \in leaked'

\* A quiet step preserves every part of the invariant.
LEMMA QuietStep ==
  ASSUME StoreInv, TypeOK', Quiet
  PROVE  StoreInv'
<1> USE DEF StoreInv, TypeOK, Holding, Quiet, files, request, worker, walker, history
<1>1. OwnGeneration'
  BY DEF OwnGeneration, HeaderType, TempType
<1>2. TempsMatchStep'
  BY DEF TempsMatchStep, TempHeaders
<1>3. PublishedNotHeld'
  BY DEF PublishedNotHeld, Held, HeaderType
<1>4. RememberedNotHeld'
  BY DEF RememberedNotHeld, Held, DoneType
<1>5. SeenIsGone'
  BY DEF SeenIsGone
<1>6. DeletesInScope'
  BY DEF DeletesInScope, Scope
<1>7. HeaderAfterBody'
  BY DEF HeaderAfterBody
<1>8. TempsAccounted'
  BY DEF TempsAccounted
<1>9. PurgedStaysGone'
  BY DEF PurgedStaysGone, DoneType
<1> QED
  BY <1>1, <1>2, <1>3, <1>4, <1>5, <1>6, <1>7, <1>8, <1>9 DEF StoreInv

\* OutputFilterStart preserves every part of the invariant.
LEMMA OutputFilterStartInv ==
  ASSUME StoreInv, TypeOK', NEW w \in Workers, OutputFilterStart(w)
  PROVE  StoreInv'
<1> USE DEF StoreInv, TypeOK, Holding, OutputFilterStart, files, request, worker, walker, history
<1>1. OwnGeneration'
  BY DEF OwnGeneration, HeaderType, TempType, Generate
<1>2. TempsMatchStep'
  BY DEF TempsMatchStep, TempHeaders, OwnGeneration, Generate
<1>3. PublishedNotHeld'
  BY DEF PublishedNotHeld, Held, HeaderType, OwnGeneration, Generate
<1>4. RememberedNotHeld'
  BY DEF RememberedNotHeld, Held, DoneType, Generate
<1>5. SeenIsGone'
  BY DEF SeenIsGone, Generate
<1>6. DeletesInScope'
  BY DEF DeletesInScope, Scope, Generate
<1>7. HeaderAfterBody'
  BY DEF HeaderAfterBody, OwnGeneration, Generate
<1>8. TempsAccounted'
  <2> SUFFICES ASSUME NEW g \in tmp_body' \cup {t.gen : t \in tmp_header'}
               PROVE  g \in leaked' \/ \E x \in Workers : pc'[x] \in Holding /\ rgen'[x] = g
    BY DEF TempsAccounted
  <2>1. CASE g = lastGen + 1
    BY <2>1 DEF Generate
  <2>2. CASE g \in tmp_body \cup {t.gen : t \in tmp_header}
    <3>1. CASE g \in leaked
      BY <3>1 DEF Generate
    <3>2. ASSUME NEW x \in Workers, pc[x] \in Holding, rgen[x] = g
          PROVE  pc'[x] \in Holding /\ rgen'[x] = g
      BY <3>2 DEF Generate
    <3> QED
      BY <2>2, <3>1, <3>2 DEF TempsAccounted
  <2> QED
    BY <2>1, <2>2
<1>9. PurgedStaysGone'
  BY DEF PurgedStaysGone, DoneType, Generate
<1> QED
  BY <1>1, <1>2, <1>3, <1>4, <1>5, <1>6, <1>7, <1>8, <1>9 DEF StoreInv

\* FilterAbandon preserves every part of the invariant.
LEMMA FilterAbandonInv ==
  ASSUME StoreInv, TypeOK', NEW w \in Workers, FilterAbandon(w)
  PROVE  StoreInv'
<1> USE DEF StoreInv, TypeOK, Holding, FilterAbandon, files, request, worker, walker, history
<1>1. OwnGeneration'
  BY DEF OwnGeneration, HeaderType, TempType, TempHeaders
<1>2. TempsMatchStep'
  BY DEF TempsMatchStep, TempHeaders, TempHeaders
<1>3. PublishedNotHeld'
  BY DEF PublishedNotHeld, Held, HeaderType, TempHeaders
<1>4. RememberedNotHeld'
  BY DEF RememberedNotHeld, Held, DoneType, TempHeaders
<1>5. SeenIsGone'
  BY DEF SeenIsGone, TempHeaders
<1>6. DeletesInScope'
  BY DEF DeletesInScope, Scope, TempHeaders
<1>7. HeaderAfterBody'
  BY DEF HeaderAfterBody, TempHeaders
<1>8. TempsAccounted'
  BY DEF TempsAccounted, TempsMatchStep, TempHeaders
<1>9. PurgedStaysGone'
  BY DEF PurgedStaysGone, DoneType, TempHeaders
<1> QED
  BY <1>1, <1>2, <1>3, <1>4, <1>5, <1>6, <1>7, <1>8, <1>9 DEF StoreInv

\* FinalizeWriteHeader preserves every part of the invariant.
LEMMA FinalizeWriteHeaderInv ==
  ASSUME StoreInv, TypeOK', NEW w \in Workers, FinalizeWriteHeader(w)
  PROVE  StoreInv'
<1> USE DEF StoreInv, TypeOK, Holding, FinalizeWriteHeader, files, request, worker, walker, history
<1>1. OwnGeneration'
  BY DEF OwnGeneration, HeaderType, TempType, TempHeaders
<1>2. TempsMatchStep'
  BY DEF TempsMatchStep, TempHeaders, OwnGeneration, TempHeaders
<1>3. PublishedNotHeld'
  BY DEF PublishedNotHeld, Held, HeaderType, TempHeaders
<1>4. RememberedNotHeld'
  BY DEF RememberedNotHeld, Held, DoneType, TempHeaders
<1>5. SeenIsGone'
  BY DEF SeenIsGone, TempHeaders
<1>6. DeletesInScope'
  BY DEF DeletesInScope, Scope, TempHeaders
<1>7. HeaderAfterBody'
  BY DEF HeaderAfterBody, TempHeaders
<1>8. TempsAccounted'
  BY DEF TempsAccounted, TempHeaders
<1>9. PurgedStaysGone'
  BY DEF PurgedStaysGone, DoneType, TempHeaders
<1> QED
  BY <1>1, <1>2, <1>3, <1>4, <1>5, <1>6, <1>7, <1>8, <1>9 DEF StoreInv

\* FinalizeRenameBody preserves every part of the invariant.
LEMMA FinalizeRenameBodyInv ==
  ASSUME StoreInv, TypeOK', NEW w \in Workers, FinalizeRenameBody(w)
  PROVE  StoreInv'
<1> USE DEF StoreInv, TypeOK, Holding, FinalizeRenameBody, files, request, worker, walker, history
<1>1. OwnGeneration'
  BY DEF OwnGeneration, HeaderType, TempType
<1>2. TempsMatchStep'
  BY DEF TempsMatchStep, TempHeaders
<1>3. PublishedNotHeld'
  BY DEF PublishedNotHeld, Held, HeaderType, OwnGeneration
<1>4. RememberedNotHeld'
  BY DEF RememberedNotHeld, Held, DoneType
<1>5. SeenIsGone'
  BY DEF SeenIsGone, RememberedNotHeld, Held
<1>6. DeletesInScope'
  BY DEF DeletesInScope, Scope
<1>7. HeaderAfterBody'
  BY DEF HeaderAfterBody
<1>8. TempsAccounted'
  BY DEF TempsAccounted
<1>9. PurgedStaysGone'
  BY DEF PurgedStaysGone, DoneType, RememberedNotHeld, Held
<1> QED
  BY <1>1, <1>2, <1>3, <1>4, <1>5, <1>6, <1>7, <1>8, <1>9 DEF StoreInv

\* FinalizeRenameHeader preserves every part of the invariant.
LEMMA FinalizeRenameHeaderInv ==
  ASSUME StoreInv, TypeOK', NEW w \in Workers, FinalizeRenameHeader(w)
  PROVE  StoreInv'
<1> USE DEF StoreInv, TypeOK, Holding, FinalizeRenameHeader, files, request, worker, walker, history
<1>1. OwnGeneration'
  BY DEF OwnGeneration, HeaderType, TempType, TempHeaders
<1>2. TempsMatchStep'
  BY DEF TempsMatchStep, TempHeaders, TempHeaders
<1>3. PublishedNotHeld'
  BY DEF PublishedNotHeld, Held, HeaderType, OwnGeneration, TempHeaders
<1>4. RememberedNotHeld'
  BY DEF RememberedNotHeld, Held, DoneType, TempHeaders
<1>5. SeenIsGone'
  BY DEF SeenIsGone, RememberedNotHeld, Held, TempHeaders
<1>6. DeletesInScope'
  BY DEF DeletesInScope, Scope, TempHeaders
<1>7. HeaderAfterBody'
  BY DEF HeaderAfterBody, TempsMatchStep, TempHeaders
<1>8. TempsAccounted'
  BY DEF TempsAccounted, TempsMatchStep, TempHeaders
<1>9. PurgedStaysGone'
  BY DEF PurgedStaysGone, DoneType, RememberedNotHeld, Held, TempHeaders
<1> QED
  BY <1>1, <1>2, <1>3, <1>4, <1>5, <1>6, <1>7, <1>8, <1>9 DEF StoreInv

\* FinalizeFail preserves every part of the invariant.
LEMMA FinalizeFailInv ==
  ASSUME StoreInv, TypeOK', NEW w \in Workers, FinalizeFail(w)
  PROVE  StoreInv'
<1> USE DEF StoreInv, TypeOK, Holding, FinalizeFail, files, request, worker, walker, history
<1>1. OwnGeneration'
  BY DEF OwnGeneration, HeaderType, TempType, TempHeaders
<1>2. TempsMatchStep'
  BY DEF TempsMatchStep, TempHeaders, TempHeaders
<1>3. PublishedNotHeld'
  BY DEF PublishedNotHeld, Held, HeaderType, OwnGeneration, TempHeaders
<1>4. RememberedNotHeld'
  BY DEF RememberedNotHeld, Held, DoneType, TempHeaders
<1>5. SeenIsGone'
  BY DEF SeenIsGone, TempHeaders
<1>6. DeletesInScope'
  BY DEF DeletesInScope, Scope, TempHeaders
<1>7. HeaderAfterBody'
  BY DEF HeaderAfterBody, TempHeaders
<1>8. TempsAccounted'
  BY DEF TempsAccounted, TempHeaders
<1>9. PurgedStaysGone'
  BY DEF PurgedStaysGone, DoneType, TempHeaders
<1> QED
  BY <1>1, <1>2, <1>3, <1>4, <1>5, <1>6, <1>7, <1>8, <1>9 DEF StoreInv

\* StartWalk preserves every part of the invariant.
LEMMA StartWalkInv ==
  ASSUME StoreInv, TypeOK', NEW v \in Walkers, NEW c \in Commands, StartWalk(v, c)
  PROVE  StoreInv'
<1> USE DEF StoreInv, TypeOK, Holding, StartWalk, files, request, worker, walker, history
<1>1. OwnGeneration'
  BY DEF OwnGeneration, HeaderType, TempType
<1>2. TempsMatchStep'
  BY DEF TempsMatchStep, TempHeaders
<1>3. PublishedNotHeld'
  BY DEF PublishedNotHeld, Held, HeaderType
<1>4. RememberedNotHeld'
  BY DEF RememberedNotHeld, Held, DoneType, PublishedNotHeld, OwnGeneration, HeaderType
<1>5. SeenIsGone'
  BY DEF SeenIsGone
<1>6. DeletesInScope'
  BY DEF DeletesInScope, Scope
<1>7. HeaderAfterBody'
  BY DEF HeaderAfterBody
<1>8. TempsAccounted'
  BY DEF TempsAccounted
<1>9. PurgedStaysGone'
  BY DEF PurgedStaysGone, DoneType
<1> QED
  BY <1>1, <1>2, <1>3, <1>4, <1>5, <1>6, <1>7, <1>8, <1>9 DEF StoreInv

\* VisitEntry preserves every part of the invariant.
LEMMA VisitEntryInv ==
  ASSUME StoreInv, TypeOK', NEW v \in Walkers, NEW k \in Keys, VisitEntry(v, k)
  PROVE  StoreInv'
<1> USE DEF StoreInv, TypeOK, Holding, VisitEntry, files, request, worker, walker, history
<1>1. OwnGeneration'
  BY DEF OwnGeneration, HeaderType, TempType
<1>2. TempsMatchStep'
  BY DEF TempsMatchStep, TempHeaders
<1>3. PublishedNotHeld'
  BY DEF PublishedNotHeld, Held, HeaderType
<1>4. RememberedNotHeld'
  BY DEF RememberedNotHeld, Held, DoneType
<1>5. SeenIsGone'
  BY DEF SeenIsGone
<1>6. DeletesInScope'
  BY DEF DeletesInScope, Scope
<1>7. HeaderAfterBody'
  BY DEF HeaderAfterBody
<1>8. TempsAccounted'
  BY DEF TempsAccounted
<1>9. PurgedStaysGone'
  BY DEF PurgedStaysGone, DoneType
<1> QED
  BY <1>1, <1>2, <1>3, <1>4, <1>5, <1>6, <1>7, <1>8, <1>9 DEF StoreInv

\* SweepBody preserves every part of the invariant.
LEMMA SweepBodyInv ==
  ASSUME StoreInv, TypeOK', NEW v \in Walkers, NEW k \in Keys, SweepBody(v, k)
  PROVE  StoreInv'
<1> USE DEF StoreInv, TypeOK, Holding, SweepBody, files, request, worker, walker, history
<1>1. OwnGeneration'
  BY DEF OwnGeneration, HeaderType, TempType
<1>2. TempsMatchStep'
  BY DEF TempsMatchStep, TempHeaders
<1>3. PublishedNotHeld'
  BY DEF PublishedNotHeld, Held, HeaderType, OwnGeneration
<1>4. RememberedNotHeld'
  BY DEF RememberedNotHeld, Held, DoneType
<1>5. SeenIsGone'
  BY DEF SeenIsGone
<1>6. DeletesInScope'
  BY DEF DeletesInScope, Scope
<1>7. HeaderAfterBody'
  BY DEF HeaderAfterBody
<1>8. TempsAccounted'
  BY DEF TempsAccounted
<1>9. PurgedStaysGone'
  BY DEF PurgedStaysGone, DoneType
<1> QED
  BY <1>1, <1>2, <1>3, <1>4, <1>5, <1>6, <1>7, <1>8, <1>9 DEF StoreInv

\* VisitTempHeader preserves every part of the invariant.
LEMMA VisitTempHeaderInv ==
  ASSUME StoreInv, TypeOK', NEW v \in Walkers, VisitTempHeader(v)
  PROVE  StoreInv'
<1> USE DEF StoreInv, TypeOK, Holding, VisitTempHeader, files, request, worker, walker, history
<1>1. OwnGeneration'
  BY DEF OwnGeneration, HeaderType, TempType
<1>2. TempsMatchStep'
  BY DEF TempsMatchStep, TempHeaders
<1>3. PublishedNotHeld'
  BY DEF PublishedNotHeld, Held, HeaderType
<1>4. RememberedNotHeld'
  BY DEF RememberedNotHeld, Held, DoneType
<1>5. SeenIsGone'
  BY DEF SeenIsGone
<1>6. DeletesInScope'
  BY DEF DeletesInScope, Scope
<1>7. HeaderAfterBody'
  BY DEF HeaderAfterBody
<1>8. TempsAccounted'
  BY DEF TempsAccounted
<1>9. PurgedStaysGone'
  BY DEF PurgedStaysGone, DoneType
<1> QED
  BY <1>1, <1>2, <1>3, <1>4, <1>5, <1>6, <1>7, <1>8, <1>9 DEF StoreInv

\* DeleteEntryBody preserves every part of the invariant.
LEMMA DeleteEntryBodyInv ==
  ASSUME StoreInv, TypeOK', NEW v \in Walkers, DeleteEntryBody(v)
  PROVE  StoreInv'
<1> USE DEF StoreInv, TypeOK, Holding, DeleteEntryBody, files, request, worker, walker, history
<1>1. OwnGeneration'
  BY DEF OwnGeneration, HeaderType, TempType
<1>2. TempsMatchStep'
  BY DEF TempsMatchStep, TempHeaders
<1>3. PublishedNotHeld'
  BY DEF PublishedNotHeld, Held, HeaderType, OwnGeneration
<1>4. RememberedNotHeld'
  BY DEF RememberedNotHeld, Held, DoneType
<1>5. SeenIsGone'
  BY DEF SeenIsGone
<1>6. DeletesInScope'
  BY DEF DeletesInScope, Scope
<1>7. HeaderAfterBody'
  BY DEF HeaderAfterBody
<1>8. TempsAccounted'
  BY DEF TempsAccounted
<1>9. PurgedStaysGone'
  BY DEF PurgedStaysGone, DoneType
<1> QED
  BY <1>1, <1>2, <1>3, <1>4, <1>5, <1>6, <1>7, <1>8, <1>9 DEF StoreInv

\* DeleteEntryHeader preserves every part of the invariant.
LEMMA DeleteEntryHeaderInv ==
  ASSUME StoreInv, TypeOK', NEW v \in Walkers, DeleteEntryHeader(v)
  PROVE  StoreInv'
<1> USE DEF StoreInv, TypeOK, Holding, DeleteEntryHeader, files, request, worker, walker, history
<1>1. OwnGeneration'
  BY DEF OwnGeneration, HeaderType, TempType, NoHeader
<1>2. TempsMatchStep'
  BY DEF TempsMatchStep, TempHeaders, NoHeader
<1>3. PublishedNotHeld'
  BY DEF PublishedNotHeld, Held, HeaderType, OwnGeneration, NoHeader
<1>4. RememberedNotHeld'
  BY DEF RememberedNotHeld, Held, DoneType, NoHeader
<1>5. SeenIsGone'
  BY DEF SeenIsGone, NoHeader
<1>6. DeletesInScope'
  BY DEF DeletesInScope, Scope, NoHeader
<1>7. HeaderAfterBody'
  BY DEF HeaderAfterBody, OwnGeneration, NoHeader
<1>8. TempsAccounted'
  BY DEF TempsAccounted, NoHeader
<1>9. PurgedStaysGone'
  BY DEF PurgedStaysGone, DoneType, NoHeader
<1> QED
  BY <1>1, <1>2, <1>3, <1>4, <1>5, <1>6, <1>7, <1>8, <1>9 DEF StoreInv

\* EndWalk preserves every part of the invariant.
LEMMA EndWalkInv ==
  ASSUME StoreInv, TypeOK', NEW v \in Walkers, EndWalk(v)
  PROVE  StoreInv'
<1> USE DEF StoreInv, TypeOK, Holding, EndWalk, files, request, worker, walker, history
<1>1. OwnGeneration'
  BY DEF OwnGeneration, HeaderType, TempType, EndCommand, WalkedAll, Completed
<1>2. TempsMatchStep'
  BY DEF TempsMatchStep, TempHeaders, EndCommand, WalkedAll, Completed
<1>3. PublishedNotHeld'
  BY DEF PublishedNotHeld, Held, HeaderType, EndCommand, WalkedAll, Completed
<1>4. RememberedNotHeld'
  <2>1. \A x \in Walkers, k \in Keys :
          /\ snap'[x][k] <= lastGen'
          /\ wpc'[x] = "sweep" => ~Held(snap[x][k], {"capture", "publish"})'
          /\ wpc'[x] # "sweep" => ~Held(snap[x][k], Holding)'
    BY DEF RememberedNotHeld, Held, OwnGeneration, EndCommand
  <2>2. ASSUME NEW d \in done', NEW k \in Keys
        PROVE  /\ d.gone[k] <= lastGen
               /\ d.file = "body" => ~Held(d.gone[k], {"capture", "publish"})
               /\ d.file = "header" => ~Held(d.gone[k], Holding)
    <3>1. CASE d \in done
      BY <3>1 DEF RememberedNotHeld
    <3>2. CASE d = Completed(v, "header")
      BY <3>2 DEF RememberedNotHeld, Completed
    <3> QED
      BY <3>1, <3>2
  <2>3. \A d \in done', k \in Keys :
          /\ d.gone[k] <= lastGen'
          /\ d.file = "body" => ~Held(d.gone[k], {"capture", "publish"})'
          /\ d.file = "header" => ~Held(d.gone[k], Holding)'
    BY <2>2 DEF Held
  <2> QED
    BY <2>1, <2>3 DEF RememberedNotHeld
<1>5. SeenIsGone'
  BY DEF SeenIsGone, EndCommand, WalkedAll, Completed
<1>6. DeletesInScope'
  BY DEF DeletesInScope, Scope, EndCommand, WalkedAll, Completed
<1>7. HeaderAfterBody'
  BY DEF HeaderAfterBody, EndCommand, WalkedAll, Completed
<1>8. TempsAccounted'
  BY DEF TempsAccounted, EndCommand, WalkedAll, Completed
<1>9. PurgedStaysGone'
  BY DEF PurgedStaysGone, DoneType, SeenIsGone, EndCommand, WalkedAll, Completed
<1> QED
  BY <1>1, <1>2, <1>3, <1>4, <1>5, <1>6, <1>7, <1>8, <1>9 DEF StoreInv

\* StartSweep preserves every part of the invariant.
LEMMA StartSweepInv ==
  ASSUME StoreInv, TypeOK', NEW v \in Walkers, StartSweep(v)
  PROVE  StoreInv'
<1> USE DEF StoreInv, TypeOK, Holding, StartSweep, files, request, worker, walker, history
<1>1. OwnGeneration'
  BY DEF OwnGeneration, HeaderType, TempType, WalkedAll, Completed
<1>2. TempsMatchStep'
  BY DEF TempsMatchStep, TempHeaders, WalkedAll, Completed
<1>3. PublishedNotHeld'
  BY DEF PublishedNotHeld, Held, HeaderType, WalkedAll, Completed
<1>4. RememberedNotHeld'
  <2>1. \A x \in Walkers, k \in Keys :
          /\ snap'[x][k] <= lastGen'
          /\ wpc'[x] = "sweep" => ~Held(snap[x][k], {"capture", "publish"})'
          /\ wpc'[x] # "sweep" => ~Held(snap[x][k], Holding)'
    BY DEF RememberedNotHeld, Held, OwnGeneration, PublishedNotHeld
  <2>2. ASSUME NEW d \in done', NEW k \in Keys
        PROVE  /\ d.gone[k] <= lastGen
               /\ d.file = "body" => ~Held(d.gone[k], {"capture", "publish"})
               /\ d.file = "header" => ~Held(d.gone[k], Holding)
    <3>1. CASE d \in done
      BY <3>1 DEF RememberedNotHeld
    <3>2. CASE d = Completed(v, "header")
      BY <3>2 DEF RememberedNotHeld, Completed
    <3> QED
      BY <3>1, <3>2
  <2>3. \A d \in done', k \in Keys :
          /\ d.gone[k] <= lastGen'
          /\ d.file = "body" => ~Held(d.gone[k], {"capture", "publish"})'
          /\ d.file = "header" => ~Held(d.gone[k], Holding)'
    BY <2>2 DEF Held
  <2> QED
    BY <2>1, <2>3 DEF RememberedNotHeld
<1>5. SeenIsGone'
  BY DEF SeenIsGone, WalkedAll, Completed
<1>6. DeletesInScope'
  BY DEF DeletesInScope, Scope, WalkedAll, Completed
<1>7. HeaderAfterBody'
  BY DEF HeaderAfterBody, WalkedAll, Completed
<1>8. TempsAccounted'
  BY DEF TempsAccounted, WalkedAll, Completed
<1>9. PurgedStaysGone'
  BY DEF PurgedStaysGone, DoneType, SeenIsGone, WalkedAll, Completed
<1> QED
  BY <1>1, <1>2, <1>3, <1>4, <1>5, <1>6, <1>7, <1>8, <1>9 DEF StoreInv

\* EndSweep preserves every part of the invariant.
LEMMA EndSweepInv ==
  ASSUME StoreInv, TypeOK', NEW v \in Walkers, EndSweep(v)
  PROVE  StoreInv'
<1> USE DEF StoreInv, TypeOK, Holding, EndSweep, files, request, worker, walker, history
<1>1. OwnGeneration'
  BY DEF OwnGeneration, HeaderType, TempType, EndCommand, SweptAll, Completed
<1>2. TempsMatchStep'
  BY DEF TempsMatchStep, TempHeaders, EndCommand, SweptAll, Completed
<1>3. PublishedNotHeld'
  BY DEF PublishedNotHeld, Held, HeaderType, EndCommand, SweptAll, Completed
<1>4. RememberedNotHeld'
  BY DEF RememberedNotHeld, Held, DoneType, OwnGeneration, EndCommand, SweptAll, Completed
<1>5. SeenIsGone'
  BY DEF SeenIsGone, EndCommand, SweptAll, Completed
<1>6. DeletesInScope'
  BY DEF DeletesInScope, Scope, EndCommand, SweptAll, Completed
<1>7. HeaderAfterBody'
  BY DEF HeaderAfterBody, EndCommand, SweptAll, Completed
<1>8. TempsAccounted'
  BY DEF TempsAccounted, EndCommand, SweptAll, Completed
<1>9. PurgedStaysGone'
  BY DEF PurgedStaysGone, DoneType, SeenIsGone, EndCommand, SweptAll, Completed
<1> QED
  BY <1>1, <1>2, <1>3, <1>4, <1>5, <1>6, <1>7, <1>8, <1>9 DEF StoreInv

\* CrashWalker preserves every part of the invariant.
LEMMA CrashWalkerInv ==
  ASSUME StoreInv, TypeOK', NEW v \in Walkers, CrashWalker(v)
  PROVE  StoreInv'
<1> USE DEF StoreInv, TypeOK, Holding, CrashWalker, files, request, worker, walker, history
<1>1. OwnGeneration'
  BY DEF OwnGeneration, HeaderType, TempType, EndCommand
<1>2. TempsMatchStep'
  BY DEF TempsMatchStep, TempHeaders, EndCommand
<1>3. PublishedNotHeld'
  BY DEF PublishedNotHeld, Held, HeaderType, EndCommand
<1>4. RememberedNotHeld'
  BY DEF RememberedNotHeld, Held, DoneType, OwnGeneration, EndCommand
<1>5. SeenIsGone'
  BY DEF SeenIsGone, EndCommand
<1>6. DeletesInScope'
  BY DEF DeletesInScope, Scope, EndCommand
<1>7. HeaderAfterBody'
  BY DEF HeaderAfterBody, EndCommand
<1>8. TempsAccounted'
  BY DEF TempsAccounted, EndCommand
<1>9. PurgedStaysGone'
  BY DEF PurgedStaysGone, DoneType, EndCommand
<1> QED
  BY <1>1, <1>2, <1>3, <1>4, <1>5, <1>6, <1>7, <1>8, <1>9 DEF StoreInv

\* The worker's steps outside a capture are quiet.
LEMMA QuietWorker ==
  ASSUME StoreInv, NEW w \in Workers,
         \/ \E k \in Keys, head \in BOOLEAN : StartRequest(w, k, head)
         \/ LookupReplay(w) \/ LookupMiss(w) \/ LookupOpenBody(w) \/ LookupNoBody(w)
         \/ GenerateUncaptured(w) \/ FinishRequest(w) \/ CrashWorker(w)
  PROVE  Quiet
<1> USE DEF StoreInv, TypeOK, OwnGeneration, Quiet, Holding, files, request, walker, history
<1>1. ASSUME NEW k \in Keys, NEW head \in BOOLEAN, StartRequest(w, k, head)
      PROVE  Quiet
  BY <1>1 DEF StartRequest
<1>2. CASE LookupReplay(w)
  BY <1>2 DEF LookupReplay
<1>3. CASE LookupMiss(w)
  BY <1>3 DEF LookupMiss
<1>4. CASE LookupOpenBody(w)
  BY <1>4 DEF LookupOpenBody
<1>5. CASE LookupNoBody(w)
  BY <1>5 DEF LookupNoBody
<1>6. CASE GenerateUncaptured(w)
  BY <1>6 DEF GenerateUncaptured, Generate
<1>7. CASE FinishRequest(w)
  BY <1>7 DEF FinishRequest, Release
<1>8. CASE CrashWorker(w)
  BY <1>8 DEF CrashWorker, Release
<1> QED
  BY <1>1, <1>2, <1>3, <1>4, <1>5, <1>6, <1>7, <1>8

\* So are the clock and stuttering.
LEMMA QuietOther ==
  ASSUME StoreInv, Tick \/ UNCHANGED vars
  PROVE  Quiet
  BY DEF StoreInv, TypeOK, OwnGeneration, Quiet, Holding, Tick, vars, files, worker,
         walker, history

\* Every step preserves the invariant.
LEMMA StoreInvStep == StoreInv /\ [Next]_vars => StoreInv'
<1> SUFFICES ASSUME StoreInv, [Next]_vars PROVE StoreInv'
  OBVIOUS
<1>t. TypeOK'
  BY TypeStep DEF StoreInv
<1>1. ASSUME NEW w \in Workers,
             (\E k \in Keys, head \in BOOLEAN : StartRequest(w, k, head)) \/ CrashWorker(w)
      PROVE  StoreInv'
  BY <1>t, <1>1, QuietWorker, QuietStep
<1>2. ASSUME NEW w \in Workers, WorkerStep(w)
      PROVE  StoreInv'
  <2>1. CASE \/ LookupReplay(w) \/ LookupMiss(w) \/ LookupOpenBody(w) \/ LookupNoBody(w)
             \/ GenerateUncaptured(w) \/ FinishRequest(w)
    BY <1>t, <2>1, QuietWorker, QuietStep
  <2>2. CASE \/ OutputFilterStart(w) \/ FilterAbandon(w) \/ FinalizeWriteHeader(w)
             \/ FinalizeRenameBody(w) \/ FinalizeRenameHeader(w) \/ FinalizeFail(w)
    BY <1>t, <2>2, OutputFilterStartInv, FilterAbandonInv, FinalizeWriteHeaderInv,
       FinalizeRenameBodyInv, FinalizeRenameHeaderInv, FinalizeFailInv
  <2> QED
    BY <1>2, <2>1, <2>2 DEF WorkerStep
<1>3. ASSUME NEW v \in Walkers, (\E c \in Commands : StartWalk(v, c)) \/ CrashWalker(v)
      PROVE  StoreInv'
  BY <1>t, <1>3, StartWalkInv, CrashWalkerInv
<1>4. ASSUME NEW v \in Walkers, WalkerStep(v)
      PROVE  StoreInv'
  BY <1>t, <1>4, VisitEntryInv, SweepBodyInv, VisitTempHeaderInv, DeleteEntryBodyInv,
     DeleteEntryHeaderInv, EndWalkInv, StartSweepInv, EndSweepInv DEF WalkerStep
<1>5. CASE Tick \/ UNCHANGED vars
  BY <1>t, <1>5, QuietOther, QuietStep
<1> QED
  BY <1>1, <1>2, <1>3, <1>4, <1>5 DEF Next, Quiescent

\* The invariant holds of every behaviour of the store.
THEOREM StoreInvariant == Spec => []StoreInv
<1>1. Init => StoreInv
  BY StoreInvInit
<1>2. StoreInv /\ [Next]_vars => StoreInv'
  BY StoreInvStep
<1> QED
  BY <1>1, <1>2, PTL DEF Spec

\* finalize_cache_entry's "body first, header last": no header that a reader
\* can find describes a response still being captured.
THEOREM NoHeaderBeforeItsBody == Spec => []HeaderAfterBody
<1>1. StoreInv => HeaderAfterBody
  BY DEF StoreInv
<1> QED
  BY <1>1, StoreInvariant, PTL

\* Every early return and error path of the output filter removes what it
\* created: a temporary file belongs to a live capture or a dead process.
THEOREM NoTemporaryIsForgotten == Spec => []TempsAccounted
<1>1. StoreInv => TempsAccounted
  BY DEF StoreInv
<1> QED
  BY <1>1, StoreInvariant, PTL

\* What a purge or a sweep found stays gone once it has passed, whatever
\* workers publish and other purges delete meanwhile.
THEOREM PurgedNeverReturns == Spec => []PurgedStaysGone
<1>1. StoreInv => PurgedStaysGone
  BY DEF StoreInv
<1> QED
  BY <1>1, StoreInvariant, PTL

-----------------------------------------------------------------------------
(* What a step never does.                                                 *)

\* A header disappears only in delete_entry's second removal.
LEMMA HeaderKept ==
  ASSUME StoreInv, [Next]_vars, NEW k \in Keys, header[k].gen # 0, header'[k].gen = 0
  PROVE  \E v \in Walkers : wpc[v] = "delhdr" /\ cmd[v].host \in {HostOf[k], AnyHost}
<1> USE DEF StoreInv, TypeOK, files, request, worker, walker, history
<1>1. CASE header' = header
  BY <1>1
<1>2. ASSUME NEW w \in Workers, FinalizeRenameHeader(w)
      PROVE  FALSE
  <2>1. PICK t \in TempHeaders(w) :
          header' = [header EXCEPT ![rkey[w]] =
                       [gen |-> t.gen, expires |-> t.expires, from |-> t.from]]
    BY <1>2 DEF FinalizeRenameHeader
  <2>2. t.gen = rgen[w] /\ rgen[w] # 0
    BY <1>2 DEF FinalizeRenameHeader, TempHeaders, OwnGeneration, Holding
  <2> QED
    BY <2>1, <2>2 DEF HeaderType
<1>3. ASSUME NEW v \in Walkers, DeleteEntryHeader(v)
      PROVE  wpc[v] = "delhdr" /\ cmd[v].host \in {HostOf[k], AnyHost}
  <2>1. cur[v] = k
    BY <1>3 DEF DeleteEntryHeader
  <2> QED
    BY <1>3, <2>1 DEF DeleteEntryHeader, DeletesInScope, Scope
<1>4. ASSUME NEW w \in Workers, WorkerStep(w), ~FinalizeRenameHeader(w)
      PROVE  header' = header
  BY <1>4 DEF WorkerStep, LookupReplay, LookupMiss, LookupOpenBody, LookupNoBody,
     GenerateUncaptured, OutputFilterStart, FilterAbandon, FinalizeWriteHeader,
     FinalizeRenameBody, FinalizeFail, FinishRequest
<1>5. ASSUME NEW v \in Walkers, WalkerStep(v), ~DeleteEntryHeader(v)
      PROVE  header' = header
  BY <1>5 DEF WalkerStep, VisitEntry, SweepBody, VisitTempHeader, DeleteEntryBody,
     EndWalk, StartSweep, EndSweep
<1>6. ASSUME \/ \E w \in Workers :
                  \/ \E j \in Keys, head \in BOOLEAN : StartRequest(w, j, head)
                  \/ CrashWorker(w)
             \/ \E v \in Walkers : (\E c \in Commands : StartWalk(v, c)) \/ CrashWalker(v)
             \/ Tick \/ UNCHANGED vars
      PROVE  header' = header
  BY <1>6 DEF StartRequest, CrashWorker, StartWalk, CrashWalker, Tick, vars
<1> QED
  BY <1>1, <1>2, <1>3, <1>4, <1>5, <1>6 DEF Next, Quiescent

\* visit_entry's host comparison and --host: an entry is only ever deleted by
\* a command that names its host or names none.
THEOREM PurgesStayOnTheirHost == Spec => PurgeKeepsOtherHosts
<1>1. StoreInv /\ [Next]_vars =>
        [\A k \in Keys : header[k].gen # 0 /\ header'[k].gen = 0 =>
           \E v \in Walkers : wpc[v] = "delhdr" /\ cmd[v].host \in {HostOf[k], AnyHost}]_vars
  BY HeaderKept
<1> QED
  BY <1>1, StoreInvariant, PTL DEF Spec, PurgeKeepsOtherHosts

-----------------------------------------------------------------------------
(* Publishers alone.                                                       *)

\* Steps that leave the files and the captures in progress alone.
LEMMA PublishersFrame ==
  ASSUME PublishersInv, UNCHANGED <<header, body, tmp_header, wpc>>,
         \A x \in Workers : pc'[x] \in {"publish", "rename"} =>
             pc'[x] = pc[x] /\ rgen'[x] = rgen[x] /\ rkey'[x] = rkey[x]
  PROVE  PublishersInv'
  BY DEF PublishersInv, Paired, TempHeaders

\* A worker's step, with no failing rename.
LEMMA PublishersWorker ==
  ASSUME StoreInv, ~IOFaults, PublishersInv, NEW w \in Workers, WorkerStep(w)
  PROVE  PublishersInv'
<1> USE DEF StoreInv, TypeOK, PublishersInv, Paired, TempHeaders, files, request,
        worker, walker, history
<1>f. ASSUME UNCHANGED <<header, body, tmp_header, wpc>>,
             \A x \in Workers : pc'[x] \in {"publish", "rename"} =>
                 pc'[x] = pc[x] /\ rgen'[x] = rgen[x] /\ rkey'[x] = rkey[x]
      PROVE  PublishersInv'
  BY <1>f, PublishersFrame
<1>1. CASE \/ LookupReplay(w) \/ LookupMiss(w) \/ LookupOpenBody(w) \/ LookupNoBody(w)
           \/ FilterAbandon(w)
  BY <1>1, <1>f DEF LookupReplay, LookupMiss, LookupOpenBody, LookupNoBody, FilterAbandon
<1>2. CASE GenerateUncaptured(w) \/ OutputFilterStart(w)
  BY <1>2, <1>f DEF GenerateUncaptured, OutputFilterStart, Generate
<1>3. CASE FinalizeWriteHeader(w)
  <2>1. [gen |-> rgen[w], key |-> rkey[w], expires |-> now + TTL,
         from |-> headers_out[w]] \in TempHeaders(w)'
    BY <1>3 DEF FinalizeWriteHeader
  <2> QED
    BY <1>3, <2>1 DEF FinalizeWriteHeader
<1>4. CASE FinalizeRenameBody(w)
  <2>1. rgen[w] # 0
    BY <1>4 DEF FinalizeRenameBody, OwnGeneration, Holding
  <2> QED
    BY <1>4, <2>1 DEF FinalizeRenameBody
<1>5. CASE FinalizeRenameHeader(w)
  <2>1. \A x \in Workers : x # w /\ pc[x] \in {"publish", "rename"} =>
          TempHeaders(x)' = TempHeaders(x)
    BY <1>5 DEF FinalizeRenameHeader, OwnGeneration, Holding
  <2>2. \A k \in Keys : k # rkey[w] => header'[k] = header[k]
    BY <1>5 DEF FinalizeRenameHeader
  <2> QED
    BY <1>5, <2>1, <2>2 DEF FinalizeRenameHeader
<1>6. CASE FinalizeFail(w)
  BY <1>6 DEF FinalizeFail
<1>7. CASE FinishRequest(w)
  BY <1>7, <1>f DEF FinishRequest, Release
<1> QED
  BY <1>1, <1>2, <1>3, <1>4, <1>5, <1>6, <1>7 DEF WorkerStep

\* The count of purges only grows.
LEMMA WalksGrow ==
  ASSUME TypeOK, [Next]_vars, walks' = 0
  PROVE  walks = 0
<1> USE DEF TypeOK, files, request, worker, walker, history
<1>1. ASSUME NEW w \in Workers,
             \/ \E k \in Keys, head \in BOOLEAN : StartRequest(w, k, head)
             \/ WorkerStep(w) \/ CrashWorker(w)
      PROVE  walks' = walks
  BY <1>1 DEF StartRequest, WorkerStep, CrashWorker, LookupReplay, LookupMiss,
     LookupOpenBody, LookupNoBody, GenerateUncaptured, OutputFilterStart, Generate,
     FilterAbandon, FinalizeWriteHeader, FinalizeRenameBody, FinalizeRenameHeader,
     FinalizeFail, FinishRequest
<1>2. ASSUME NEW v \in Walkers, WalkerStep(v) \/ CrashWalker(v)
      PROVE  walks' = walks
  BY <1>2 DEF WalkerStep, CrashWalker, VisitEntry, SweepBody, VisitTempHeader,
     DeleteEntryBody, DeleteEntryHeader, EndWalk, StartSweep, EndSweep
<1>3. ASSUME NEW v \in Walkers, NEW c \in Commands, StartWalk(v, c)
      PROVE  walks' = walks + 1
  BY <1>3 DEF StartWalk
<1>4. CASE Tick \/ UNCHANGED vars
  BY <1>4 DEF Tick, vars
<1> QED
  BY <1>1, <1>2, <1>3, <1>4 DEF Next, Quiescent

\* Every step before the first purge, with no failing rename.
LEMMA PublishersStep ==
  ASSUME StoreInv, ~IOFaults, PublishersInv, [Next]_vars, walks' = 0
  PROVE  PublishersInv'
<1> USE DEF StoreInv, TypeOK, PublishersInv, Paired, TempHeaders, files, request,
        worker, walker, history
<1>1. ASSUME NEW w \in Workers, NEW k \in Keys, NEW head \in BOOLEAN,
             StartRequest(w, k, head)
      PROVE  PublishersInv'
  BY <1>1 DEF StartRequest
<1>2. ASSUME NEW w \in Workers, CrashWorker(w)
      PROVE  PublishersInv'
  <2>1. UNCHANGED <<header, body, tmp_header, wpc>>
    BY <1>2 DEF CrashWorker
  <2>2. \A x \in Workers : pc'[x] \in {"publish", "rename"} =>
          pc'[x] = pc[x] /\ rgen'[x] = rgen[x] /\ rkey'[x] = rkey[x]
    BY <1>2 DEF CrashWorker, Release
  <2> QED
    BY <2>1, <2>2, PublishersFrame
<1>3. ASSUME NEW v \in Walkers
      PROVE  /\ ~\E c \in Commands : StartWalk(v, c)
             /\ ~WalkerStep(v)
             /\ ~CrashWalker(v)
  BY DEF StartWalk, CrashWalker, WalkerStep, VisitEntry, SweepBody, VisitTempHeader,
     DeleteEntryBody, DeleteEntryHeader, EndWalk, StartSweep, EndSweep
<1>4. CASE Tick \/ UNCHANGED vars
  BY <1>4, PublishersFrame DEF Tick, vars
<1> QED
  BY <1>1, <1>2, <1>3, <1>4, PublishersWorker DEF Next, Quiescent

\* Any number of workers publishing the same key, and dying at any point of
\* it, never leave a header without a body: only a failed rename or a purge
\* can.
THEOREM PublishersNeverStrand == Spec => []NoStranded
<1> DEFINE Inv == walks = 0 /\ ~IOFaults => PublishersInv
<1>1. Init => Inv
  BY DEF Init, PublishersInv, Paired, NoHeader
<1>2. StoreInv /\ Inv /\ [Next]_vars => Inv'
  BY PublishersStep, WalksGrow DEF StoreInv
<1>3. Inv => NoStranded
  BY DEF PublishersInv, NoStranded
<1> HIDE DEF Inv
<1> QED
  BY <1>1, <1>2, <1>3, StoreInvariant, PTL DEF Spec

-----------------------------------------------------------------------------
(* No request sees what was made for another key.                          *)

\* Steps that change no file of a key but by removing it, and no request but
\* by ending it.
Keeps ==
    /\ made' = made /\ lastGen' = lastGen
    /\ tmp_header' \subseteq tmp_header
    /\ \A k \in Keys : header'[k] \in {header[k], NoHeader} /\ body'[k] \in {body[k], 0}
    /\ \A w \in Workers :
         \/ /\ rkey'[w] = rkey[w] /\ headers_out'[w] = headers_out[w] /\ rbody'[w] = rbody[w]
            /\ rgen'[w] = rgen[w]
            /\ pc'[w] # pc[w] => pc[w] # "idle" /\ pc'[w] \notin {"idle", "hit"}
            /\ pc'[w] \in Holding => pc[w] \in Holding
         \/ pc'[w] \notin Holding \cup {"hit"} /\ headers_out'[w] = {} /\ rbody'[w] = 0

\* Such a step mixes no keys.
LEMMA KeepsStep ==
  ASSUME TypeOK, TypeOK', OwnKey, Keeps
  PROVE  OwnKey'
<1>1. ASSUME NEW w \in Workers
      PROVE  /\ headers_out'[w] \subseteq made'[rkey'[w]]
             /\ rbody'[w] \in made'[rkey'[w]] \cup {0}
             /\ pc'[w] = "hit" => rbody'[w] # 0
             /\ pc'[w] = "idle" => headers_out'[w] = {} /\ rbody'[w] = 0
             /\ pc'[w] \in Holding => rgen'[w] \in made'[rkey'[w]]
  BY DEF OwnKey, Keeps, Holding
<1>2. ASSUME NEW k \in Keys
      PROVE  header'[k].from \subseteq made'[k] /\ body'[k] \in made'[k] \cup {0}
  BY DEF OwnKey, Keeps, NoHeader
<1>. QED
  BY <1>1, <1>2 DEF OwnKey, Keeps

\* A new generation is made for the key of the request.
LEMMA GenerateOwnKey ==
  ASSUME TypeOK, TypeOK', OwnKey, NEW w \in Workers, Generate(w),
         UNCHANGED <<header, body, tmp_header, rkey, rbody>>,
         pc' = [pc EXCEPT ![w] = pc'[w]], pc'[w] \in Holding \cup {"sent"}
  PROVE  OwnKey'
<1>0. rkey[w] \in Keys /\ lastGen \in Nat /\ lastGen' = lastGen + 1 /\ lastGen' \in Nat
  BY DEF TypeOK, Generate
<1>1. /\ \A k \in Keys : made[k] \subseteq made'[k] /\ made'[k] \subseteq made[k] \cup {lastGen'}
      /\ \A k \in Keys : k # rkey[w] => made'[k] = made[k]
      /\ lastGen' \in made'[rkey[w]]
      /\ \A x \in Workers \ {w} : /\ headers_out'[x] = headers_out[x] /\ rgen'[x] = rgen[x]
                                  /\ pc'[x] = pc[x]
      /\ headers_out'[w] = headers_out[w] \cup {lastGen'} /\ rgen'[w] = lastGen'
  BY <1>0 DEF TypeOK, Generate
<1>2. \A k \in Keys : lastGen' \notin made[k]
  BY <1>0 DEF OwnKey
<1>3. \A x \in Workers : rkey[x] \in Keys /\ rkey'[x] = rkey[x] /\ rbody'[x] = rbody[x]
  BY DEF TypeOK
<1>4. ASSUME NEW x \in Workers
      PROVE  /\ headers_out'[x] \subseteq made'[rkey'[x]]
             /\ rbody'[x] \in made'[rkey'[x]] \cup {0}
             /\ pc'[x] = "hit" => rbody'[x] # 0
             /\ pc'[x] = "idle" => headers_out'[x] = {} /\ rbody'[x] = 0
             /\ pc'[x] \in Holding => rgen'[x] \in made'[rkey'[x]]
  <2>1. CASE x = w
    BY <1>0, <1>1, <1>3, <2>1 DEF OwnKey, Holding
  <2>2. CASE x # w
    BY <1>0, <1>1, <1>3, <2>2 DEF OwnKey
  <2>. QED
    BY <2>1, <2>2
<1>5. ASSUME NEW k \in Keys
      PROVE  header'[k].from \subseteq made'[k] /\ body'[k] \in made'[k] \cup {0}
  BY <1>1 DEF OwnKey
<1>6. ASSUME NEW t \in tmp_header'
      PROVE  t.from \subseteq made'[t.key] /\ t.gen \in made'[t.key]
  BY <1>1 DEF OwnKey, TypeOK, TempType
<1>7. ASSUME NEW k \in Keys, NEW g \in made'[k]
      PROVE  g \in 1..lastGen'
  BY <1>0, <1>1 DEF OwnKey
<1>8. ASSUME NEW j \in Keys, NEW k \in Keys, j # k
      PROVE  made'[j] \cap made'[k] = {}
  BY <1>1, <1>2, <1>8 DEF OwnKey
<1>. QED
  BY <1>4, <1>5, <1>6, <1>7, <1>8 DEF OwnKey

\* A worker's step mixes no keys.
LEMMA WorkerOwnKey ==
  ASSUME StoreInv, TypeOK', OwnKey, NEW w \in Workers, WorkerStep(w)
  PROVE  OwnKey'
<1>0. TypeOK /\ rkey[w] \in Keys
  BY DEF StoreInv, TypeOK
<1>1. CASE LookupReplay(w)
  BY <1>0, <1>1 DEF TypeOK, OwnKey, Holding, LookupReplay, files, request, history
<1>2. CASE LookupMiss(w) \/ LookupNoBody(w)
  <2>1. Keeps
    BY <1>0, <1>2 DEF TypeOK, Keeps, Holding, LookupMiss, LookupNoBody, files, request, history
  <2>. QED
    BY <1>0, <2>1, KeepsStep
<1>3. CASE LookupOpenBody(w)
  BY <1>0, <1>3 DEF TypeOK, OwnKey, Holding, LookupOpenBody, files, request, history
<1>4. CASE GenerateUncaptured(w) \/ OutputFilterStart(w)
  <2>1. /\ Generate(w) /\ UNCHANGED <<header, body, tmp_header, rkey, rbody>>
        /\ pc' = [pc EXCEPT ![w] = pc'[w]] /\ pc'[w] \in Holding \cup {"sent"}
    BY <1>0, <1>4 DEF TypeOK, Holding, GenerateUncaptured, OutputFilterStart, files, request
  <2>. QED
    BY <1>0, <2>1, GenerateOwnKey
<1>5. CASE FilterAbandon(w)
  <2>1. Keeps
    BY <1>0, <1>5 DEF TypeOK, Keeps, Holding, FilterAbandon, request, history
  <2>. QED
    BY <1>0, <2>1, KeepsStep
<1>6. CASE FinalizeWriteHeader(w)
  <2>. DEFINE new == [gen |-> rgen[w], key |-> rkey[w],
                      expires |-> now + TTL, from |-> headers_out[w]]
  <2>1. /\ new.from \subseteq made[new.key] /\ new.gen \in made[new.key]
        /\ tmp_header' = tmp_header \cup {new}
    BY <1>6 DEF OwnKey, Holding, FinalizeWriteHeader
  <2>. HIDE DEF new
  <2>. QED
    BY <1>0, <1>6, <2>1 DEF TypeOK, OwnKey, Holding, FinalizeWriteHeader, request, history
<1>7. CASE FinalizeRenameBody(w)
  BY <1>0, <1>7 DEF TypeOK, OwnKey, Holding, FinalizeRenameBody, request, history
<1>8. CASE FinalizeRenameHeader(w)
  <2>1. PICK t \in TempHeaders(w) :
          header' = [header EXCEPT ![rkey[w]] =
                       [gen |-> t.gen, expires |-> t.expires, from |-> t.from]]
    BY <1>8 DEF FinalizeRenameHeader
  <2>2. rgen[w] \in made[rkey[w]] /\ t.gen = rgen[w] /\ t.gen \in made[t.key] /\ t.key \in Keys
    BY <1>0, <1>8, <2>1
    DEF TypeOK, TempType, OwnKey, Holding, FinalizeRenameHeader, TempHeaders
  <2>3. t.key = rkey[w]
    BY <1>0, <2>2 DEF OwnKey
  <2>4. t.from \subseteq made[rkey[w]]
    BY <2>1, <2>3 DEF OwnKey, TempHeaders
  <2>5. \A k \in Keys : header'[k].from \subseteq made[k]
    BY <1>0, <2>1, <2>4 DEF TypeOK, OwnKey
  <2>. QED
    BY <1>0, <1>8, <2>5 DEF TypeOK, OwnKey, Holding, FinalizeRenameHeader, TempHeaders,
                            request, history
<1>9. CASE FinalizeFail(w)
  <2>1. Keeps
    BY <1>0, <1>9 DEF TypeOK, Keeps, Holding, FinalizeFail, request, history
  <2>. QED
    BY <1>0, <2>1, KeepsStep
<1>10. CASE FinishRequest(w)
  <2>1. Keeps
    BY <1>0, <1>10 DEF TypeOK, Keeps, Holding, FinishRequest, Release, files, history
  <2>. QED
    BY <1>0, <2>1, KeepsStep
<1>. QED
  BY <1>1, <1>2, <1>3, <1>4, <1>5, <1>6, <1>7, <1>8, <1>9, <1>10 DEF WorkerStep

\* No step mixes keys: purges and the clock only remove, and a request that
\* starts has nothing yet.
LEMMA OwnKeyStep ==
  ASSUME StoreInv, OwnKey, [Next]_vars
  PROVE  OwnKey'
<1>0. TypeOK /\ TypeOK'
  BY TypeStep DEF StoreInv
<1>1. ASSUME NEW w \in Workers, NEW k \in Keys, NEW head \in BOOLEAN,
             StartRequest(w, k, head)
      PROVE  OwnKey'
  BY <1>0, <1>1 DEF TypeOK, OwnKey, Holding, StartRequest, files, history
<1>2. ASSUME NEW w \in Workers, CrashWorker(w)
      PROVE  Keeps
  BY <1>0, <1>2 DEF TypeOK, Keeps, Holding, CrashWorker, Release, files
<1>3. ASSUME NEW v \in Walkers,
             (\E c \in Commands : StartWalk(v, c)) \/ CrashWalker(v)
      PROVE  Keeps
  BY <1>0, <1>3 DEF TypeOK, Keeps, Holding, StartWalk, CrashWalker, files, worker
<1>4. ASSUME NEW v \in Walkers, WalkerStep(v)
      PROVE  Keeps
  <2>1. CASE \E k \in Keys : VisitEntry(v, k) \/ SweepBody(v, k)
    BY <1>0, <2>1 DEF TypeOK, Keeps, Holding, VisitEntry, SweepBody, files, worker, history
  <2>2. CASE VisitTempHeader(v) \/ DeleteEntryBody(v) \/ DeleteEntryHeader(v)
    BY <1>0, <2>2 DEF TypeOK, Keeps, Holding, VisitTempHeader, DeleteEntryBody,
                      DeleteEntryHeader, worker, history
  <2>3. CASE EndWalk(v) \/ StartSweep(v) \/ EndSweep(v)
    BY <1>0, <2>3 DEF TypeOK, Keeps, Holding, EndWalk, StartSweep, EndSweep, files, worker
  <2>. QED
    BY <1>4, <2>1, <2>2, <2>3 DEF WalkerStep
<1>5. CASE Tick \/ UNCHANGED vars
  <2>1. Keeps
    BY <1>0, <1>5 DEF TypeOK, Keeps, Holding, Tick, vars, files, worker, history
  <2>. QED
    BY <1>0, <2>1, KeepsStep
<1>. QED
  BY <1>0, <1>1, <1>2, <1>3, <1>4, <1>5, WorkerOwnKey, KeepsStep DEF Next, Quiescent

\* Every file of a key and every request for it hold only what was generated
\* for that key.
THEOREM KeysKeepTheirOwn == Spec => []OwnKey
<1>1. Init => OwnKey
  BY AnyKeyInKeys DEF Init, OwnKey, Holding, NoHeader
<1>2. StoreInv /\ OwnKey /\ [Next]_vars => OwnKey'
  BY OwnKeyStep
<1>. QED
  BY <1>1, <1>2, StoreInvariant, PTL DEF Spec

\* However renames, purges, failed opens and crashes interleave, no client is
\* sent headers or a body generated for another key.
THEOREM NoMixing == Spec => []NoCrossTalk
<1>1. OwnKey => NoCrossTalk
  BY DEF OwnKey, NoCrossTalk
<1>. QED
  BY <1>1, KeysKeepTheirOwn, PTL
=============================================================================
