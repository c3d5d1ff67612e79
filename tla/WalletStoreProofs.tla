--------------------------- MODULE WalletStoreProofs ---------------------------
(***************************************************************************)
(* Proofs about WalletStore for any set of DeleteWallet calls and any      *)
(* admitted faults.                                                        *)
(***************************************************************************)
EXTENDS WalletStore, TLAPS

USE DEF share, Moves, WriteFails, Fails

\* Where the session goroutine stands and the session's status go together; without
\* it the type of the session record is not inductive.
LEMMA SavingStep == SavingMeans /\ [Next]_vars => SavingMeans'
BY DEF SavingMeans, Next, SessionRun, Complete, handleError, OpenShare, FillShare, PutMeta,
       SaveWallet, UpdateSession, CreateWallet, DeleteWallet, Crash, Restart, vars

LEMMA StoreTypeStep == TypeOK /\ SavingMeans /\ [Next]_vars => TypeOK'
<1> SUFFICES ASSUME TypeOK, SavingMeans, [Next]_vars PROVE TypeOK'
  OBVIOUS
<1> USE DEF TypeOK
<1>1. CASE Complete
  <2>1. meta' \in BOOLEAN /\ wallet' \in BOOLEAN /\ failed' \in BOOLEAN /\ clean' \in SUBSET Deletes
    BY <1>1 DEF Complete
  <2>2. /\ UNCHANGED <<up, create, delete>>
        /\ session' \in {"running", "completed", "keyless", "failed", "dead"}
        /\ saving' \in {"idle", "write", "fill", "meta", "wallet", "record", "done"}
        /\ file' \in {"none", "torn", "whole"}
    BY <1>1 DEF Complete
  <2>3. record' \in {"pending", "completed", "failed"}
    BY <1>1 DEF Complete
  <2> QED BY <2>1, <2>2, <2>3
<1>2. CASE handleError
  BY <1>2 DEF handleError
<1>3. CASE OpenShare
  <2>1. meta' \in BOOLEAN /\ wallet' \in BOOLEAN /\ failed' \in BOOLEAN /\ clean' \in SUBSET Deletes
    BY <1>3 DEF OpenShare
  <2>2. /\ UNCHANGED <<up, create, delete>>
        /\ session' \in {"running", "completed", "keyless", "failed", "dead"}
        /\ saving' \in {"idle", "write", "fill", "meta", "wallet", "record", "done"}
        /\ file' \in {"none", "torn", "whole"}
    BY <1>3 DEF OpenShare
  <2>3. record' \in {"pending", "completed", "failed"}
    BY <1>3 DEF OpenShare
  <2> QED BY <2>1, <2>2, <2>3
<1>4. CASE FillShare
  <2>1. meta' \in BOOLEAN /\ wallet' \in BOOLEAN /\ failed' \in BOOLEAN /\ clean' \in SUBSET Deletes
    BY <1>4 DEF FillShare
  <2>2. /\ UNCHANGED <<up, create, delete>>
        /\ session' \in {"running", "completed", "keyless", "failed", "dead"}
        /\ saving' \in {"idle", "write", "fill", "meta", "wallet", "record", "done"}
        /\ file' \in {"none", "torn", "whole"}
    BY <1>4 DEF FillShare
  <2>3. record' \in {"pending", "completed", "failed"}
    BY <1>4 DEF FillShare
  <2> QED BY <2>1, <2>2, <2>3
<1>5. CASE PutMeta
  <2>1. meta' \in BOOLEAN /\ wallet' \in BOOLEAN /\ failed' \in BOOLEAN /\ clean' \in SUBSET Deletes
    BY <1>5 DEF PutMeta
  <2>2. /\ UNCHANGED <<up, create, delete>>
        /\ session' \in {"running", "completed", "keyless", "failed", "dead"}
        /\ saving' \in {"idle", "write", "fill", "meta", "wallet", "record", "done"}
        /\ file' \in {"none", "torn", "whole"}
    BY <1>5 DEF PutMeta
  <2>3. record' \in {"pending", "completed", "failed"}
    BY <1>5 DEF PutMeta
  <2> QED BY <2>1, <2>2, <2>3
<1>6. CASE SaveWallet
  <2>1. meta' \in BOOLEAN /\ wallet' \in BOOLEAN /\ failed' \in BOOLEAN /\ clean' \in SUBSET Deletes
    BY <1>6 DEF SaveWallet
  <2>2. /\ UNCHANGED <<up, create, delete>>
        /\ session' \in {"running", "completed", "keyless", "failed", "dead"}
        /\ saving' \in {"idle", "write", "fill", "meta", "wallet", "record", "done"}
        /\ file' \in {"none", "torn", "whole"}
    BY <1>6 DEF SaveWallet
  <2>3. record' \in {"pending", "completed", "failed"}
    BY <1>6 DEF SaveWallet
  <2> QED BY <2>1, <2>2, <2>3
<1>7. CASE UpdateSession
  <2>1. meta' \in BOOLEAN /\ wallet' \in BOOLEAN /\ failed' \in BOOLEAN /\ clean' \in SUBSET Deletes
    BY <1>7 DEF UpdateSession
  <2>2. /\ UNCHANGED <<up, create, delete>>
        /\ session' \in {"running", "completed", "keyless", "failed", "dead"}
        /\ saving' \in {"idle", "write", "fill", "meta", "wallet", "record", "done"}
        /\ file' \in {"none", "torn", "whole"}
    BY <1>7 DEF UpdateSession
  <2>3. record' \in {"pending", "completed", "failed"}
    BY <1>7 DEF UpdateSession, SavingMeans
  <2> QED BY <2>1, <2>2, <2>3
<1>8. CASE CreateWallet
  <2>1. meta' \in BOOLEAN /\ wallet' \in BOOLEAN /\ failed' \in BOOLEAN /\ clean' \in SUBSET Deletes
    BY <1>8 DEF CreateWallet
  <2>2. /\ UNCHANGED <<up, session, saving, file, record, delete>>
        /\ create' \in {"save", "ok", "error"}
    BY <1>8 DEF CreateWallet
  <2> QED BY <2>1, <2>2
<1>9. ASSUME NEW d \in Deletes, DeleteWallet(d)
      PROVE  TypeOK'
  <2>1. meta' \in BOOLEAN /\ wallet' \in BOOLEAN /\ failed' \in BOOLEAN /\ clean' \in SUBSET Deletes
    BY <1>9 DEF DeleteWallet, GetWallet, RemoveShare, DeleteMeta, DropWallet
  <2>2. /\ UNCHANGED <<up, session, saving, record, create>>
        /\ file' \in {file, "none"}
        /\ \E to \in {"remove", "meta", "wallet", "deleted", "error", "missing"} :
              delete' = [delete EXCEPT ![d] = to]
    BY <1>9 DEF DeleteWallet, GetWallet, RemoveShare, DeleteMeta, DropWallet
  <2> QED BY <2>1, <2>2
<1>10. CASE Crash
  BY <1>10 DEF Crash
<1>11. CASE Restart
  BY <1>11 DEF Restart
<1>12. CASE UNCHANGED vars
  BY <1>12 DEF vars
<1> QED
  BY <1>1, <1>2, <1>3, <1>4, <1>5, <1>6, <1>7, <1>8, <1>9, <1>10, <1>11, <1>12
  DEF Next, SessionRun

\* Every variable of the store keeps its type.
THEOREM StoreTypeCorrect == Spec => []TypeOK
<1>1. Init => TypeOK /\ SavingMeans
  BY DEF Init, TypeOK, SavingMeans
<1> QED BY <1>1, SavingStep, StoreTypeStep, PTL DEF Spec

\* Once a deletion has begun to take things away it has begun for good.
LEMMA UndeletedBefore ==
    ASSUME TypeOK, [Next]_vars, Undeleted'
    PROVE  Undeleted
<1> SUFFICES ASSUME NEW e \in Deletes PROVE delete[e] \in {"idle", "missing"}
  BY DEF Undeleted
<1>0. delete'[e] \in {"idle", "missing"}
  BY DEF Undeleted
<1>1. CASE UNCHANGED delete
  BY <1>0, <1>1
<1>2. ASSUME NEW d \in Deletes, DeleteWallet(d)
      PROVE  delete[e] \in {"idle", "missing"}
  <2>1. CASE d = e
    BY <1>0, <1>2, <2>1 DEF TypeOK, DeleteWallet, GetWallet, RemoveShare, DeleteMeta, DropWallet
  <2>2. CASE d # e
    BY <1>0, <1>2, <2>2 DEF TypeOK, DeleteWallet, GetWallet, RemoveShare, DeleteMeta, DropWallet
  <2> QED BY <2>1, <2>2
<1>3. CASE Crash
  BY <1>0, <1>3 DEF Crash
<1> QED
  BY <1>1, <1>2, <1>3
  DEF Next, SessionRun, Complete, handleError, OpenShare, FillShare, PutMeta, SaveWallet,
      UpdateSession, CreateWallet, Restart, vars

\* A DeleteWallet call that has found nothing, or has not begun, has changed nothing.
LEMMA UndeletedStep ==
    ASSUME TypeOK, NEW d \in Deletes, DeleteWallet(d), Undeleted, Undeleted'
    PROVE  UNCHANGED <<share, wallet>>
<1>1. delete[d] \in {"idle", "missing"}
  BY DEF Undeleted
<1> QED BY <1>1 DEF DeleteWallet, GetWallet, RemoveShare, DeleteMeta, DropWallet

LEMMA StoreStep == TypeOK /\ StoreInv /\ [Next]_vars => StoreInv'
<1> SUFFICES ASSUME TypeOK, StoreInv, [Next]_vars PROVE StoreInv'
  OBVIOUS
<1>0. Undeleted' => Undeleted
  BY UndeletedBefore
<1> USE DEF TypeOK, StoreInv, SavingMeans, MetaMeansShare, CompletedMeansStored
<1>1. CASE Complete
  BY <1>0, <1>1 DEF Complete
<1>2. CASE handleError
  BY <1>0, <1>2 DEF handleError
<1>3. CASE OpenShare
  BY <1>0, <1>3 DEF OpenShare
<1>4. CASE FillShare
  BY <1>0, <1>4 DEF FillShare
<1>5. CASE PutMeta
  BY <1>0, <1>5 DEF PutMeta
<1>6. CASE SaveWallet
  BY <1>0, <1>6 DEF SaveWallet
<1>7. CASE UpdateSession
  BY <1>0, <1>7 DEF UpdateSession
<1>8. CASE CreateWallet
  BY <1>0, <1>8 DEF CreateWallet
<1>9. ASSUME NEW d \in Deletes, DeleteWallet(d)
      PROVE  StoreInv'
  <2>1. UNCHANGED <<up, session, saving, record, failed>>
    BY <1>9 DEF DeleteWallet
  <2>2. Undeleted' => UNCHANGED <<share, wallet>>
    BY <1>0, <1>9, UndeletedStep
  <2> QED BY <1>0, <2>1, <2>2
<1>10. CASE Crash
  BY <1>0, <1>10 DEF Crash
<1>11. CASE Restart
  BY <1>0, <1>11 DEF Restart
<1>12. CASE UNCHANGED vars
  BY <1>0, <1>12 DEF vars
<1> QED
  BY <1>1, <1>2, <1>3, <1>4, <1>5, <1>6, <1>7, <1>8, <1>9, <1>10, <1>11, <1>12
  DEF Next, SessionRun

\* The order of the writes is kept whatever fails and wherever the process dies.
THEOREM StoreHolds == Spec => []StoreInv
<1>1. Init => StoreInv
  BY DEF Init, StoreInv, SavingMeans, MetaMeansShare, CompletedMeansStored
<1> QED BY <1>1, StoreTypeCorrect, StoreStep, PTL DEF Spec

\* Metadata without a whole share file is only ever seen on a deleted wallet.
THEOREM MetadataTellsTheTruth == Spec => []MetaMeansShare
<1>1. StoreInv => MetaMeansShare
  BY DEF StoreInv, MetaMeansShare
<1> QED BY <1>1, StoreHolds, PTL

\* A session record "completed" means that the node can sign, unless a write had
\* failed or the wallet was deleted.
THEOREM CompletedTellsTheTruth == Spec => []CompletedMeansStored
<1>1. StoreInv => CompletedMeansStored
  BY DEF StoreInv, CompletedMeansStored
<1> QED BY <1>1, StoreHolds, PTL

\* A deletion that begins when all is saved, and meets no error, leaves nothing.
LEMMA CleanStep == TypeOK /\ StoreInv /\ CleanInv /\ [Next]_vars => CleanInv'
<1> SUFFICES ASSUME TypeOK, StoreInv, CleanInv, [Next]_vars PROVE CleanInv'
  OBVIOUS
<1> USE DEF CleanInv, Saved
<1>1. CASE SessionRun
  <2>1. UNCHANGED <<create, delete, clean>>
    BY <1>1 DEF SessionRun, Complete, handleError, OpenShare, FillShare, PutMeta, SaveWallet,
                UpdateSession
  <2>2. saving \in {"record", "done"} => UNCHANGED <<share, wallet>> /\ saving' \in {"record", "done"}
    BY <1>1 DEF SessionRun, Complete, handleError, OpenShare, FillShare, PutMeta, SaveWallet,
                UpdateSession, StoreInv, SavingMeans
  <2> QED BY <2>1, <2>2
<1>2. CASE CreateWallet
  <2>1. create \in {"await", "save"} /\ UNCHANGED clean
    BY <1>2 DEF CreateWallet
  <2>2. clean = {}
    BY <2>1
  <2> QED BY <2>1, <2>2
<1>3. ASSUME NEW d \in Deletes, DeleteWallet(d)
      PROVE  CleanInv'
  <2>0. /\ UNCHANGED <<saving, create>>
        /\ \A e \in Deletes : e # d => delete'[e] = delete[e]
    BY <1>3 DEF DeleteWallet, GetWallet, RemoveShare, DeleteMeta, DropWallet, TypeOK
  <2>1. clean' # {} => Saved'
    BY <1>3, <2>0 DEF DeleteWallet, GetWallet, RemoveShare, DeleteMeta, DropWallet
  <2>2. \A e \in clean' : e # d => e \in clean
    BY <1>3 DEF DeleteWallet, GetWallet, RemoveShare, DeleteMeta, DropWallet
  <2>3. (file = "none" => file' = "none") /\ (~meta => ~meta') /\ (~wallet => ~wallet')
    BY <1>3 DEF DeleteWallet, GetWallet, RemoveShare, DeleteMeta, DropWallet
  <2>4. d \in clean' =>
          /\ delete'[d] # "idle"
          /\ delete'[d] \in {"meta", "wallet", "deleted"} => file' = "none"
          /\ delete'[d] \in {"wallet", "deleted"} => ~meta'
          /\ delete'[d] = "deleted" => ~wallet'
    <3>1. CASE GetWallet(d)
      BY <3>1 DEF GetWallet, TypeOK
    <3>2. CASE RemoveShare(d)
      BY <3>2 DEF RemoveShare, TypeOK
    <3>3. CASE DeleteMeta(d)
      BY <3>3 DEF DeleteMeta, TypeOK
    <3>4. CASE DropWallet(d)
      BY <3>4 DEF DropWallet, TypeOK
    <3> QED BY <1>3, <3>1, <3>2, <3>3, <3>4 DEF DeleteWallet
  <2>5. clean' \subseteq Deletes
    BY <1>3 DEF DeleteWallet, GetWallet, RemoveShare, DeleteMeta, DropWallet, TypeOK
  <2> QED BY <2>0, <2>1, <2>2, <2>3, <2>4, <2>5
<1>4. CASE Crash
  <2>1. /\ clean' = clean /\ UNCHANGED <<share, wallet>>
        /\ saving' = "done" /\ create' \notin {"await", "save"}
    BY <1>4 DEF Crash, TypeOK
  <2>2. \A d \in Deletes : delete'[d] = delete[d] \/ delete'[d] = "lost"
    BY <1>4 DEF Crash, TypeOK
  <2> QED BY <2>1, <2>2 DEF TypeOK
<1>5. CASE Restart
  BY <1>5 DEF Restart
<1>6. CASE UNCHANGED vars
  BY <1>6 DEF vars
<1> QED BY <1>1, <1>2, <1>3, <1>4, <1>5, <1>6 DEF Next

\* Only an error of the deletion itself, or a save still to come when it began, leaves
\* or restores a part of a deleted wallet.
THEOREM CleanDeletionHolds == Spec => []CleanDeletionLasts
<1>1. Init => CleanInv
  BY DEF Init, CleanInv
<1>2. CleanInv => CleanDeletionLasts
  BY DEF CleanInv, CleanDeletionLasts
<1> QED BY <1>1, <1>2, StoreTypeCorrect, StoreHolds, CleanStep, PTL DEF Spec
=============================================================================
