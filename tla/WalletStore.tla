----------------------------- MODULE WalletStore -----------------------------
(***************************************************************************)
(* What one node stores of one wallet, and who writes it: the goroutine of *)
(* the keygen session (handleSuccess), the HTTP handler that waits for it  *)
(* in CreateWallet, and the HTTP handlers that run DeleteWallet.  A share  *)
(* file, its LevelDB metadata, the wallet record and the session record    *)
(* are written one after the other, without a transaction, while the       *)
(* process may die between any two writes.                                 *)
(*                                                                         *)
(* Source: src/internal/tss/keygen.go, src/internal/wallet/manager.go and  *)
(* the repositories of src/internal/storage.                               *)
(***************************************************************************)

CONSTANTS
    Deletes,    \* the DeleteWallet calls made to this node
    Faults      \* which faults this instance admits

\* "io": a write to the disk or to LevelDB returns an error; "result": the TSS
\* result holds no public key (RecoverPublicKey fails); "timeout": the session or the caller
\* runs into its deadline; "crash": the process dies, once, and comes back.
ASSUME FaultsAssumption == Faults \subseteq {"io", "result", "timeout", "crash"}

VARIABLES
    up,       \* the process is "up", "down" or "back"
    session,  \* KeygenSession.status; "keyless" when it completed without a public key
    saving,   \* the next write of the session goroutine
    file,     \* the share file: "torn" while os.WriteFile is at work on it
    meta,     \* the share's metadata is in LevelDB
    wallet,   \* the wallet record is in LevelDB
    record,   \* SessionState.Status in LevelDB
    create,   \* the CreateWallet call; "none" on a node that only takes part
    delete,   \* delete[d]: how far DeleteWallet call d is
    failed,   \* history: some write of the session goroutine returned an error
    clean     \* history: deletions begun when nobody was saving, so far without an error

share == <<file, meta>>
vars == <<up, session, saving, share, wallet, record, create, delete, failed, clean>>

TypeOK ==
    /\ up \in {"up", "down", "back"}
    /\ session \in {"running", "completed", "keyless", "failed", "dead"}
    /\ saving \in {"idle", "write", "fill", "meta", "wallet", "record", "done"}
    /\ file \in {"none", "torn", "whole"}
    /\ meta \in BOOLEAN /\ wallet \in BOOLEAN
    /\ record \in {"pending", "completed", "failed"}
    /\ create \in {"none", "await", "save", "ok", "error", "lost"}
    /\ delete \in [Deletes -> {"idle", "remove", "meta", "wallet", "deleted", "error", "missing", "lost"}]
    /\ failed \in BOOLEAN
    /\ clean \in SUBSET Deletes

\* The session is running; its node waits for it if it is the initiator's.
Init ==
    /\ up = "up"
    /\ session = "running" /\ saving = "idle"
    /\ file = "none" /\ meta = FALSE /\ wallet = FALSE
    /\ record = "pending"
    /\ create \in {"none", "await"}
    /\ delete = [d \in Deletes |-> "idle"]
    /\ failed = FALSE /\ clean = {}

IOError == "io" \in Faults
Timeout == "timeout" \in Faults

-----------------------------------------------------------------------------
(* The session goroutine.                                                  *)

\* handleSuccess makes the status visible before it saves anything; without a
\* public key it saves nothing.
Complete ==
    /\ session = "running"
    /\ \/ session' = "completed" /\ saving' = "write"
       \/ "result" \in Faults /\ session' = "keyless" /\ saving' = "done"
    /\ UNCHANGED <<up, share, wallet, record, create, delete, failed, clean>>

handleError ==
    /\ session = "running" /\ Timeout
    /\ session' = "failed" /\ saving' = "record"
    /\ UNCHANGED <<up, share, wallet, record, create, delete, failed, clean>>

\* A write of the session goroutine fails: the error is logged, and the goroutine
\* goes on with its step "next".
WriteFails(next) == IOError /\ failed' = TRUE /\ saving' = next

\* Mutant: a wallet record is taken to mean that everything is saved already.
OpenShareUnlessWallet ==
    /\ saving = "write"
    /\ IF wallet THEN saving' = "record" /\ UNCHANGED file
       ELSE saving' = "fill" /\ file' = "torn"
    /\ UNCHANGED <<up, session, meta, wallet, record, create, delete, failed, clean>>

\* os.WriteFile truncates the file or creates it ...
OpenShare ==
    /\ saving = "write"
    /\ \/ saving' = "fill" /\ file' = "torn" /\ UNCHANGED failed
       \/ WriteFails("wallet") /\ UNCHANGED file
    /\ UNCHANGED <<up, session, meta, wallet, record, create, delete, clean>>

\* Mutant: an error of os.WriteFile is overlooked and the metadata written.
FillShareAnyhow ==
    /\ saving = "fill"
    /\ \/ /\ saving' = "meta" /\ UNCHANGED failed
          /\ file' = IF file = "torn" THEN "whole" ELSE file
       \/ WriteFails("meta") /\ UNCHANGED file
    /\ UNCHANGED <<up, session, meta, wallet, record, create, delete, clean>>

\* ... and then writes the share into it, which reaches no file when the name has
\* been removed in between.  An error ends SaveKeyShare.
FillShare ==
    /\ saving = "fill"
    /\ \/ /\ saving' = "meta" /\ UNCHANGED failed
          /\ file' = IF file = "torn" THEN "whole" ELSE file
       \/ WriteFails("wallet") /\ UNCHANGED file
    /\ UNCHANGED <<up, session, meta, wallet, record, create, delete, clean>>

PutMeta ==
    /\ saving = "meta"
    /\ \/ saving' = "wallet" /\ meta' = TRUE /\ UNCHANGED failed
       \/ WriteFails("wallet") /\ UNCHANGED meta
    /\ UNCHANGED <<up, session, file, wallet, record, create, delete, clean>>

SaveWallet ==
    /\ saving = "wallet"
    /\ \/ saving' = "record" /\ wallet' = TRUE /\ UNCHANGED failed
       \/ WriteFails("record") /\ UNCHANGED wallet
    /\ UNCHANGED <<up, session, share, record, create, delete, clean>>

\* Mutant: the session record is settled as soon as the status is.
UpdateSessionAtOnce ==
    /\ session \in {"completed", "failed"} /\ record = "pending"
    /\ record' = session
    /\ saving' = IF saving = "record" THEN "done" ELSE saving
    /\ UNCHANGED <<up, session, share, wallet, create, delete, failed, clean>>

\* Mutant: the record always shows the session's current status.
UpdateSessionAnyStatus ==
    /\ record # session
    /\ record' = session
    /\ saving' = IF saving = "record" THEN "done" ELSE saving
    /\ UNCHANGED <<up, session, share, wallet, create, delete, failed, clean>>

UpdateSession ==
    /\ saving = "record"
    /\ \/ saving' = "done" /\ record' = session /\ UNCHANGED failed
       \/ WriteFails("done") /\ UNCHANGED record
    /\ UNCHANGED <<up, session, share, wallet, create, delete, clean>>

SessionRun ==
    Complete \/ handleError \/ OpenShare \/ FillShare \/ PutMeta \/ SaveWallet \/ UpdateSession

-----------------------------------------------------------------------------
(* The HTTP handlers.                                                      *)

\* CreateWallet polls the session and then saves the wallet record itself.
CreateWallet ==
    /\ \/ /\ create = "await"
          /\ \/ session = "completed" /\ create' = "save"
             \/ session \in {"failed", "keyless"} /\ create' = "error"
             \/ Timeout /\ create' = "error"
          /\ UNCHANGED wallet
       \/ /\ create = "save"
          /\ \/ wallet' = TRUE /\ create' = "ok"
             \/ IOError /\ create' = "error" /\ UNCHANGED wallet
    /\ UNCHANGED <<up, session, saving, share, record, delete, failed, clean>>

Moves(d, to) == delete' = [delete EXCEPT ![d] = to]
Fails(d) == IOError /\ clean' = clean \ {d}

\* Neither the session goroutine nor CreateWallet has anything of the wallet to save.
Saved == saving \in {"record", "done"} /\ create \notin {"await", "save"}

GetWallet(d) ==
    /\ delete[d] = "idle" /\ up # "down"
    /\ Moves(d, IF wallet THEN "remove" ELSE "missing")
    /\ clean' = IF wallet /\ Saved THEN clean \cup {d} ELSE clean
    /\ UNCHANGED <<share, wallet>>

\* Mutant: what DeleteKeyShare returns early on a file that is not there.
RemoveShareFound(d) ==
    /\ delete[d] = "remove"
    /\ \/ /\ Moves(d, IF file = "none" THEN "wallet" ELSE "meta")
          /\ file' = "none" /\ UNCHANGED clean
       \/ Fails(d) /\ Moves(d, "wallet") /\ UNCHANGED file
    /\ UNCHANGED <<meta, wallet>>

\* DeleteKeyShare: an error of os.Remove leaves the metadata; DeleteWallet logs
\* it and goes on.
RemoveShare(d) ==
    /\ delete[d] = "remove"
    /\ \/ Moves(d, "meta") /\ file' = "none" /\ UNCHANGED clean
       \/ Fails(d) /\ Moves(d, "wallet") /\ UNCHANGED file
    /\ UNCHANGED <<meta, wallet>>

DeleteMeta(d) ==
    /\ delete[d] = "meta"
    /\ Moves(d, "wallet")
    /\ \/ meta' = FALSE /\ UNCHANGED clean
       \/ Fails(d) /\ UNCHANGED meta
    /\ UNCHANGED <<file, wallet>>

DropWallet(d) ==
    /\ delete[d] = "wallet"
    /\ \/ Moves(d, "deleted") /\ wallet' = FALSE
       \/ IOError /\ Moves(d, "error") /\ UNCHANGED wallet
    /\ UNCHANGED <<share, clean>>

DeleteWallet(d) ==
    /\ GetWallet(d) \/ RemoveShare(d) \/ DeleteMeta(d) \/ DropWallet(d)
    /\ UNCHANGED <<up, session, saving, record, create, failed>>

-----------------------------------------------------------------------------
(* The process.                                                            *)

Crash ==
    /\ "crash" \in Faults /\ up = "up"
    /\ up' = "down"
    /\ session' = "dead" /\ saving' = "done"
    /\ create' = IF create \in {"await", "save"} THEN "lost" ELSE create
    /\ delete' = [d \in Deletes |->
                    IF delete[d] \in {"remove", "meta", "wallet"} THEN "lost" ELSE delete[d]]
    /\ UNCHANGED <<share, wallet, record, failed, clean>>

Restart ==
    /\ up = "down"
    /\ up' = "back"
    /\ UNCHANGED <<session, saving, share, wallet, record, create, delete, failed, clean>>

Next ==
    \/ SessionRun \/ CreateWallet
    \/ \E d \in Deletes : DeleteWallet(d)
    \/ Crash \/ Restart

Spec == Init /\ [][Next]_vars

\* The session goroutine and the waiting handler get the processor.
Fairness == WF_vars(SessionRun) /\ WF_vars(CreateWallet)

FairSpec == Spec /\ Fairness

-----------------------------------------------------------------------------
(* Properties.                                                             *)

Undeleted == \A d \in Deletes : delete[d] \in {"idle", "missing"}

\* HasKeyShare looks at the metadata only (keyshare_repo.go:116): as long as
\* nobody deletes, it never speaks of a share whose file is missing or half
\* written, after crashes and failed writes too.
MetaMeansShare == Undeleted /\ meta => file = "whole"

\* The session record says "completed" only when share and wallet are stored
\* (no write failed and nothing was deleted): after a restart the record tells
\* whether the node can sign.
CompletedMeansStored ==
    record = "completed" /\ Undeleted /\ ~failed => file = "whole" /\ meta /\ wallet

\* Where the session goroutine stands and the session's status go together.
SavingMeans ==
    /\ session = "running" => saving = "idle"
    /\ saving \in {"write", "fill", "meta", "wallet"} => session = "completed"
    /\ saving = "record" => session \in {"completed", "failed"}

\* Why both hold, as an inductive invariant: the goroutine writes file, metadata,
\* wallet and record in this order, and each write stands when the next begins.
StoreInv ==
    /\ SavingMeans
    /\ record = "completed" => saving = "done"
    /\ Undeleted =>
          /\ MetaMeansShare
          /\ CompletedMeansStored
          /\ saving \in {"idle", "write", "fill", "meta"} => ~meta
          /\ saving = "fill" => file = "torn"
          /\ saving = "meta" => file = "whole"
          /\ session = "completed" /\ ~failed =>
                /\ saving \in {"wallet", "record", "done"} => file = "whole" /\ meta
                /\ saving \in {"record", "done"} => wallet

\* The caller may get the address before the share is on disk; while the process
\* lives and the writes succeed it will be.
CreatedGetsShare ==
    create = "ok" ~> \/ file = "whole" /\ meta
                     \/ up # "up" \/ ~Undeleted \/ failed

\* What a deletion leaves behind, or what comes back after it was answered with
\* {"deleted": true} (server.go:267), is due to an error it logged itself
\* (manager.go:169) or to a save that was still to come when it
\* began (keygen.go:417, 438, manager.go:132), and to nothing else: no second deletion,
\* crash or late step of the session restores any part of the wallet.
CleanDeletionLasts ==
    \A d \in clean : delete[d] = "deleted" => file = "none" /\ ~meta /\ ~wallet

\* Why it holds: a deletion that began when all was saved takes file, metadata and
\* wallet in this order, and nobody is left who could write them again.
CleanInv ==
    /\ clean # {} => Saved
    /\ \A d \in clean :
          /\ delete[d] # "idle"
          /\ delete[d] \in {"meta", "wallet", "deleted"} => file = "none"
          /\ delete[d] \in {"wallet", "deleted"} => ~meta
          /\ delete[d] = "deleted" => ~wallet
=============================================================================
