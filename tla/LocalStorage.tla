---------------------------- MODULE LocalStorage ----------------------------
(***************************************************************************)
(* The blob store of infrastructure/storage/local/files.go: one folder per *)
(* alias as it is spelled, since the file system, unlike the table, tells  *)
(* the cases of a letter apart.  A blob is named by the id of the file     *)
(* whose content it is; its name on disk is abstracted, so creating a blob *)
(* may or may not overwrite one that is already in the folder.  A missing  *)
(* folder and an empty one are the same: Download reports ErrFileNotFound  *)
(* for both.                                                               *)
(***************************************************************************)
EXTENDS Domain

VARIABLES
    dir,    \* [Alias -> [Spelling -> SUBSET FileId]]: the blobs in each folder
    whole   \* SUBSET FileId: the blobs whose content was copied completely

storeVars == <<dir, whole>>

StoreTypeOK ==
    /\ dir \in [Alias -> [Spelling -> SUBSET FileId]]
    /\ whole \subseteq FileId

StoreInit ==
    /\ dir = [a \in Alias |-> [s \in Spelling |-> {}]]
    /\ whole = {}

(* MkdirAll and os.Create: an empty blob, in place of a leftover of the    *)
(* same name if there is one.                                              *)
CreateBlob(a, s, f) ==
    /\ \E overwritten \in {{}} \union {{g} : g \in dir[a][s]} :
            dir' = [dir EXCEPT ![a][s] = (@ \ overwritten) \union {f}]
    /\ whole' = whole \ {f}

(* io.Copy and Sync through the open descriptor.  The descriptor outlives  *)
(* the folder, so the copy succeeds even when the blob was unlinked.       *)
FillBlob(f) ==
    /\ whole' = whole \union {f}
    /\ UNCHANGED dir

(* os.RemoveAll of the folder, which succeeds also when there is none.     *)
RemoveFolder(a, s) ==
    /\ dir' = [dir EXCEPT ![a][s] = {}]
    /\ UNCHANGED whole

(* os.RemoveAll that stops at an entry it cannot unlink. *)
RemoveFolderFails(a, s) ==
    /\ \E rest \in SUBSET dir[a][s] : dir' = [dir EXCEPT ![a][s] = rest]
    /\ UNCHANGED whole
=============================================================================
