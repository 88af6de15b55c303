----------------------------- MODULE PageStore ------------------------------
(***************************************************************************)
(* The page files of proveKV (page_store.rs, recovery.rs) on a file system *)
(* that may crash.  Writers are threads inside PageStore::write_page, each *)
(* between two system calls; a page is named by the digest of its payload, *)
(* and both its temporary and its final name derive from that digest.      *)
(*                                                                         *)
(* The file system is external.  A name leads to an inode; an inode has    *)
(* bytes in memory and bytes on disk.  fsync of a file makes its bytes     *)
(* durable, fsync of the directory its names.  A crash keeps, for each     *)
(* file, its durable bytes and any part of what was written since; and the *)
(* names as they stood at some moment since the directory was last synced. *)
(*                                                                         *)
(* A definition whose name starts with Wrong is a mistake the definition   *)
(* after it could have had; no specification uses it.                      *)
(***************************************************************************)
EXTENDS FiniteSets

CONSTANTS
    Writer,     \* callers of write_page
    Page,       \* payload digests
    Inode,      \* files the file system can make
    NoInode,    \* where a name that does not exist leads
    MayShare    \* two callers may work on the same page at the same time

ASSUME PageStoreAssumption ==
    /\ NoInode \notin Inode
    /\ MayShare \in BOOLEAN

VARIABLES
    dir,        \* where the temporary and the final names lead
    dirLog,     \* every value of dir since the directory was synced, dir too
    data,       \* the bytes of each inode, as readers see them
    disk,       \* the bytes of each inode that are durable
    pc,         \* where each writer is in write_page, or what it returned
    page,       \* the page each writer works on
    file,       \* the inode each writer has open
    acked       \* pages whose last write_page returned Ok and not yet deleted

vars == <<dir, dirLog, data, disk, pc, page, file, acked>>
fileVars == <<data, disk>>
dirVars == <<dir, dirLog>>
-----------------------------------------------------------------------------
(* A file is written in two parts: the header line and the payload. *)
Part == {"header", "payload"}

Names == [tmp : [Page -> Inode \cup {NoInode}], dest : [Page -> Inode \cup {NoInode}]]

(* Where a writer is: before the call it is about to make, or returned. *)
Returned == {"idle", "ok", "err"}
Running == {"create", "header", "payload", "fsync", "rename", "syncdir"}

Busy(p) == \E w \in Writer : pc[w] \in Running /\ page[w] = p

(* Rust's borrow rules keep a writer out while a collection deletes pages, *)
(* but nothing keeps two writers from the same page.                       *)
Allowed(p) == MayShare \/ ~Busy(p)

InUse == {n.tmp[p] : n \in dirLog, p \in Page}
         \cup {n.dest[p] : n \in dirLog, p \in Page}
         \cup {file[w] : w \in Writer}

Whole(bytes) == bytes = Part

(* What a crash can leave of an inode. *)
Leftover(i) == {b \in SUBSET Part : /\ data[i] \cap disk[i] \subseteq b
                                    /\ b \subseteq data[i] \cup disk[i]}

ChangeNames(n) == dir' = n /\ dirLog' = dirLog \cup {n}

Goto(w, label) == pc' = [pc EXCEPT ![w] = label]
-----------------------------------------------------------------------------
Init ==
    /\ dir = [tmp |-> [p \in Page |-> NoInode], dest |-> [p \in Page |-> NoInode]]
    /\ dirLog = {dir}
    /\ data = [i \in Inode |-> {}]
    /\ disk = [i \in Inode |-> {}]
    /\ pc = [w \in Writer |-> "idle"]
    /\ page \in [Writer -> Page]
    /\ file = [w \in Writer |-> NoInode]
    /\ acked = {}

(* The header is validated against the payload; a stale temporary file is  *)
(* removed.                                                                *)
Begin(w, p) ==
    /\ pc[w] \in Returned
    /\ Allowed(p)
    /\ page' = [page EXCEPT ![w] = p]
    /\ ChangeNames([dir EXCEPT !.tmp[p] = NoInode])
    /\ Goto(w, "create")
    /\ UNCHANGED <<fileVars, file, acked>>

(* File::create: a new file, or the one another caller has put there since *)
(* Begin, emptied.                                                         *)
Create(w) ==
    /\ pc[w] = "create"
    /\ \E i \in Inode :
         /\ IF dir.tmp[page[w]] = NoInode
            THEN i \notin InUse /\ disk' = [disk EXCEPT ![i] = {}]
            ELSE i = dir.tmp[page[w]] /\ UNCHANGED disk
         /\ data' = [data EXCEPT ![i] = {}]
         /\ file' = [file EXCEPT ![w] = i]
         /\ ChangeNames([dir EXCEPT !.tmp[page[w]] = i])
    /\ Goto(w, "header")
    /\ UNCHANGED <<page, acked>>

WriteHeader(w) ==
    /\ pc[w] = "header"
    /\ data' = [data EXCEPT ![file[w]] = @ \cup {"header"}]
    /\ Goto(w, "payload")
    /\ UNCHANGED <<dirVars, disk, page, file, acked>>

(* Mistake: the file is not synced before the rename. *)
WrongWritePayload(w) ==
    /\ pc[w] = "payload"
    /\ data' = [data EXCEPT ![file[w]] = @ \cup {"payload"}]
    /\ file' = [file EXCEPT ![w] = NoInode]
    /\ Goto(w, "rename")
    /\ UNCHANGED <<dirVars, disk, page, acked>>

WritePayload(w) ==
    /\ pc[w] = "payload"
    /\ data' = [data EXCEPT ![file[w]] = @ \cup {"payload"}]
    /\ Goto(w, "fsync")
    /\ UNCHANGED <<dirVars, disk, page, file, acked>>

(* Mistake: the file stays open after the last call on it. *)
WrongSyncFile(w) ==
    /\ pc[w] = "fsync"
    /\ disk' = [disk EXCEPT ![file[w]] = data[file[w]]]
    /\ Goto(w, "rename")
    /\ UNCHANGED <<dirVars, data, page, file, acked>>

(* sync_all, and the file is closed. *)
SyncFile(w) ==
    /\ pc[w] = "fsync"
    /\ disk' = [disk EXCEPT ![file[w]] = data[file[w]]]
    /\ file' = [file EXCEPT ![w] = NoInode]
    /\ Goto(w, "rename")
    /\ UNCHANGED <<dirVars, data, page, acked>>

(* Mistake: the directory is not synced after the rename. *)
WrongRename(w) ==
    /\ pc[w] = "rename"
    /\ dir.tmp[page[w]] # NoInode
    /\ ChangeNames([dir EXCEPT !.dest[page[w]] = dir.tmp[page[w]],
                               !.tmp[page[w]] = NoInode])
    /\ acked' = acked \cup {page[w]}
    /\ Goto(w, "ok")
    /\ UNCHANGED <<fileVars, page, file>>

(* The file that has the temporary name now gets the final name. *)
Rename(w) ==
    /\ pc[w] = "rename"
    /\ dir.tmp[page[w]] # NoInode
    /\ ChangeNames([dir EXCEPT !.dest[page[w]] = dir.tmp[page[w]],
                               !.tmp[page[w]] = NoInode])
    /\ Goto(w, "syncdir")
    /\ UNCHANGED <<fileVars, page, file, acked>>

SyncDir(w) ==
    /\ pc[w] = "syncdir"
    /\ dirLog' = {dir}
    /\ acked' = acked \cup {page[w]}
    /\ Goto(w, "ok")
    /\ UNCHANGED <<dir, fileVars, page, file>>

(* A call returns an error and `?` leaves write_page at once: the file is  *)
(* closed and nothing is removed.  It covers a rename of a name that is    *)
(* gone.                                                                   *)
Fail(w) ==
    /\ pc[w] \in Running
    /\ file' = [file EXCEPT ![w] = NoInode]
    /\ Goto(w, "err")
    /\ UNCHANGED <<dirVars, fileVars, page, acked>>

(* delete_page: the directory is not synced. *)
Delete(p) ==
    /\ Allowed(p)
    /\ dir.dest[p] # NoInode
    /\ ChangeNames([dir EXCEPT !.dest[p] = NoInode])
    /\ acked' = acked \ {p}
    /\ UNCHANGED <<fileVars, pc, page, file>>

(* The machine stops; the store is opened again and no writer runs. *)
Crash ==
    /\ dir' \in dirLog
    /\ dirLog' = {dir'}
    /\ data' \in {f \in [Inode -> SUBSET Part] : \A i \in Inode : f[i] \in Leftover(i)}
    /\ disk' = data'
    /\ pc' = [w \in Writer |-> "idle"]
    /\ file' = [w \in Writer |-> NoInode]
    /\ UNCHANGED <<page, acked>>

(* Mistake: recovery removes the pages with the temporary files. *)
WrongRecover ==
    /\ \A w \in Writer : pc[w] \in Returned
    /\ ChangeNames([tmp |-> [p \in Page |-> NoInode],
                    dest |-> [p \in Page |-> NoInode]])
    /\ UNCHANGED <<fileVars, pc, page, file, acked>>

(* recovery::recover, meant for startup: temporary files are removed, and  *)
(* pages that cannot be read are reported but left where they are.         *)
Recover ==
    /\ \A w \in Writer : pc[w] \in Returned
    /\ ChangeNames([dir EXCEPT !.tmp = [p \in Page |-> NoInode]])
    /\ UNCHANGED <<fileVars, pc, page, file, acked>>

Next ==
    \/ \E w \in Writer : \/ \E p \in Page : Begin(w, p)
                         \/ Create(w)
                         \/ WriteHeader(w)
                         \/ WritePayload(w)
                         \/ SyncFile(w)
                         \/ Rename(w)
                         \/ SyncDir(w)
                         \/ Fail(w)
    \/ \E p \in Page : Delete(p)
    \/ Crash
    \/ Recover

Spec == Init /\ [][Next]_vars
-----------------------------------------------------------------------------
(* Properties.                                                             *)

(* Every variable has its type, and a writer has a file open exactly while *)
(* it writes and syncs it, whichever call fails and whenever the machine   *)
(* stops.                                                                  *)
TypeOK ==
    /\ dir \in Names
    /\ dirLog \subseteq Names /\ dir \in dirLog
    /\ data \in [Inode -> SUBSET Part]
    /\ disk \in [Inode -> SUBSET Part]
    /\ pc \in [Writer -> Returned \cup Running]
    /\ page \in [Writer -> Page]
    /\ file \in [Writer -> Inode \cup {NoInode}]
    /\ \A w \in Writer : file[w] # NoInode <=> pc[w] \in {"header", "payload", "fsync"}
    /\ acked \subseteq Page

(* page_store.rs:50, "Write a page atomically": whenever the machine       *)
(* stops, a file under a final name holds a whole page.                    *)
NoTornPage ==
    \A n \in dirLog, p \in Page :
        n.dest[p] # NoInode =>
            \A b \in Leftover(n.dest[p]) : Whole(b)

(* page_store.rs:3, the file and the directory are synced: a page that     *)
(* write_page returned Ok for is there after a crash at any moment, until  *)
(* it is deleted.                                                          *)
OkSurvivesCrash ==
    \A n \in dirLog, p \in acked :
        /\ n.dest[p] # NoInode
        /\ \A b \in Leftover(n.dest[p]) : Whole(b)

(* The page store implements PageRegistry: a page appears whole at its     *)
(* rename, and only a delete or a crash before the sync takes it away.     *)
Present == {p \in Page : dir.dest[p] # NoInode /\ Whole(data[dir.dest[p]])}

Registry == INSTANCE PageRegistry WITH present <- Present, promised <- acked

ImplementsRegistry == Registry!Spec
=============================================================================
