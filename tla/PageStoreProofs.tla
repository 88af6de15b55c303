--------------------------- MODULE PageStoreProofs ---------------------------
(***************************************************************************)
(* Theorems about PageStore for every set of writers, pages and inodes.    *)
(* TypeOK holds whoever shares a page; the others hold as long as no two   *)
(* callers work on the same page at once (MayShare is FALSE).              *)
(***************************************************************************)
EXTENDS PageStore, TLAPS

(***************************************************************************)
(* The type invariant.                                                     *)
(***************************************************************************)
(* What ChangeNames and Goto keep. *)
LEMMA ChangedNames ==
    ASSUME TypeOK, NEW n \in Names, ChangeNames(n)
    PROVE  dir' \in Names /\ dirLog' \subseteq Names /\ dir' \in dirLog'
  BY DEF TypeOK, ChangeNames

LEMMA InitType == Init => TypeOK
  BY DEF Init, TypeOK, Names, Part, Returned, Running

LEMMA NextType == TypeOK /\ [Next]_vars => TypeOK'
<1> SUFFICES ASSUME TypeOK, [Next]_vars PROVE TypeOK'
  OBVIOUS
<1> USE PageStoreAssumption DEF Returned, Running
<1>1. ASSUME NEW w \in Writer, NEW p \in Page, Begin(w, p) PROVE TypeOK'
  <2>1. [dir EXCEPT !.tmp[p] = NoInode] \in Names
    BY DEF TypeOK, Names
  <2>2. dir' \in Names /\ dirLog' \subseteq Names /\ dir' \in dirLog'
    BY <1>1, <2>1, ChangedNames DEF Begin
  <2> QED
    BY <1>1, <2>2 DEF TypeOK, Begin, Goto, fileVars
<1>2. ASSUME NEW w \in Writer, Create(w) PROVE TypeOK'
  <2>1. PICK i \in Inode :
          /\ UNCHANGED disk \/ disk' = [disk EXCEPT ![i] = {}]
          /\ data' = [data EXCEPT ![i] = {}]
          /\ file' = [file EXCEPT ![w] = i]
          /\ ChangeNames([dir EXCEPT !.tmp[page[w]] = i])
    BY <1>2 DEF Create
  <2>2. [dir EXCEPT !.tmp[page[w]] = i] \in Names
    BY DEF TypeOK, Names
  <2>3. dir' \in Names /\ dirLog' \subseteq Names /\ dir' \in dirLog'
    BY <2>1, <2>2, ChangedNames
  <2>4. data' \in [Inode -> SUBSET Part] /\ disk' \in [Inode -> SUBSET Part]
    BY <2>1 DEF TypeOK
  <2> QED
    BY <1>2, <2>1, <2>3, <2>4 DEF TypeOK, Create, Goto
<1>3. ASSUME NEW w \in Writer, WriteHeader(w) PROVE TypeOK'
  <2>1. data' \in [Inode -> SUBSET Part]
    BY <1>3 DEF TypeOK, WriteHeader, Part
  <2> QED
    BY <1>3, <2>1 DEF TypeOK, WriteHeader, Goto, dirVars
<1>4. ASSUME NEW w \in Writer, WritePayload(w) PROVE TypeOK'
  <2>1. data' \in [Inode -> SUBSET Part]
    BY <1>4 DEF TypeOK, WritePayload, Part
  <2> QED
    BY <1>4, <2>1 DEF TypeOK, WritePayload, Goto, dirVars
<1>5. ASSUME NEW w \in Writer, SyncFile(w) PROVE TypeOK'
  <2>1. disk' \in [Inode -> SUBSET Part]
    BY <1>5 DEF TypeOK, SyncFile
  <2> QED
    BY <1>5, <2>1 DEF TypeOK, SyncFile, Goto, dirVars
<1>6. ASSUME NEW w \in Writer, Rename(w) PROVE TypeOK'
  <2>1. [dir EXCEPT !.dest[page[w]] = dir.tmp[page[w]],
                    !.tmp[page[w]] = NoInode] \in Names
    BY DEF TypeOK, Names
  <2>2. dir' \in Names /\ dirLog' \subseteq Names /\ dir' \in dirLog'
    BY <1>6, <2>1, ChangedNames DEF Rename
  <2> QED
    BY <1>6, <2>2 DEF TypeOK, Rename, Goto, fileVars
<1>7. ASSUME NEW w \in Writer, SyncDir(w) PROVE TypeOK'
  BY <1>7 DEF TypeOK, SyncDir, Goto, fileVars
<1>8. ASSUME NEW w \in Writer, Fail(w) PROVE TypeOK'
  BY <1>8 DEF TypeOK, Fail, Goto, fileVars, dirVars
<1>9. ASSUME NEW p \in Page, Delete(p) PROVE TypeOK'
  <2>1. [dir EXCEPT !.dest[p] = NoInode] \in Names
    BY DEF TypeOK, Names
  <2>2. dir' \in Names /\ dirLog' \subseteq Names /\ dir' \in dirLog'
    BY <1>9, <2>1, ChangedNames DEF Delete
  <2> QED
    BY <1>9, <2>2 DEF TypeOK, Delete, fileVars
<1>10. CASE Crash
  BY <1>10 DEF TypeOK, Crash
<1>11. CASE Recover
  <2>1. [dir EXCEPT !.tmp = [p \in Page |-> NoInode]] \in Names
    BY DEF TypeOK, Names
  <2>2. dir' \in Names /\ dirLog' \subseteq Names /\ dir' \in dirLog'
    BY <1>11, <2>1, ChangedNames DEF Recover
  <2> QED
    BY <1>11, <2>2 DEF TypeOK, Recover, fileVars
<1>12. CASE UNCHANGED vars
  BY <1>12 DEF TypeOK, vars
<1> QED
  BY <1>1, <1>2, <1>3, <1>4, <1>5, <1>6, <1>7, <1>8, <1>9, <1>10, <1>11, <1>12
  DEF Next

(* Whoever shares a page, every variable keeps its type and a writer has a *)
(* file open exactly while it writes and syncs it.                         *)
THEOREM TypeCorrect == Spec => []TypeOK
  BY InitType, NextType, PTL DEF Spec

-----------------------------------------------------------------------------
(***************************************************************************)
(* The protocol, as long as no page is shared.                             *)
(***************************************************************************)
Open(w) == pc[w] \in {"header", "payload", "fsync"}

(* The parts of an inode that are written, and those that are durable. *)
Durable(i) == data[i] = Part /\ disk[i] = Part

(* One writer works on a page at a time. *)
Alone ==
    \A v, w \in Writer :
        pc[v] \in Running /\ pc[w] \in Running /\ page[v] = page[w] => v = w

(* A writer's file is the one its page's temporary name leads to, no other *)
(* temporary name leads there, and no final name ever did.                 *)
Private(w) ==
    /\ dir.tmp[page[w]] = file[w]
    /\ \A p \in Page : dir.tmp[p] = file[w] => p = page[w]
    /\ \A n \in dirLog, p \in Page : n.dest[p] # file[w]

FilesArePrivate == \A w \in Writer : Open(w) => Private(w)

(* What each writer has made sure of where it is. *)
Ready(w) ==
    /\ pc[w] = "create" => dir.tmp[page[w]] = NoInode
    /\ pc[w] = "payload" => "header" \in data[file[w]]
    /\ pc[w] = "fsync" => data[file[w]] = Part
    /\ pc[w] = "rename" /\ dir.tmp[page[w]] # NoInode => Durable(dir.tmp[page[w]])
    /\ pc[w] = "syncdir" => dir.dest[page[w]] # NoInode

Progress == \A w \in Writer : Ready(w)

(* Whatever a crash makes of the names, a final name leads to a whole and  *)
(* durable file, and the final name of a promised page leads somewhere.    *)
NamesAreDurable ==
    \A n \in dirLog, p \in Page :
        /\ n.dest[p] # NoInode => Durable(n.dest[p])
        /\ p \in acked => n.dest[p] # NoInode

IInv == TypeOK /\ Alone /\ FilesArePrivate /\ Progress /\ NamesAreDurable

LEMMA InitIInv == Init => IInv
<1> SUFFICES ASSUME Init PROVE IInv
  OBVIOUS
<1>1. TypeOK
  BY InitType
<1>2. Alone /\ FilesArePrivate /\ Progress
  BY DEF Init, Alone, FilesArePrivate, Progress, Ready, Running, Open
<1>3. NamesAreDurable
  BY DEF Init, NamesAreDurable
<1> QED
  BY <1>1, <1>2, <1>3 DEF IInv

(* A writer begins on a page that nobody works on. *)
LEMMA BeginIInv ==
    ASSUME IInv, MayShare = FALSE, NEW w \in Writer, NEW p \in Page, Begin(w, p)
    PROVE  IInv'
<1> USE PageStoreAssumption DEF IInv
<1>1. TypeOK'
  BY NextType DEF Next
<1>2. /\ \A v \in Writer : pc[v] \in Running => page[v] # p
      /\ pc' = [pc EXCEPT ![w] = "create"] /\ page' = [page EXCEPT ![w] = p]
      /\ dirLog' = dirLog \cup {dir'} /\ UNCHANGED <<data, disk, file, acked>>
      /\ dir'.dest = dir.dest /\ dir'.tmp = [dir.tmp EXCEPT ![p] = NoInode]
      /\ pc[w] \notin Running
  BY DEF Begin, Allowed, Busy, Goto, ChangeNames, fileVars, TypeOK, Names, Returned, Running
<1>3. Alone'
  BY <1>2 DEF Alone, TypeOK, Running
<1>4. FilesArePrivate'
  BY <1>2 DEF FilesArePrivate, Private, Open, TypeOK, Names, Running
<1>5. Progress'
  BY <1>2 DEF Progress, Ready, TypeOK, Names, Running, Durable
<1>6. NamesAreDurable'
  BY <1>2 DEF NamesAreDurable, TypeOK, Durable
<1> QED
  BY <1>1, <1>3, <1>4, <1>5, <1>6

(* Where no page is shared the temporary name is free, so that the file is *)
(* new: no name, past or present, leads to it and nobody has it open.      *)
LEMMA CreateIInv ==
    ASSUME IInv, NEW w \in Writer, Create(w)
    PROVE  IInv'
<1> USE PageStoreAssumption DEF IInv
<1>1. TypeOK'
  BY NextType DEF Next
<1>2. pc[w] = "create" /\ dir.tmp[page[w]] = NoInode
  BY DEF Create, Progress, Ready
<1>3. PICK i \in Inode :
        /\ i \notin InUse
        /\ disk' = [disk EXCEPT ![i] = {}] /\ data' = [data EXCEPT ![i] = {}]
        /\ file' = [file EXCEPT ![w] = i]
        /\ ChangeNames([dir EXCEPT !.tmp[page[w]] = i])
  BY <1>2 DEF Create
<1>4. /\ \A n \in dirLog, p \in Page : n.tmp[p] # i /\ n.dest[p] # i
      /\ \A v \in Writer : file[v] # i
      /\ \A p \in Page : dir.tmp[p] # i /\ dir.dest[p] # i
  BY <1>3 DEF InUse, TypeOK
<1>5. /\ dir'.dest = dir.dest /\ dir'.tmp = [dir.tmp EXCEPT ![page[w]] = i]
      /\ dirLog' = dirLog \cup {dir'}
  BY <1>3 DEF ChangeNames, TypeOK, Names
<1>6. pc' = [pc EXCEPT ![w] = "header"] /\ UNCHANGED <<page, acked>>
  BY DEF Create, Goto
<1>7. Alone'
  BY <1>2, <1>6 DEF Alone, TypeOK, Running
<1>8. FilesArePrivate'
  <2> SUFFICES ASSUME NEW v \in Writer, Open(v)' PROVE Private(v)'
    BY DEF FilesArePrivate
  <2>1. CASE v = w
    BY <2>1, <1>3, <1>4, <1>5, <1>6 DEF Private, TypeOK, Names
  <2>2. CASE v # w
    <3>1. Open(v) /\ page[v] # page[w] /\ file'[v] = file[v]
      BY <2>2, <1>2, <1>3, <1>6 DEF Open, Alone, TypeOK, Running
    <3> QED
      BY <3>1, <1>4, <1>5, <1>6 DEF FilesArePrivate, Private, TypeOK, Names
  <2> QED
    BY <2>1, <2>2
<1>9. Progress'
  <2> SUFFICES ASSUME NEW v \in Writer PROVE Ready(v)'
    BY DEF Progress
  <2>1. CASE v = w
    BY <2>1, <1>6 DEF Ready, TypeOK
  <2>2. CASE v # w /\ pc[v] \in Running
    <3>1. page[v] # page[w] /\ file'[v] = file[v] /\ pc'[v] = pc[v]
      BY <2>2, <1>2, <1>3, <1>6 DEF Alone, TypeOK, Running
    <3>2. dir'.tmp[page[v]] = dir.tmp[page[v]] /\ dir'.dest = dir.dest
      BY <3>1, <1>5 DEF TypeOK, Names
    <3>3. \A j : j # i => data'[j] = data[j] /\ disk'[j] = disk[j]
      BY <1>3 DEF TypeOK
    <3> QED
      BY <3>1, <3>2, <3>3, <1>4, <1>6 DEF Progress, Ready, Durable, TypeOK
  <2>3. CASE v # w /\ pc[v] \notin Running
    BY <2>3, <1>6 DEF Ready, TypeOK, Running
  <2> QED
    BY <2>1, <2>2, <2>3
<1>10. NamesAreDurable'
  BY <1>3, <1>4, <1>5, <1>6 DEF NamesAreDurable, Durable, TypeOK
<1> QED
  BY <1>1, <1>7, <1>8, <1>9, <1>10

(* Writing to a file that no name leads to but a temporary one: nothing    *)
(* that was whole becomes less so.                                         *)
LEMMA WriteHeaderIInv ==
    ASSUME IInv, NEW w \in Writer, WriteHeader(w)
    PROVE  IInv'
<1> USE PageStoreAssumption DEF IInv
<1>1. TypeOK'
  BY NextType DEF Next
<1>2. /\ pc[w] = "header" /\ file[w] \in Inode
      /\ pc' = [pc EXCEPT ![w] = "payload"]
      /\ data' = [data EXCEPT ![file[w]] = @ \cup {"header"}]
      /\ UNCHANGED <<dir, dirLog, disk, page, file, acked>>
  BY DEF WriteHeader, Goto, dirVars, TypeOK
<1>3. /\ \A i \in Inode : data[i] \subseteq data'[i]
      /\ \A i \in Inode : Durable(i) => Durable(i)'
      /\ "header" \in data'[file[w]]
  BY <1>2 DEF TypeOK, Durable, Part
<1>4. Alone'
  BY <1>2 DEF Alone, TypeOK, Running
<1>5. FilesArePrivate'
  BY <1>2 DEF FilesArePrivate, Private, Open, TypeOK
<1>6. Progress'
  <2> SUFFICES ASSUME NEW v \in Writer PROVE Ready(v)'
    BY DEF Progress
  <2>1. CASE v = w
    BY <2>1, <1>2, <1>3 DEF Ready, TypeOK
  <2>2. CASE v # w
    <3>1. pc'[v] = pc[v] /\ Ready(v) /\ (Open(v) => file[v] \in Inode)
      BY <2>2, <1>2 DEF Progress, TypeOK, Open
    <3>2. pc[v] = "payload" => "header" \in data'[file[v]]
      BY <3>1, <1>3 DEF Ready, Open
    <3>3. pc[v] = "fsync" => data'[file[v]] = Part
      BY <3>1, <1>2, <1>3, <1>1 DEF Ready, Open, TypeOK
    <3>4. pc[v] = "rename" /\ dir.tmp[page[v]] # NoInode => Durable(dir.tmp[page[v]])'
      BY <3>1, <1>2, <1>3 DEF Ready, TypeOK, Names
    <3> QED
      BY <3>1, <3>2, <3>3, <3>4, <1>2 DEF Ready
  <2> QED
    BY <2>1, <2>2
<1>7. NamesAreDurable'
  BY <1>2, <1>3 DEF NamesAreDurable, TypeOK, Names
<1> QED
  BY <1>1, <1>4, <1>5, <1>6, <1>7

LEMMA WritePayloadIInv ==
    ASSUME IInv, NEW w \in Writer, WritePayload(w)
    PROVE  IInv'
<1> USE PageStoreAssumption DEF IInv
<1>1. TypeOK'
  BY NextType DEF Next
<1>2. /\ pc[w] = "payload" /\ file[w] \in Inode
      /\ pc' = [pc EXCEPT ![w] = "fsync"]
      /\ data' = [data EXCEPT ![file[w]] = @ \cup {"payload"}]
      /\ UNCHANGED <<dir, dirLog, disk, page, file, acked>>
  BY DEF WritePayload, Goto, dirVars, TypeOK
<1>3. /\ \A i \in Inode : data[i] \subseteq data'[i]
      /\ \A i \in Inode : Durable(i) => Durable(i)'
  BY <1>2 DEF TypeOK, Durable, Part
<1>4. data'[file[w]] = Part
  <2>1. "header" \in data[file[w]]
    BY <1>2 DEF Progress, Ready
  <2> QED
    BY <2>1, <1>2 DEF TypeOK, Part
<1>5. Alone'
  BY <1>2 DEF Alone, TypeOK, Running
<1>6. FilesArePrivate'
  BY <1>2 DEF FilesArePrivate, Private, Open, TypeOK
<1>7. Progress'
  <2> SUFFICES ASSUME NEW v \in Writer PROVE Ready(v)'
    BY DEF Progress
  <2>1. CASE v = w
    BY <2>1, <1>2, <1>4 DEF Ready, TypeOK
  <2>2. CASE v # w
    <3>1. pc'[v] = pc[v] /\ Ready(v) /\ (Open(v) => file[v] \in Inode)
      BY <2>2, <1>2 DEF Progress, TypeOK, Open
    <3>2. pc[v] = "payload" => "header" \in data'[file[v]]
      BY <3>1, <1>3 DEF Ready, Open
    <3>3. pc[v] = "fsync" => data'[file[v]] = Part
      BY <3>1, <1>2, <1>3, <1>1 DEF Ready, Open, TypeOK
    <3>4. pc[v] = "rename" /\ dir.tmp[page[v]] # NoInode => Durable(dir.tmp[page[v]])'
      BY <3>1, <1>2, <1>3 DEF Ready, TypeOK, Names
    <3> QED
      BY <3>1, <3>2, <3>3, <3>4, <1>2 DEF Ready
  <2> QED
    BY <2>1, <2>2
<1>8. NamesAreDurable'
  BY <1>2, <1>3 DEF NamesAreDurable, TypeOK, Names
<1> QED
  BY <1>1, <1>5, <1>6, <1>7, <1>8

(* What was written is durable before the file can be renamed. *)
LEMMA SyncFileIInv ==
    ASSUME IInv, NEW w \in Writer, SyncFile(w)
    PROVE  IInv'
<1> USE PageStoreAssumption DEF IInv
<1>1. TypeOK'
  BY NextType DEF Next
<1>2. /\ pc[w] = "fsync" /\ file[w] \in Inode /\ data[file[w]] = Part
      /\ pc' = [pc EXCEPT ![w] = "rename"]
      /\ disk' = [disk EXCEPT ![file[w]] = Part]
      /\ file' = [file EXCEPT ![w] = NoInode]
      /\ UNCHANGED <<dir, dirLog, data, page, acked>>
  BY DEF SyncFile, Goto, dirVars, TypeOK, Progress, Ready
<1>3. /\ \A i \in Inode : Durable(i) => Durable(i)'
      /\ data'[file[w]] = Part /\ disk'[file[w]] = Part
  BY <1>2 DEF TypeOK, Durable
<1>4. dir.tmp[page[w]] = file[w]
  BY <1>2 DEF FilesArePrivate, Private, Open
<1>5. Alone'
  BY <1>2 DEF Alone, TypeOK, Running
<1>6. FilesArePrivate'
  BY <1>2 DEF FilesArePrivate, Private, Open, TypeOK
<1>7. Progress'
  <2> SUFFICES ASSUME NEW v \in Writer PROVE Ready(v)'
    BY DEF Progress
  <2>1. CASE v = w
    BY <2>1, <1>2, <1>3, <1>4 DEF Ready, TypeOK, Durable
  <2>2. CASE v # w
    <3>1. pc'[v] = pc[v] /\ file'[v] = file[v] /\ Ready(v)
      BY <2>2, <1>2 DEF Progress, TypeOK
    <3>2. pc[v] = "rename" /\ dir.tmp[page[v]] # NoInode => Durable(dir.tmp[page[v]])'
      BY <3>1, <1>2, <1>3 DEF Ready, TypeOK, Names
    <3> QED
      BY <3>1, <3>2, <1>2 DEF Ready
  <2> QED
    BY <2>1, <2>2
<1>8. NamesAreDurable'
  BY <1>2, <1>3 DEF NamesAreDurable, TypeOK, Names
<1> QED
  BY <1>1, <1>5, <1>6, <1>7, <1>8

(* The file that gets the final name is whole, durable and, since no other *)
(* temporary name leads there, open to no other writer.                    *)
LEMMA RenameIInv ==
    ASSUME IInv, NEW w \in Writer, Rename(w)
    PROVE  IInv'
<1> USE PageStoreAssumption DEF IInv
<1> DEFINE i == dir.tmp[page[w]]
<1>1. TypeOK'
  BY NextType DEF Next
<1>2. /\ pc[w] = "rename" /\ i # NoInode /\ Durable(i)
      /\ pc' = [pc EXCEPT ![w] = "syncdir"] /\ dirLog' = dirLog \cup {dir'}
      /\ dir'.dest = [dir.dest EXCEPT ![page[w]] = i]
      /\ dir'.tmp = [dir.tmp EXCEPT ![page[w]] = NoInode]
      /\ UNCHANGED <<data, disk, page, file, acked>>
  BY DEF Rename, Goto, ChangeNames, fileVars, TypeOK, Names, Progress, Ready
<1>3. Alone'
  BY <1>2 DEF Alone, TypeOK, Running
<1>4. ASSUME NEW v \in Writer, v # w, pc[v] \in Running PROVE page[v] # page[w]
  BY <1>2, <1>4 DEF Alone, Running
<1>5. FilesArePrivate'
  <2> SUFFICES ASSUME NEW v \in Writer, Open(v)' PROVE Private(v)'
    BY DEF FilesArePrivate
  <2>1. v # w /\ Open(v)
    BY <1>2 DEF Open, TypeOK
  <2>2. page[v] # page[w] /\ Private(v) /\ file[v] # NoInode
    BY <2>1, <1>4 DEF Open, Running, FilesArePrivate, TypeOK
  <2>3. i # file[v] /\ \A p \in Page : dir'.dest[p] # file[v]
    BY <2>2, <1>2 DEF Private, TypeOK, Names
  <2>4. \A p \in Page : dir'.tmp[p] = file[v] => p = page[v]
    BY <2>2, <1>2 DEF Private, TypeOK, Names
  <2>5. dir'.tmp[page[v]] = file[v]
    BY <2>2, <1>2 DEF Private, TypeOK, Names
  <2> QED
    BY <2>2, <2>3, <2>4, <2>5, <1>2 DEF Private
<1>6. Progress'
  <2> SUFFICES ASSUME NEW v \in Writer PROVE Ready(v)'
    BY DEF Progress
  <2>1. CASE v = w
    BY <2>1, <1>2 DEF Ready, TypeOK, Names
  <2>2. CASE v # w /\ pc[v] \in Running
    <3>1. /\ pc'[v] = pc[v] /\ Ready(v)
          /\ dir'.tmp[page[v]] = dir.tmp[page[v]] /\ dir'.dest[page[v]] = dir.dest[page[v]]
      BY <2>2, <1>2, <1>4 DEF Progress, TypeOK, Names
    <3> QED
      BY <3>1, <1>2 DEF Ready, Durable
  <2>3. CASE v # w /\ pc[v] \notin Running
    BY <2>3, <1>2 DEF Ready, TypeOK, Running
  <2> QED
    BY <2>1, <2>2, <2>3
<1>7. NamesAreDurable'
  BY <1>2 DEF NamesAreDurable, TypeOK, Names, Durable
<1> QED
  BY <1>1, <1>3, <1>5, <1>6, <1>7

LEMMA SyncDirIInv ==
    ASSUME IInv, NEW w \in Writer, SyncDir(w)
    PROVE  IInv'
<1> USE PageStoreAssumption DEF IInv
<1>1. TypeOK'
  BY NextType DEF Next
<1>2. /\ pc[w] = "syncdir" /\ dir.dest[page[w]] # NoInode
      /\ pc' = [pc EXCEPT ![w] = "ok"]
      /\ dirLog' = {dir} /\ dir \in dirLog /\ acked' = acked \cup {page[w]}
      /\ UNCHANGED <<dir, data, disk, page, file>>
  BY DEF SyncDir, Goto, fileVars, TypeOK, Progress, Ready
<1>3. Alone'
  BY <1>2 DEF Alone, TypeOK, Running
<1>4. FilesArePrivate'
  BY <1>2 DEF FilesArePrivate, Private, Open, TypeOK
<1>5. Progress'
  BY <1>2 DEF Progress, Ready, Durable, TypeOK
<1>6. NamesAreDurable'
  BY <1>2 DEF NamesAreDurable, Durable
<1> QED
  BY <1>1, <1>3, <1>4, <1>5, <1>6

LEMMA FailIInv ==
    ASSUME IInv, NEW w \in Writer, Fail(w)
    PROVE  IInv'
<1> USE PageStoreAssumption DEF IInv
<1>1. TypeOK'
  BY NextType DEF Next
<1>2. /\ pc' = [pc EXCEPT ![w] = "err"] /\ file' = [file EXCEPT ![w] = NoInode]
      /\ UNCHANGED <<dir, dirLog, data, disk, page, acked>>
  BY DEF Fail, Goto, fileVars, dirVars
<1>3. Alone'
  BY <1>2 DEF Alone, TypeOK, Running
<1>4. FilesArePrivate'
  BY <1>2 DEF FilesArePrivate, Private, Open, TypeOK
<1>5. Progress'
  BY <1>2 DEF Progress, Ready, Durable, TypeOK
<1>6. NamesAreDurable'
  BY <1>2 DEF NamesAreDurable, Durable
<1> QED
  BY <1>1, <1>3, <1>4, <1>5, <1>6

(* A page that nobody works on is taken away; the names before that may    *)
(* come back with a crash, and nothing is promised of it any more.         *)
LEMMA DeleteIInv ==
    ASSUME IInv, MayShare = FALSE, NEW p \in Page, Delete(p)
    PROVE  IInv'
<1> USE PageStoreAssumption DEF IInv
<1>1. TypeOK'
  BY NextType DEF Next
<1>2. /\ \A v \in Writer : pc[v] \in Running => page[v] # p
      /\ dirLog' = dirLog \cup {dir'} /\ acked' = acked \ {p}
      /\ dir'.dest = [dir.dest EXCEPT ![p] = NoInode] /\ dir'.tmp = dir.tmp
      /\ UNCHANGED <<data, disk, pc, page, file>>
  BY DEF Delete, Allowed, Busy, ChangeNames, fileVars, TypeOK, Names
<1>3. Alone'
  BY <1>2 DEF Alone
<1>4. FilesArePrivate'
  <2> SUFFICES ASSUME NEW v \in Writer, Open(v)' PROVE Private(v)'
    BY DEF FilesArePrivate
  <2>1. Private(v) /\ file[v] # NoInode
    BY <1>2 DEF Open, FilesArePrivate, TypeOK
  <2>2. \A q \in Page : dir'.dest[q] # file[v]
    BY <2>1, <1>2 DEF Private, TypeOK, Names
  <2> QED
    BY <2>1, <2>2, <1>2 DEF Private
<1>5. Progress'
  BY <1>2 DEF Progress, Ready, Durable, TypeOK, Names, Running
<1>6. NamesAreDurable'
  BY <1>2 DEF NamesAreDurable, Durable, TypeOK, Names
<1> QED
  BY <1>1, <1>3, <1>4, <1>5, <1>6

(* A durable file keeps its bytes, and no writer is left. *)
LEMMA CrashIInv ==
    ASSUME IInv, Crash
    PROVE  IInv'
<1> USE PageStoreAssumption DEF IInv
<1>1. TypeOK'
  BY NextType DEF Next
<1>2. /\ dir' \in dirLog /\ dirLog' = {dir'} /\ UNCHANGED <<page, acked>>
      /\ \A w \in Writer : pc'[w] = "idle"
      /\ \A i \in Inode : data'[i] \in Leftover(i) /\ disk'[i] = data'[i]
  BY DEF Crash
<1>3. \A i \in Inode : Durable(i) => Durable(i)'
  BY <1>2 DEF Durable, Leftover
<1>4. Alone' /\ FilesArePrivate' /\ Progress'
  BY <1>2 DEF Alone, FilesArePrivate, Open, Progress, Ready, Running
<1>5. NamesAreDurable'
  BY <1>2, <1>3 DEF NamesAreDurable, TypeOK, Names
<1> QED
  BY <1>1, <1>4, <1>5

(* No temporary name is needed while no writer runs. *)
LEMMA RecoverIInv ==
    ASSUME IInv, Recover
    PROVE  IInv'
<1> USE PageStoreAssumption DEF IInv
<1>1. TypeOK'
  BY NextType DEF Next
<1>2. /\ \A w \in Writer : pc[w] \in Returned
      /\ dirLog' = dirLog \cup {dir'} /\ dir'.dest = dir.dest
      /\ UNCHANGED <<data, disk, pc, page, file, acked>>
  BY DEF Recover, ChangeNames, fileVars, TypeOK, Names
<1>3. Alone' /\ FilesArePrivate' /\ Progress'
  BY <1>2 DEF Alone, FilesArePrivate, Open, Progress, Ready, Running, Returned
<1>4. NamesAreDurable'
  BY <1>2 DEF NamesAreDurable, Durable, TypeOK
<1> QED
  BY <1>1, <1>3, <1>4

LEMMA NextIInv == MayShare = FALSE /\ IInv /\ [Next]_vars => IInv'
<1> SUFFICES ASSUME MayShare = FALSE, IInv, [Next]_vars PROVE IInv'
  OBVIOUS
<1>1. CASE UNCHANGED vars
  <2>1. /\ dir' = dir /\ dirLog' = dirLog /\ data' = data /\ disk' = disk
        /\ pc' = pc /\ page' = page /\ file' = file /\ acked' = acked
    BY <1>1 DEF vars
  <2>2. TypeOK'
    BY NextType DEF IInv
  <2>3. Alone' /\ FilesArePrivate' /\ NamesAreDurable'
    BY <2>1 DEF IInv, Alone, FilesArePrivate, Open, Private, NamesAreDurable, Durable
  <2>4. Progress'
    BY <2>1 DEF IInv, Progress, Ready, Durable
  <2> QED
    BY <2>2, <2>3, <2>4 DEF IInv
<1>2. CASE Next
  BY <1>2, BeginIInv, CreateIInv, WriteHeaderIInv, WritePayloadIInv, SyncFileIInv,
     RenameIInv, SyncDirIInv, FailIInv, DeleteIInv, CrashIInv, RecoverIInv DEF Next
<1> QED
  BY <1>1, <1>2

(* The protocol that write_page, delete_page and recover follow, kept by   *)
(* every call and every crash while no page is shared: the invariant the   *)
(* theorems below rest on.                                                 *)
THEOREM ProtocolKept ==
    ASSUME MayShare = FALSE
    PROVE  Spec => []IInv
<1>1. Init => IInv
  BY InitIInv
<1>2. IInv /\ [Next]_vars => IInv'
  BY NextIInv
<1> QED
  BY <1>1, <1>2, PTL DEF Spec

-----------------------------------------------------------------------------
(***************************************************************************)
(* What the protocol is for.                                               *)
(***************************************************************************)
(* A crash leaves a durable inode as it was. *)
LEMMA DurableLeftover ==
    ASSUME NEW i \in Inode, Durable(i), NEW b \in Leftover(i)
    PROVE  Whole(b)
  BY DEF Durable, Leftover, Whole

(* page_store.rs:50: while no page is shared, a crash at any moment leaves *)
(* a whole page under every final name, for any number of writers, pages   *)
(* and files.                                                              *)
THEOREM NoPageIsTorn ==
    ASSUME MayShare = FALSE
    PROVE  Spec => []NoTornPage
<1>1. IInv => NoTornPage
  <2> SUFFICES ASSUME IInv, NEW n \in dirLog, NEW p \in Page, n.dest[p] # NoInode,
                      NEW b \in Leftover(n.dest[p])
               PROVE  Whole(b)
    BY DEF NoTornPage
  <2>1. Durable(n.dest[p]) /\ n.dest[p] \in Inode
    BY DEF IInv, NamesAreDurable, TypeOK, Names
  <2> QED
    BY <2>1, DurableLeftover
<1> QED
  BY <1>1, ProtocolKept, PTL

(* page_store.rs:3: while no page is shared, a page that write_page        *)
(* returned Ok for survives a crash at any moment until it is deleted.     *)
THEOREM OkIsDurable ==
    ASSUME MayShare = FALSE
    PROVE  Spec => []OkSurvivesCrash
<1>1. IInv => OkSurvivesCrash
  <2> SUFFICES ASSUME IInv, NEW n \in dirLog, NEW p \in acked
               PROVE  /\ n.dest[p] # NoInode
                      /\ \A b \in Leftover(n.dest[p]) : Whole(b)
    BY DEF OkSurvivesCrash
  <2>1. p \in Page /\ n.dest[p] # NoInode
    BY DEF IInv, NamesAreDurable, TypeOK
  <2>2. Durable(n.dest[p]) /\ n.dest[p] \in Inode
    BY <2>1 DEF IInv, NamesAreDurable, TypeOK, Names
  <2> QED
    BY <2>1, <2>2, DurableLeftover
<1> QED
  BY <1>1, ProtocolKept, PTL

(* While the protocol is kept, a page is present as soon as its final name *)
(* leads somewhere.                                                        *)
LEMMA PresentIsNamed ==
    ASSUME IInv
    PROVE  Present = {p \in Page : dir.dest[p] # NoInode}
  BY DEF IInv, NamesAreDurable, TypeOK, Present, Whole, Durable

(* Each step of the page store is one of the registry or changes nothing   *)
(* there: a rename publishes, the sync of the directory promises, and only *)
(* a delete or a crash takes away.                                         *)
LEMMA StepImplements ==
    ASSUME IInv, IInv', [Next]_vars
    PROVE  [Registry!Next]_(Registry!registryVars)
<1> USE DEF Registry!registryVars
<1>1. /\ Present = {p \in Page : dir.dest[p] # NoInode}
      /\ Present' = {p \in Page : dir'.dest[p] # NoInode}
  <2>1. IInv' => Present' = {p \in Page : dir'.dest[p] # NoInode}
    BY DEF IInv, NamesAreDurable, TypeOK, Present, Whole, Durable
  <2> QED
    BY <2>1, PresentIsNamed
<1>2. ASSUME dir'.dest = dir.dest, acked' = acked
      PROVE  UNCHANGED Registry!registryVars
  BY <1>1, <1>2
<1>3. ASSUME NEW w \in Writer, NEW p \in Page, Begin(w, p) PROVE UNCHANGED Registry!registryVars
  BY <1>2, <1>3 DEF Begin, ChangeNames, IInv, TypeOK, Names
<1>4. ASSUME NEW w \in Writer, Create(w) PROVE UNCHANGED Registry!registryVars
  <2>1. PICK i \in Inode : ChangeNames([dir EXCEPT !.tmp[page[w]] = i])
    BY <1>4 DEF Create
  <2>2. dir'.dest = dir.dest
    BY <2>1 DEF ChangeNames, IInv, TypeOK, Names
  <2> QED
    BY <1>2, <1>4, <2>2 DEF Create
<1>5. ASSUME NEW w \in Writer,
             WriteHeader(w) \/ WritePayload(w) \/ SyncFile(w) \/ Fail(w)
      PROVE  UNCHANGED Registry!registryVars
  BY <1>2, <1>5 DEF WriteHeader, WritePayload, SyncFile, Fail, dirVars
<1>6. ASSUME NEW w \in Writer, Rename(w) PROVE Registry!Publish(page[w])
  <2>1. /\ dir.tmp[page[w]] # NoInode /\ acked' = acked /\ page[w] \in Page
        /\ dir'.dest = [dir.dest EXCEPT ![page[w]] = dir.tmp[page[w]]]
    BY <1>6 DEF Rename, ChangeNames, IInv, TypeOK, Names
  <2>2. Present' = Present \cup {page[w]}
    BY <1>1, <2>1 DEF IInv, TypeOK, Names
  <2> QED
    BY <2>1, <2>2 DEF Registry!Publish
<1>7. ASSUME NEW w \in Writer, SyncDir(w) PROVE Registry!Promise(page[w])
  <2>1. /\ dir.dest[page[w]] # NoInode /\ page[w] \in Page
        /\ acked' = acked \cup {page[w]} /\ dir' = dir
    BY <1>7 DEF SyncDir, IInv, Progress, Ready, TypeOK
  <2> QED
    BY <1>1, <2>1 DEF Registry!Promise
<1>8. ASSUME NEW p \in Page, Delete(p) PROVE Registry!Delete(p)
  <2>1. acked' = acked \ {p} /\ dir'.dest = [dir.dest EXCEPT ![p] = NoInode]
    BY <1>8 DEF Delete, ChangeNames, IInv, TypeOK, Names
  <2>2. Present' = Present \ {p}
    BY <1>1, <2>1 DEF IInv, TypeOK, Names
  <2> QED
    BY <2>1, <2>2 DEF Registry!Delete
<1>9. ASSUME Crash PROVE Registry!Crash
  <2>1. dir' \in dirLog /\ acked' = acked
    BY <1>9 DEF Crash
  <2>2. acked \subseteq Present'
    BY <1>1, <2>1 DEF IInv, NamesAreDurable, TypeOK
  <2>3. Present' \in SUBSET Page
    BY <1>1
  <2> QED
    BY <2>1, <2>2, <2>3 DEF Registry!Crash
<1>10. ASSUME Recover PROVE UNCHANGED Registry!registryVars
  BY <1>2, <1>10 DEF Recover, ChangeNames, IInv, TypeOK, Names
<1>11. ASSUME UNCHANGED vars PROVE UNCHANGED Registry!registryVars
  BY <1>2, <1>11 DEF vars
<1>12. \A w \in Writer : page[w] \in Page
  BY DEF IInv, TypeOK
<1>13. CASE Next
  BY <1>13, <1>3, <1>4, <1>5, <1>6, <1>7, <1>8, <1>9, <1>10, <1>12 DEF Next, Registry!Next
<1> QED
  BY <1>11, <1>13

(* While no page is shared the page store implements PageRegistry: a page  *)
(* appears whole at its rename, and what write_page has promised is taken  *)
(* away by a delete and by nothing else.                                   *)
THEOREM RegistryImplemented ==
    ASSUME MayShare = FALSE
    PROVE  Spec => ImplementsRegistry
<1>1. Init => Registry!Init
  BY DEF Init, Registry!Init, Present
<1>2. IInv /\ IInv' /\ [Next]_vars => [Registry!Next]_(Registry!registryVars)
  BY StepImplements
<1> QED
  BY <1>1, <1>2, ProtocolKept, PTL DEF Spec, ImplementsRegistry, Registry!Spec
=============================================================================
