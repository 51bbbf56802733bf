--------------------------- MODULE MetalNamespace ---------------------------
(***************************************************************************)
(* Directories and paths: the calls of metal.c that create, remove, rename *)
(* and look up names, with the directory handling of inode.c.              *)
(*                                                                         *)
(* Each call is one LMDB write transaction, from mdb_txn_begin to commit   *)
(* or abort, so it is one action; a crash inside one leaves what was       *)
(* committed before.  A path is the sequence of its names.  The calls      *)
(* arrive through the VFS and FUSE, which pass normalised paths, look a    *)
(* file up before they unlink it, and refuse to move a directory below     *)
(* itself; that part is not in the repository.                             *)
(***************************************************************************)
EXTENDS Integers, Sequences

CONSTANTS
    Names,          \* file names
    NameLen,        \* the length of every name, and of "." and ".."
    HeadLen,        \* sizeof(mtl_directory_entry_head)
    MaxInodes,      \* bound: inodes ever created, the root not counted
    MaxDepth        \* bound: names in the path of a call

Dots == {".", ".."}

ASSUME NamespaceAssumption ==
    /\ MaxInodes \in Nat /\ MaxDepth \in Nat /\ HeadLen \in Nat \ {0}
    /\ Names \cap Dots = {} /\ \A n \in Names \cup Dots : NameLen[n] \in Nat
    \* so that no length below zero is ever computed
    /\ \A n \in Names : NameLen[n] <= HeadLen + NameLen["."] + NameLen[".."]

VARIABLES
    inodes,         \* the inodes database: [type, entries]
    nextId,         \* "next_inode" in the meta database
    call,           \* history: the last call and the paths it was given
    result          \* what it returned

vars == <<inodes, nextId, call, result>>

Root == 0
CallPaths == UNION {[1 .. n -> Names] : n \in 1 .. MaxDepth}

Dirname(path) == SubSeq(path, 1, Len(path) - 1)
Basename(path) == path[Len(path)]

Entry(name, id) == [name |-> name, id |-> id]

PutInode(db, id, inode) == [i \in DOMAIN db \cup {id} |-> IF i = id THEN inode ELSE db[i]]

DeleteInode(db, id) == [i \in DOMAIN db \ {id} |-> db[i]]

----------------------------------------------------------------------------
(* inode.c: each helper yields a code with what it found or made.          *)

Failed(code) == [res |-> code, id |-> Root, db |-> <<>>]

Least(S) == CHOOSE k \in S : \A m \in S : k <= m

\* mutant: a file is searched like an empty directory
ResolveInAnything(db, dir, name) ==
    LET entries == db[dir].entries
        found   == {k \in DOMAIN entries : entries[k].name = name}
    IN  IF found = {} THEN [res |-> "NOENTRY", id |-> Root]
        ELSE [res |-> "SUCCESS", id |-> entries[Least(found)].id]

\* the directory's entries are searched in order
ResolveInDirectory(db, dir, name) ==
    LET entries == db[dir].entries
        found   == {k \in DOMAIN entries : entries[k].name = name}
    IN  IF db[dir].type # "DIRECTORY" THEN [res |-> "NOTDIRECTORY", id |-> Root]
        ELSE IF found = {} THEN [res |-> "NOENTRY", id |-> Root]
        ELSE [res |-> "SUCCESS", id |-> entries[Least(found)].id]

\* mtl_resolve_inode, one name after the other from the root
Resolve(db, path) ==
    LET walk[n \in 0 .. Len(path)] ==
          IF n = 0 THEN [res |-> "SUCCESS", id |-> Root]
          ELSE LET at     == walk[n - 1]
                   search == [d \in DOMAIN db |-> ResolveInDirectory(db, d, path[n])]
               IN  IF at.res = "SUCCESS" THEN search[at.id] ELSE at
    IN  walk[Len(path)]

AppendInodeId(db, dir, name, id) ==
    IF db[dir].type # "DIRECTORY" THEN Failed("NOTDIRECTORY")
    ELSE IF \E k \in DOMAIN db[dir].entries : db[dir].entries[k].name = name
         THEN Failed("EXISTS")
    ELSE [res |-> "SUCCESS", id |-> id,
          db |-> PutInode(db, dir, [db[dir] EXCEPT !.entries = Append(@, Entry(name, id))])]

EntryLen(name) == HeadLen + NameLen[name]

DataLength(entries) ==
    LET length[n \in 0 .. Len(entries)] ==
          IF n = 0 THEN 0 ELSE length[n - 1] + EntryLen(entries[n].name)
    IN  length[Len(entries)]

\* mtl_remove_entry_from_directory copies all other entries to a buffer with
\* room for one less; running out of room is how it notices that there was
\* nothing to leave out
Copied(entries, name) ==
    LET copy[n \in 0 .. Len(entries)] ==
          IF n = 0 THEN [kept |-> <<>>, length |-> 0, id |-> Root]
          ELSE IF entries[n].name = name THEN [copy[n - 1] EXCEPT !.id = entries[n].id]
          ELSE [copy[n - 1] EXCEPT !.kept = Append(@, entries[n]),
                                   !.length = @ + EntryLen(entries[n].name)]
    IN  copy[Len(entries)]

HasRoom(entries, name) ==
    Copied(entries, name).length <= DataLength(entries) - EntryLen(name)

RemoveEntry(db, dir, name) ==
    LET entries == db[dir].entries
        copied  == Copied(entries, name)
    IN  IF db[dir].type # "DIRECTORY" THEN Failed("NOTDIRECTORY")
        ELSE IF ~HasRoom(entries, name) THEN Failed("NOENTRY")
        ELSE [res |-> "SUCCESS", id |-> copied.id,
              db |-> PutInode(db, dir, [db[dir] EXCEPT !.entries = copied.kept])]

RemoveDirectory(db, id) ==
    IF db[id].type # "DIRECTORY" THEN Failed("NOTDIRECTORY")
    ELSE IF \E k \in DOMAIN db[id].entries : db[id].entries[k].name \notin Dots
         THEN Failed("NOTEMPTY")
    ELSE [res |-> "SUCCESS", id |-> id, db |-> DeleteInode(db, id)]

NewDirectory(id, parent) ==
    [type |-> "DIRECTORY", entries |-> <<Entry(".", id), Entry("..", parent)>>]

NewFile == [type |-> "FILE", entries |-> <<>>]

NewInode(type, id, parent) == IF type = "DIRECTORY" THEN NewDirectory(id, parent) ELSE NewFile

\* mutant: the counter is read and not written back
NextIdUnsaved(id) == id

\* mtl_next_id: the counter in the database after one more id was taken
NextId(id) == id + 1

----------------------------------------------------------------------------
(* metal.c: the calls.                                                     *)

Abort(code) == result' = code /\ UNCHANGED <<inodes, nextId>>

CommitTo(db) == inodes' = db /\ result' = "SUCCESS"

Init ==
    /\ inodes = [i \in {Root} |-> NewDirectory(Root, Root)]
    /\ nextId = 1
    /\ call = <<"mtl_initialize">>
    /\ result = "SUCCESS"

\* mtl_open, mtl_get_inode and mtl_chown: all that is kept of them here is
\* whether the path leads somewhere
Lookup(path) == Abort(Resolve(inodes, path).res)

MakeIn(path, type) ==
    LET parent == Resolve(inodes, Dirname(path))
        added  == AppendInodeId(inodes, parent.id, Basename(path), nextId)
    IN  /\ nextId <= MaxInodes
        /\ IF parent.res # "SUCCESS" THEN Abort(parent.res)
           ELSE IF added.res # "SUCCESS" THEN Abort(added.res)
           ELSE /\ CommitTo(PutInode(added.db, nextId, NewInode(type, nextId, parent.id)))
                /\ nextId' = NextId(nextId)

Mkdir(path) == MakeIn(path, "DIRECTORY")

Create(path) == MakeIn(path, "FILE")

Rmdir(path) ==
    LET parent  == Resolve(inodes, Dirname(path))
        entry   == RemoveEntry(inodes, parent.id, Basename(path))
        removed == RemoveDirectory(entry.db, entry.id)
    IN  IF parent.res # "SUCCESS" THEN Abort(parent.res)
        ELSE IF entry.res # "SUCCESS" THEN Abort(entry.res)
        ELSE IF removed.res # "SUCCESS" THEN Abort(removed.res)
        ELSE CommitTo(removed.db) /\ UNCHANGED nextId

\* mtl_unlink checks neither of its first two results
Unlink(path) ==
    LET parent == Resolve(inodes, Dirname(path))
        entry  == RemoveEntry(inodes, parent.id, Basename(path))
    IN  /\ CommitTo(DeleteInode(entry.db, entry.id))
        /\ UNCHANGED nextId

\* mutant: what was removed from the old directory is committed when the new
\* one refuses the entry
RenameHalf(from, to) ==
    LET fromParent == Resolve(inodes, Dirname(from))
        toParent   == Resolve(inodes, Dirname(to))
        entry      == RemoveEntry(inodes, fromParent.id, Basename(from))
        added      == AppendInodeId(entry.db, toParent.id, Basename(to), entry.id)
    IN  IF fromParent.res # "SUCCESS" THEN Abort(fromParent.res)
        ELSE IF toParent.res # "SUCCESS" THEN Abort(toParent.res)
        ELSE IF entry.res # "SUCCESS" THEN Abort(entry.res)
        ELSE IF added.res # "SUCCESS"
             THEN inodes' = entry.db /\ result' = added.res /\ UNCHANGED nextId
        ELSE CommitTo(added.db) /\ UNCHANGED nextId

Rename(from, to) ==
    LET fromParent == Resolve(inodes, Dirname(from))
        toParent   == Resolve(inodes, Dirname(to))
        entry      == RemoveEntry(inodes, fromParent.id, Basename(from))
        added      == AppendInodeId(entry.db, toParent.id, Basename(to), entry.id)
    IN  IF fromParent.res # "SUCCESS" THEN Abort(fromParent.res)
        ELSE IF toParent.res # "SUCCESS" THEN Abort(toParent.res)
        ELSE IF entry.res # "SUCCESS" THEN Abort(entry.res)
        ELSE IF added.res # "SUCCESS" THEN Abort(added.res)
        ELSE CommitTo(added.db) /\ UNCHANGED nextId

\* what the VFS lets through
VfsUnlinks(path) ==
    LET file == Resolve(inodes, path)
    IN  file.res = "SUCCESS" /\ inodes[file.id].type = "FILE"

VfsRenames(from, to) ==
    ~(Len(from) < Len(to) /\ \A k \in 1 .. Len(from) : from[k] = to[k])

Next ==
    \E path \in CallPaths :
        \/ Lookup(path) /\ call' = <<"lookup", path>>
        \/ Mkdir(path) /\ call' = <<"mkdir", path>>
        \/ Create(path) /\ call' = <<"create", path>>
        \/ Rmdir(path) /\ call' = <<"rmdir", path>>
        \/ VfsUnlinks(path) /\ Unlink(path) /\ call' = <<"unlink", path>>
        \/ \E to \in CallPaths :
             VfsRenames(path, to) /\ Rename(path, to) /\ call' = <<"rename", path, to>>

Spec == Init /\ [][Next]_vars

----------------------------------------------------------------------------
Codes == {"SUCCESS", "NOENTRY", "NOTDIRECTORY", "EXISTS", "NOTEMPTY"}

(* Inodes and entries are of the types inode.c puts there, and every id is *)
(* one that mtl_next_id has handed out.                                    *)
TypeOK ==
    /\ Root \in DOMAIN inodes
    /\ \A i \in DOMAIN inodes :
         /\ i \in 0 .. nextId - 1
         /\ inodes[i].type \in {"DIRECTORY", "FILE"}
         /\ \A k \in DOMAIN inodes[i].entries :
              /\ inodes[i].entries[k].name \in Names \cup Dots
              /\ inodes[i].entries[k].id \in 0 .. nextId - 1
    /\ nextId \in 1 .. MaxInodes + 1
    /\ result \in Codes

\* what the directories name, apart from themselves and their parents
Links(db) ==
    UNION {{[dir |-> d, name |-> db[d].entries[k].name, id |-> db[d].entries[k].id] :
              k \in {m \in DOMAIN db[d].entries : db[d].entries[m].name \notin Dots}} :
           d \in DOMAIN db}

FormsTree(db) ==
    /\ \A l \in Links(db) : l.id \in DOMAIN db \ {Root}
    /\ \A l, m \in Links(db) : l.id = m.id => l = m
    /\ \A d \in DOMAIN db : \A j, k \in DOMAIN db[d].entries :
         db[d].entries[j].name = db[d].entries[k].name => j = k
    \* every set of inodes without the root is entered from outside: each
    \* inode has an entry, and there is a way to it from the root
    /\ \A S \in SUBSET (DOMAIN db \ {Root}) :
         S # {} => \E l \in Links(db) : l.id \in S /\ l.dir \notin S

(* The directories form one tree over all inodes: every inode but the root *)
(* is named by exactly one entry of one directory, every entry names an    *)
(* inode, two entries of a directory have different names, and no          *)
(* directory is below itself, although mtl_rename, mtl_rmdir and           *)
(* mtl_unlink change the directory and the inode in separate puts and give *)
(* up half way.                                                            *)
DirectoriesFormTree == FormsTree(inodes)
============================================================================
