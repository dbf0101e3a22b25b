--------------------------- MODULE MangooHandles ---------------------------
(***************************************************************************)
(* Handles: what mangoo's library and dbfs keep for a program that has a   *)
(* locator open.  A handle knows the interface it was opened with, has a   *)
(* copy of the attributes as they were when it was opened, and owns two    *)
(* buffers (its locator and the key attr_ddk).  Every setter changes the   *)
(* copy and stores the whole of it.                                        *)
(***************************************************************************)
EXTENDS Naturals

CONSTANT None     \* no record, no handle

Types == {"data", "container"}
\* The inode number is DbfsVolume's; owner is the user and the group.
Attrs == [type : Types, mode : Nat, owner : Nat, mtime : Nat, atime : Nat, size : Nat]
ASSUME NoneAssumption == None \notin Attrs

\* The attributes dbfs_create_attr stores; the user of the process is 0, and
\* 0 is the time of creation.
NewAttrs(type, mode) ==
  [type |-> type, mode |-> mode, owner |-> 0, mtime |-> 0, atime |-> 0, size |-> 0]

-----------------------------------------------------------------------------
(* The setters' changes to the copy *)

SetMtime(a, v) == [a EXCEPT !.mtime = v]
SetAtime(a, v) == [a EXCEPT !.atime = v]
Chmod(a, v) == [a EXCEPT !.mode = v]
Chown(a, v) == [a EXCEPT !.owner = v]
\* dbfs_truncateblocks frees nothing here: its range is not empty (DbfsStream).
SetSize(a, n) == [a EXCEPT !.size = n]

\* dbfs_write extends the copy when its size lies before the end of the write;
\* a slip to catch beside it: whenever it differs.
ExtendsAlways(a, end) == a.size # end
Extends(a, end) == a.size < end

-----------------------------------------------------------------------------
(* Dispatch: the vectors' operations; an empty slot is ENOSYS *)

StoreSlots == {"initstore", "closestore", "open", "create", "delete"}
Getters == {"getuid", "getgid", "getmtime", "getatime", "getsize", "getmode", "gettype"}
AttrSlots == Getters \cup {"setsize", "setmtime", "setatime", "chmod", "chown", "close"}
StreamSlots == {"read", "write", "close"}

StoreCall(op) == op \in StoreSlots
AttrCall(op) == op \in AttrSlots
StreamCall(op) == op \in StreamSlots

-----------------------------------------------------------------------------
(* Memory: the handles, pairs of buffers, environments, cursors and buffers *)
(* of blocks that are allocated and not freed                              *)

Memory == [handle : Nat, buffers : Nat, env : Nat, cursor : Nat, block : Nat]
NoMemory == [handle |-> 0, buffers |-> 0, env |-> 0, cursor |-> 0, block |-> 0]

\* dbfs_createhandle
Allocate(m) == [m EXCEPT !.handle = m.handle + 1, !.buffers = m.buffers + 1]

\* dbfs_freehandle, under the close of an attribute or a directory handle; a
\* slip to catch beside it: one of the buffers was freed before.
FreeAgain(m) == [m EXCEPT !.handle = @ - 1, !.buffers = @ - 2]
Free(m) == [m EXCEPT !.handle = m.handle - 1, !.buffers = m.buffers - 1]

\* A slip to catch: a stream handle is not freed.
FreeStreamNot(m) == m

\* The close of a stream handle frees the structure only.
FreeStream(m) == [m EXCEPT !.handle = @ - 1]

\* mangoo_close: by the interface the handle was opened with.
Close(m, interface) == IF interface = "stream" THEN FreeStream(m) ELSE Free(m)

\* env_open, when it comes back.
OpenEnv(m) == [m EXCEPT !.env = @ + 1]

\* dbfs_cursorset
OpenCursor(m) == [m EXCEPT !.cursor = @ + 1]

\* dbfs_readwrite: one buffer for the first block and one for each later hole
\* that a write meets; what the pointer last had is freed at the end.
ReadWriteBlocks(m, holes) == [m EXCEPT !.block = @ + (1 + holes) - 1]
=============================================================================
