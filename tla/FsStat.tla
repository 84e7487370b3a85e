------------------------------- MODULE FsStat -------------------------------
(***************************************************************************)
(* The mount-table iterator of BsdNativeDispatcher.c: getfsstat() snapshots *)
(* the kernel's mount table into a malloc'ed fsstat_iter, fsstatEntry()    *)
(* hands one entry per call to Java, endfsstat() frees the iterator.       *)
(*                                                                         *)
(* The kernel mount table changes under the listing thread: other         *)
(* processes mount and unmount file systems between any two system calls. *)
(* getfsstat(2) with a buffer copies at most bufsize/sizeof(struct statfs) *)
(* entries and returns the number it copied; the kernel appends new mounts *)
(* at the end of its list.  Every malloc may fail, and so may every        *)
(* getfsstat(2) call and every NewByteArray.                               *)
(*                                                                         *)
(* The Java caller (not part of this repository) lists the table the way   *)
(* the JDK does: getfsstat, then fsstatEntry until it returns -1, then     *)
(* endfsstat in a finally block; a failed getfsstat throws and returns no  *)
(* handle.  After a listing the thread may list again.                     *)
(***************************************************************************)
EXTENDS Integers, Sequences, SequencesExt, FiniteSets

CONSTANTS
  Mounts,       \* the file systems that can be mounted (model values)
  InitTable,    \* the mount table when the model starts
  MaxMountOps,  \* bound on mounts + unmounts by other processes
  Garbage       \* content of a statfs slot malloc returned uninitialised

ASSUME InitTable \in Seq(Mounts) /\ MaxMountOps \in Nat

VARIABLES
  table,     \* the kernel's mount table, in its list order
  mountOps,  \* mounts and unmounts performed so far
  pc,        \* control point of the listing thread
  nentries,  \* getfsstat's local nentries
  iterBlk,   \* the block of struct fsstat_iter the thread holds
  iterN,     \* iter->nentries
  pos,       \* iter->pos
  bufBlk,    \* iter->buf: a block, or Null
  buf,       \* contents of the statfs array iter->buf points at
  heap,      \* the malloc blocks that are live
  nalloc,    \* blocks allocated by this listing (names fresh blocks)
  fault,     \* "none", or the memory error the native code committed
  filled,    \* the mount table at the last getfsstat(buf) (history)
  reported   \* the entries fsstatEntry handed to Java, in order

vars == <<table, mountOps, pc, nentries, iterBlk, iterN, pos, bufBlk, buf,
          heap, nalloc, fault, filled, reported>>

Null == <<"null", 0>>
Block(kind) == <<kind, nalloc + 1>>

(* free() of a set of pointers, then malloc of the blocks New: NULL is     *)
(* ignored, and freeing a block that is not live is a memory error.        *)
FreeThenAlloc(S, New) ==
  LET P == S \ {Null}
  IN  /\ heap' = (heap \ P) \cup New
      /\ fault' = IF P \subseteq heap THEN fault ELSE "bad_free"

FreeAll(S) == FreeThenAlloc(S, {})

Idle == {"idle", "done", "failed"}

-----------------------------------------------------------------------------
(* Other processes mount and unmount file systems. *)
Mount ==
  /\ mountOps < MaxMountOps
  /\ \E m \in Mounts \ ToSet(table) : table' = Append(table, m)
  /\ mountOps' = mountOps + 1
  /\ UNCHANGED <<pc, nentries, iterBlk, iterN, pos, bufBlk, buf, heap,
                 nalloc, fault, filled, reported>>

Unmount ==
  /\ mountOps < MaxMountOps
  /\ \E i \in 1..Len(table) : table' = RemoveAt(table, i)
  /\ mountOps' = mountOps + 1
  /\ UNCHANGED <<pc, nentries, iterBlk, iterN, pos, bufBlk, buf, heap,
                 nalloc, fault, filled, reported>>

-----------------------------------------------------------------------------
(* getfsstat: malloc the iterator and initialise it. *)
GetfsstatBegin ==
  /\ pc = "idle"
  /\ \/ /\ pc' = "failed"                      \* malloc failed: OOM
        /\ UNCHANGED <<iterBlk, iterN, pos, bufBlk, heap, nalloc>>
     \/ /\ iterBlk' = Block("iter")
        /\ heap' = heap \cup {Block("iter")}
        /\ nalloc' = nalloc + 1
        /\ iterN' = 0 /\ pos' = 0 /\ bufBlk' = Null
        /\ pc' = "count"
  /\ UNCHANGED <<table, mountOps, nentries, buf, fault, filled, reported>>

(* nentries = getfsstat(NULL, 0, MNT_NOWAIT): the size of the table, or   *)
(* an error; nentries <= 0 frees the iterator and throws.                  *)
GetfsstatCount ==
  /\ pc = "count"
  /\ \E n \in {Len(table), -1} :
       IF n <= 0
       THEN /\ FreeAll({iterBlk})
            /\ pc' = "failed"
            /\ UNCHANGED nentries
       ELSE /\ nentries' = n
            /\ pc' = "loop"
            /\ UNCHANGED <<heap, fault>>
  /\ UNCHANGED <<table, mountOps, iterBlk, iterN, pos, bufBlk, buf, nalloc,
                 filled, reported>>

(* Mutation variant: "if" for "while" -- one buffer is filled and the    *)
(* iterator returned whatever the second getfsstat(2) returned.           *)
GetfsstatLoopOnce ==
  /\ pc = "loop"
  /\ IF iterN # 0
     THEN /\ pc' = "listing"
          /\ UNCHANGED <<iterN, bufBlk, buf, heap, nalloc, fault>>
     ELSE /\ iterN' = nentries
          /\ \/ /\ FreeAll({bufBlk, iterBlk})
                /\ pc' = "failed"
                /\ UNCHANGED <<bufBlk, buf, nalloc>>
             \/ /\ FreeThenAlloc({bufBlk}, {Block("buf")})
                /\ bufBlk' = Block("buf")
                /\ nalloc' = nalloc + 1
                /\ buf' = [k \in 1..nentries |-> Garbage]
                /\ pc' = "fill"
  /\ UNCHANGED <<table, mountOps, nentries, iterBlk, pos, filled, reported>>

(* while (nentries != iter->nentries): free the old buffer, record the new *)
(* count and malloc a buffer of that many uninitialised entries; a failed  *)
(* malloc frees the iterator and throws.  When the counts agree the loop   *)
(* ends and getfsstat returns the iterator.                                *)
GetfsstatLoop ==
  /\ pc = "loop"
  /\ IF nentries = iterN
     THEN /\ pc' = "listing"
          /\ UNCHANGED <<iterN, bufBlk, buf, heap, nalloc, fault>>
     ELSE /\ iterN' = nentries
          /\ \/ /\ FreeAll({bufBlk, iterBlk})      \* malloc failed: OOM
                /\ pc' = "failed"
                /\ UNCHANGED <<bufBlk, buf, nalloc>>
             \/ /\ FreeThenAlloc({bufBlk}, {Block("buf")})
                /\ bufBlk' = Block("buf")
                /\ nalloc' = nalloc + 1
                /\ buf' = [k \in 1..nentries |-> Garbage]
                /\ pc' = "fill"
  /\ UNCHANGED <<table, mountOps, nentries, iterBlk, pos, filled, reported>>

(* Mutation variant: the error path of the second getfsstat(2) frees the  *)
(* iterator but not its buffer.                                            *)
GetfsstatFillLeak ==
  /\ pc = "fill"
  /\ \E err \in BOOLEAN :
       LET n == IF err THEN -1 ELSE Min({Len(table), iterN})
       IN  IF n <= 0
           THEN /\ FreeAll({iterBlk})
                /\ pc' = "failed"
                /\ UNCHANGED <<nentries, buf, filled>>
           ELSE /\ buf' = [k \in 1..iterN |-> IF k <= n THEN table[k] ELSE buf[k]]
                /\ nentries' = n
                /\ filled' = table
                /\ pc' = "loop"
                /\ UNCHANGED <<heap, fault>>
  /\ UNCHANGED <<table, mountOps, iterBlk, iterN, pos, bufBlk, nalloc,
                 reported>>

(* nentries = getfsstat(iter->buf, bufsize, MNT_WAIT): copies the first    *)
(* min(table size, iter->nentries) entries and returns how many; an error  *)
(* or a result <= 0 frees buffer and iterator and throws.                 *)
GetfsstatFill ==
  /\ pc = "fill"
  /\ \E err \in BOOLEAN :
       LET n == IF err THEN -1 ELSE Min({Len(table), iterN})
       IN  IF n <= 0
           THEN /\ FreeAll({bufBlk, iterBlk})
                /\ pc' = "failed"
                /\ UNCHANGED <<nentries, buf, filled>>
           ELSE /\ buf' = [k \in 1..iterN |-> IF k <= n THEN table[k] ELSE buf[k]]
                /\ nentries' = n
                /\ filled' = table
                /\ pc' = "loop"
                /\ UNCHANGED <<heap, fault>>
  /\ UNCHANGED <<table, mountOps, iterBlk, iterN, pos, bufBlk, nalloc,
                 reported>>

(* What reading iter->buf[iter->pos] yields: the entry, or Garbage for a   *)
(* slot no getfsstat(2) wrote or one past the end of the allocation.       *)
EntryAt(i) == IF i \in 1..Len(buf) THEN buf[i] ELSE Garbage

(* The memory error reading slot i commits, if any. *)
ReadFault(i) ==
  CASE ~({iterBlk, bufBlk} \subseteq heap) -> "use_after_free"
    [] i \notin 1..Len(buf)               -> "out_of_bounds"
    [] buf[i] = Garbage                    -> "uninit_read"
    [] OTHER                               -> fault

(* Mutation variant: the exhaustion test off by one (pos > nentries). *)
FsstatEntryPastEnd ==
  /\ pc = "listing"
  /\ IF pos > iterN
     THEN /\ pc' = "end"
          /\ UNCHANGED <<pos, fault, reported>>
     ELSE /\ pos' = pos + 1
          /\ fault' = ReadFault(pos + 1)
          /\ \/ /\ reported' = Append(reported, EntryAt(pos + 1))
                /\ pc' = "listing"
             \/ /\ pc' = "end"
                /\ UNCHANGED reported
  /\ UNCHANGED <<table, mountOps, nentries, iterBlk, iterN, bufBlk, buf, heap,
                 nalloc, filled>>

(* Mutation variant: iter->pos++ moved above the reads of the entry. *)
FsstatEntryIncFirst ==
  /\ pc = "listing"
  /\ IF pos >= iterN
     THEN /\ pc' = "end"
          /\ UNCHANGED <<pos, fault, reported>>
     ELSE /\ pos' = pos + 1
          /\ fault' = ReadFault(pos + 2)
          /\ \/ /\ reported' = Append(reported, EntryAt(pos + 2))
                /\ pc' = "listing"
             \/ /\ pc' = "end"
                /\ UNCHANGED reported
  /\ UNCHANGED <<table, mountOps, nentries, iterBlk, iterN, bufBlk, buf, heap,
                 nalloc, filled>>

(* fsstatEntry: -1 when the iterator is exhausted; otherwise read entry    *)
(* pos, advance pos, and copy its four strings into Java byte arrays.  A   *)
(* failed NewByteArray returns -1 with OutOfMemoryError pending, which the *)
(* caller's finally block answers with endfsstat.                          *)
FsstatEntry ==
  /\ pc = "listing"
  /\ IF pos >= iterN
     THEN /\ pc' = "end"
          /\ UNCHANGED <<pos, fault, reported>>
     ELSE /\ pos' = pos + 1
          /\ fault' = ReadFault(pos + 1)
          /\ \/ /\ reported' = Append(reported, EntryAt(pos + 1))
                /\ pc' = "listing"
             \/ /\ pc' = "end"                 \* a NewByteArray failed
                /\ UNCHANGED reported
  /\ UNCHANGED <<table, mountOps, nentries, iterBlk, iterN, bufBlk, buf, heap,
                 nalloc, filled>>

(* endfsstat: free the buffer and the iterator. *)
Endfsstat ==
  /\ pc = "end"
  /\ FreeAll({bufBlk, iterBlk})
  /\ pc' = "done"
  /\ UNCHANGED <<table, mountOps, nentries, iterBlk, iterN, pos, bufBlk, buf,
                 nalloc, filled, reported>>

(* The Java caller lists the mount table again. *)
Relist ==
  /\ pc \in {"done", "failed"}
  /\ pc' = "idle"
  /\ nentries' = 0 /\ iterBlk' = Null /\ iterN' = 0 /\ pos' = 0
  /\ bufBlk' = Null /\ buf' = <<>> /\ nalloc' = 0
  /\ filled' = <<>> /\ reported' = <<>>
  /\ UNCHANGED <<table, mountOps, heap, fault>>

-----------------------------------------------------------------------------
Init ==
  /\ table = InitTable
  /\ mountOps = 0
  /\ pc = "idle"
  /\ nentries = 0 /\ iterBlk = Null /\ iterN = 0 /\ pos = 0
  /\ bufBlk = Null /\ buf = <<>> /\ heap = {} /\ nalloc = 0
  /\ fault = "none" /\ filled = <<>> /\ reported = <<>>

Lister == GetfsstatBegin \/ GetfsstatCount \/ GetfsstatLoop \/ GetfsstatFill
            \/ FsstatEntry \/ Endfsstat \/ Relist

Next == Lister \/ Mount \/ Unmount

(* Every step of the native code returns (no call blocks), so the listing *)
(* thread is weakly fair; other processes need not mount anything.        *)
Spec == Init /\ [][Next]_vars /\ WF_vars(Lister)

-----------------------------------------------------------------------------
Blocks == ({"iter", "buf"} \X (1..8)) \cup {Null}

TypeOK ==
  /\ table \in Seq(Mounts) /\ mountOps \in 0..MaxMountOps
  /\ pc \in Idle \cup {"count", "loop", "fill", "listing", "end"}
  /\ nentries \in Int /\ iterN \in Nat /\ pos \in Nat
  /\ iterBlk \in Blocks /\ bufBlk \in Blocks /\ heap \subseteq Blocks
  /\ buf \in Seq(Mounts \cup {Garbage})
  /\ pos \in 0..iterN
  /\ fault \in {"none", "bad_free", "uninit_read", "use_after_free",
                "out_of_bounds"}
  /\ filled \in Seq(Mounts) /\ reported \in Seq(Mounts)

(* No path of getfsstat / fsstatEntry / endfsstat frees a block twice,     *)
(* reads an iterator or buffer after it was freed, or hands Java a statfs  *)
(* slot that no getfsstat(2) filled -- across every retry of the loop,     *)
(* every failing malloc or system call, and every mount in between.        *)
MemorySafe == fault = "none"

(* Every live block is one the listing thread still holds: the iterator   *)
(* and its current buffer while a getfsstat call or a listing is under way *)
(* and nothing once getfsstat failed or endfsstat ran (no leak on any      *)
(* error path, and no buffer of an earlier retry left behind).             *)
Held ==
  IF pc \in Idle THEN {} ELSE {iterBlk, bufBlk} \ {Null}
NoLeak == heap = Held

(* Java receives the entries of the last getfsstat(2) snapshot in the     *)
(* kernel's order, none skipped or repeated.                               *)
ListingFollowsSnapshot ==
  reported = SubSeq(filled, 1, Len(reported))

(* BsdNativeDispatcher.c:99-100: "It's possible that a new filesystem gets *)
(* mounted between the first getfsstat and the second so loop until       *)
(* consistent" -- when getfsstat returns, the iterator holds every file    *)
(* system of the table the last getfsstat(2) call saw.                     *)
SnapshotComplete ==
  pc = "listing" => iterN = Len(filled)
=============================================================================
