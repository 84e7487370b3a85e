------------------------------- MODULE IOUtil -------------------------------
(***************************************************************************)
(* IOUtil.c (libnio, Unix): the blocking-mode helper configureBlocking,   *)
(* makePipe, and the wakeup-pipe pair write1 / drain, drain1 that a NIO   *)
(* Selector uses: one thread writes a byte to wake the selector thread,   *)
(* which drains the pipe.                                                  *)
(*                                                                         *)
(* The process's descriptor table (FdTable) is small (Fds): each open    *)
(* descriptor refers to an open file description (fdDesc), and the file  *)
(* status flags belong to the description, so descriptors made by dup(2) *)
(* share them.                                                            *)
(* pipe(2) allocates the lowest free descriptors.  Flags are W-bit words  *)
(* handled with Bitwise, so that the -1 a failed F_GETFL returns is the    *)
(* all-ones word the C code then masks.  Every read(2) of drain is a step  *)
(* of its own, so the waker's write1 can fall between two of them, and    *)
(* configureBlocking's F_GETFL and F_SETFL are two steps of a caller      *)
(* thread, so that callers on descriptors sharing a description can       *)
(* interleave.                                                             *)
(***************************************************************************)
EXTENDS Integers, Sequences, FiniteSets, FiniteSetsExt, Functions, Bitwise, FdTable

CONSTANTS
  MaxFd,      \* the highest descriptor number the table holds
  Callers,    \* the Java threads that call configureBlocking
  BufSize,    \* sizeof(buf) in drain (16 in the code)
  PipeCap,    \* bytes the pipe holds before write(2) would block
  MaxWrites   \* bound on the waker's write1 calls

(* Descriptor 0 is open at start (the standard or inherited descriptor,   *)
(* open for reading and writing); the others are free.  A description is *)
(* named by a number; there are never more descriptions than descriptors. *)
Fds    == 0..MaxFd
Descs  == Fds
StdFds == {0}

(* F_GETFL words as on macOS: bits 0-1 the access mode (O_ACCMODE),      *)
(* bit 2 O_NONBLOCK, bit 3 O_APPEND.  F_SETFL changes only O_NONBLOCK and *)
(* O_APPEND.                                                              *)
W          == 4
AllOnes    == 2^W - 1        \* the int -1 in W bits
O_RDONLY   == 0
O_WRONLY   == 1
O_RDWR     == 2
O_ACCMODE  == 3
O_NONBLOCK == 4
O_APPEND   == 8
Settable   == O_APPEND | O_NONBLOCK
Complement(x) == AllOnes - x  \* ~x in W bits

(* sun.nio.ch.IOStatus values returned to Java. *)
IOS_EOF         == -1
IOS_UNAVAILABLE == -2
IOS_INTERRUPTED == -3
IOS_THROWN      == -5

VARIABLES
  fdDesc,     \* open fd -> the description it refers to
  flags,      \* description in use -> its file status flags
  pipeFds,    \* <<fd[0], fd[1]>> of the pipe makePipe returned, or <<>>
  pipe,       \* bytes in the pipe
  mpc,        \* the selector thread: "idle" or inside drain's loop
  tn,         \* drain's running total (0 outside drain)
  last,       \* the selector thread's last completed call
  writes,     \* write1 calls made by the waker
  unseen,     \* a wakeup was written and no drain has reported it yet
  javaFds,    \* the descriptors Java holds: the standard ones and those returned
  wret,       \* what the waker's last write1 returned
  cb          \* caller -> its configureBlocking: where it is and what it read

vars == <<fdDesc, flags, pipeFds, pipe, mpc, tn, last, writes, unseen,
          javaFds, wret, cb>>

(* The open descriptors, the descriptions they refer to, and a free one. *)
fdOpen   == DOMAIN fdDesc
InUse    == Range(fdDesc)
FreeDesc == Lowest(Descs, InUse)

NonBlocking(fd) == (flags[fdDesc[fd]] & O_NONBLOCK) # 0

-----------------------------------------------------------------------------
(* newflags = blocking ? (flags & ~O_NONBLOCK) : (flags | O_NONBLOCK).   *)
NewFlags(fl, blocking) ==
  IF blocking THEN fl & Complement(O_NONBLOCK) ELSE fl | O_NONBLOCK

(* configureBlocking (lines 49-56) done in one go, on a descriptor whose *)
(* F_GETFL answer is fl: the flags it asks F_SETFL for, or none when they *)
(* equal what it read.  setOK is whether F_SETFL succeeds.               *)
configureBlocking(fl, blocking, setOK) ==
  IF fl = NewFlags(fl, blocking) THEN [set |-> FALSE, fl |-> fl, ret |-> 0]
  ELSE [set |-> setOK, fl |-> NewFlags(fl, blocking),
        ret |-> IF setOK THEN 0 ELSE -1]

(* The flags F_SETFL leaves on a description: its access mode and the     *)
(* settable bits of the request.                                          *)
SetFl(old, req) == (old & O_ACCMODE) | (req & Settable)

GetFl(fd) == IF fd \in fdOpen THEN flags[fdDesc[fd]] ELSE AllOnes

CbIdle == [pc |-> "idle", fd |-> 0, blocking |-> FALSE, fl |-> 0, ret |-> 0,
           exc |-> FALSE]

Init ==
  /\ fdDesc = [fd \in StdFds |-> fd]
  /\ flags = [d \in StdFds |-> O_RDWR]
  /\ pipeFds = <<>> /\ pipe = 0 /\ mpc = "idle" /\ tn = 0
  /\ last = [op |-> "none", fd |-> 0, blocking |-> FALSE, ret |-> 0, exc |-> FALSE]
  /\ writes = 0 /\ unseen = FALSE /\ javaFds = StdFds
  /\ wret = 0
  /\ cb = [t \in Callers |-> CbIdle]

(* Java_sun_nio_ch_IOUtil_configureBlocking (lines 58-64) by caller t,   *)
(* up to F_GETFL (line 52) and the comparison (line 55): when the flags  *)
(* already are what it asks, it returns 0 at once.  Java never changes   *)
(* the mode of a Selector's wakeup pipe.                                  *)
CbGetFl(t, fd, blocking) ==
  /\ cb[t].pc \in {"idle", "returned"} /\ fd \notin Range(pipeFds)
  /\ LET fl == GetFl(fd) IN
     IF fl = NewFlags(fl, blocking)
     THEN cb' = [cb EXCEPT ![t] = [pc |-> "returned", fd |-> fd,
                 blocking |-> blocking, fl |-> 0, ret |-> 0, exc |-> FALSE]]
     ELSE cb' = [cb EXCEPT ![t] = [pc |-> "setfl", fd |-> fd,
                 blocking |-> blocking, fl |-> NewFlags(fl, blocking),
                 ret |-> 0, exc |-> FALSE]]
  /\ UNCHANGED <<fdDesc, flags, pipeFds, pipe, mpc, tn, last, writes,
                 unseen, javaFds, wret>>

(* F_SETFL with the flags computed from what F_GETFL read (line 55); it   *)
(* fails on a descriptor that is not open, and the wrapper throws an      *)
(* IOException for the -1.                                                *)
CbSetFl(t) ==
  /\ cb[t].pc = "setfl"
  /\ LET fd == cb[t].fd
         ok == fd \in fdOpen
     IN /\ flags' = IF ok THEN [flags EXCEPT ![fdDesc[fd]] = SetFl(@, cb[t].fl)]
                    ELSE flags
        /\ cb' = [cb EXCEPT ![t].pc = "returned", ![t].fl = 0,
                            ![t].ret = IF ok THEN 0 ELSE -1, ![t].exc = ~ok]
  /\ UNCHANGED <<fdDesc, pipeFds, pipe, mpc, tn, last, writes, unseen,
                 javaFds, wret>>

(* convertReturnVal (lines 181-202) of a write(2) or read(2) result n with *)
(* the errno it left.                                                     *)
convertReturnVal(n, reading, errno) ==
  CASE n > 0                              -> n
    [] n = 0                              -> IF reading THEN IOS_EOF ELSE 0
    [] errno \in {"EAGAIN", "EWOULDBLOCK"} -> IOS_UNAVAILABLE
    [] errno = "EINTR"                    -> IOS_INTERRUPTED
    [] OTHER                              -> IOS_THROWN

(* The jlong ((jlong) fd[0] << 32) | fd[1], with the shift scaled to 16   *)
(* bits: the descriptors here are far below 2^16.                         *)
PackFds(r, w) == r * 2^16 + w

(* A mutant: a failed makePipe closes only fd[0].                        *)
ClosePipeFirstOnly(open, r, w) == open \ {r}

(* close(fd[0]); close(fd[1]) on the failure path of makePipe.          *)
ClosePipe(open, r, w) == open \ {r, w}

(* Java_sun_nio_ch_IOUtil_makePipe (lines 66-85).  pipe(2) takes the two  *)
(* lowest free descriptors, with a new description each, or fails with   *)
(* EMFILE.  For a non-blocking pipe both ends are made non-blocking,     *)
(* fd[1] only when fd[0] succeeded; a failure throws and closes both.  A  *)
(* non-blocking pipe is the wakeup pipe of the one Selector, made once.   *)
MakePipe(blocking) ==
  /\ mpc = "idle" /\ (blocking \/ pipeFds = <<>>)
  /\ LET free == Fds \ fdOpen
         Last(ret, exc) == [op |-> "makePipe", fd |-> 0, blocking |-> blocking,
                           ret |-> ret, exc |-> exc]
     IN IF Cardinality(free) < 2
        THEN /\ last' = Last(0, TRUE)
             /\ UNCHANGED <<fdDesc, flags, pipeFds, pipe, javaFds>>
        ELSE LET r  == Min(free)
                 w  == Min(free \ {r})
                 dr == FreeDesc
                 dw == Lowest(Descs, InUse \cup {dr})
                 opened == Bind(Bind(fdDesc, r, dr), w, dw)
                 fresh  == flags @@ (dr :> O_RDONLY) @@ (dw :> O_WRONLY)
             IN \E ok0, ok1 \in BOOLEAN :
                LET c0 == configureBlocking(O_RDONLY, FALSE, ok0)
                    c1 == configureBlocking(O_WRONLY, FALSE, ok1)
                IN IF ~blocking /\ (c0.ret < 0 \/ c1.ret < 0)
                   THEN LET kept == Keep(opened, ClosePipe(fdOpen \cup {r, w}, r, w))
                        IN  /\ fdDesc' = kept
                            /\ flags' = Trim(fresh, kept)
                            /\ last' = Last(0, TRUE)
                            /\ UNCHANGED <<pipeFds, pipe, javaFds>>
                   ELSE /\ fdDesc' = opened
                        /\ flags' = IF blocking THEN fresh
                                    ELSE [fresh EXCEPT ![dr] = SetFl(@, c0.fl),
                                                       ![dw] = SetFl(@, c1.fl)]
                        /\ pipeFds' = IF blocking THEN pipeFds ELSE <<r, w>>
                        /\ pipe' = IF blocking THEN pipe ELSE 0
                        /\ last' = Last(PackFds(r, w), FALSE)
                        /\ javaFds' = javaFds \cup {r, w}
  /\ UNCHANGED <<mpc, tn, writes, unseen, wret, cb>>

(* A mutant: drain keeps only the last read, "tn = n".                   *)
DrainTotalLast(t, n) == n

(* tn += n (line 102): the total, a failed read's -1 included.           *)
DrainTotal(t, n) == t + n

(* One read(2) of Java_sun_nio_ch_IOUtil_drain (lines 94-109) on the     *)
(* wakeup pipe.  A full buffer continues the loop; otherwise drain       *)
(* returns whether the total is positive.  On the non-blocking pipe an   *)
(* empty read fails with EAGAIN, which is not thrown; a read interrupted *)
(* by a signal fails with EINTR, which is thrown as an IOException.      *)
Drain ==
  /\ pipeFds # <<>> /\ mpc \in {"idle", "drain"}
  /\ \E intr \in BOOLEAN :
     LET t0 == IF mpc = "idle" THEN 0 ELSE tn
         n  == IF pipe > 0 /\ ~intr THEN Min({pipe, BufSize}) ELSE -1
         t1 == DrainTotal(t0, n)
     IN /\ pipe' = pipe - Max({n, 0})
        /\ IF n = BufSize
           THEN mpc' = "drain" /\ tn' = t1 /\ UNCHANGED <<last, unseen>>
           ELSE /\ mpc' = "idle" /\ tn' = 0
                /\ last' = [op |-> "drain", fd |-> pipeFds[1], blocking |-> FALSE,
                            ret |-> IF t1 > 0 THEN 1 ELSE 0, exc |-> intr]
                /\ unseen' = (unseen /\ t1 <= 0)
  /\ UNCHANGED <<fdDesc, flags, pipeFds, writes, javaFds, wret, cb>>

(* A mutant: the EAGAIN of an empty non-blocking read is passed through. *)
drain1ResultRaw(n, errno) == n

(* The value drain1 returns for read(2)'s n and errno (lines 117-128).   *)
drain1Result(n, errno) ==
  CASE n >= 0                             -> n
    [] errno \in {"EAGAIN", "EWOULDBLOCK"} -> 0
    [] errno = "EINTR"                    -> IOS_INTERRUPTED
    [] OTHER                              -> IOS_THROWN

(* Java_sun_nio_ch_IOUtil_drain1 (lines 111-129) on the wakeup pipe: one *)
(* byte, or a failed read: EAGAIN when the pipe is empty, or EINTR.      *)
Drain1 ==
  /\ pipeFds # <<>> /\ mpc = "idle"
  /\ \E intr \in BOOLEAN :
       LET n   == IF pipe > 0 /\ ~intr THEN 1 ELSE -1
           res == drain1Result(n, IF intr THEN "EINTR" ELSE "EAGAIN")
       IN /\ pipe' = pipe - Max({n, 0})
          /\ last' = [op |-> "drain1", fd |-> pipeFds[1], blocking |-> FALSE,
                      ret |-> res, exc |-> FALSE]
          /\ unseen' = (unseen /\ n <= 0)
  /\ UNCHANGED <<fdDesc, flags, pipeFds, mpc, tn, writes, javaFds, wret, cb>>

(* Java_sun_nio_ch_IOUtil_write1 (lines 87-92) from the waking thread: a *)
(* byte, or, the non-blocking pipe being full, EAGAIN converted to       *)
(* IOS_UNAVAILABLE.  Either way the selector has a wakeup to see.        *)
Write1 ==
  /\ pipeFds # <<>> /\ writes < MaxWrites
  /\ LET n == IF pipe < PipeCap THEN 1 ELSE -1 IN
       /\ pipe' = pipe + Max({n, 0})
       /\ wret' = convertReturnVal(n, FALSE, "EAGAIN")
  /\ writes' = writes + 1 /\ unseen' = TRUE
  /\ UNCHANGED <<fdDesc, flags, pipeFds, mpc, tn, last, javaFds, cb>>

Next ==
  \/ \E t \in Callers, fd \in Fds, b \in BOOLEAN : CbGetFl(t, fd, b)
  \/ \E t \in Callers : CbSetFl(t)
  \/ \E b \in BOOLEAN : MakePipe(b)
  \/ Drain \/ Drain1 \/ Write1

Spec == Init /\ [][Next]_vars

-----------------------------------------------------------------------------
TypeOK ==
  /\ fdOpen \subseteq Fds /\ fdDesc \in [fdOpen -> Descs]
  /\ flags \in [InUse -> 0..AllOnes]
  /\ pipe \in 0..PipeCap /\ mpc \in {"idle", "drain"}
  /\ writes \in 0..MaxWrites /\ unseen \in BOOLEAN
  /\ wret \in {0, 1, IOS_UNAVAILABLE}
  /\ last.op = "drain1" => last.ret \in {0, 1, IOS_INTERRUPTED, IOS_THROWN}
  /\ \A t \in Callers : cb[t].pc \in {"idle", "setfl", "returned"}

(* Every open descriptor is one Java holds: one the process started with *)
(* or one a native returned; a makePipe that fails after pipe(2) closes  *)
(* both ends.                                                            *)
NoFdLeak == fdOpen = javaFds

(* A wakeup is never lost: when the selector thread is between calls and *)
(* a write1 has not been reported by a drain or drain1 that returned     *)
(* true, a byte is still in the pipe for the next drain.                 *)
NoLostWakeup == mpc = "idle" /\ unseen => pipe > 0

(* configureBlocking that throws nothing leaves the descriptor open in   *)
(* the mode asked for (what the Java caller assumes).                    *)
ConfigureBlockingHonest ==
  \A t \in Callers :
    cb[t].pc = "returned" /\ ~cb[t].exc =>
      /\ cb[t].fd \in fdOpen
      /\ NonBlocking(cb[t].fd) = ~cb[t].blocking
=============================================================================
