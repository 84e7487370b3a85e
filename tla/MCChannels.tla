----------------------------- MODULE MCChannels -----------------------------
(***************************************************************************)
(* The descriptor natives of libnio in one process: IOUtil's              *)
(* configureBlocking, makePipe and wakeup pipe, and InheritedChannel's    *)
(* dup, dup2, open0, close0 and socket queries, over one descriptor table *)
(* (fdDesc, flags, javaFds are the same variables in both).         *)
(* Any step of either may fall between two steps of the other: the two   *)
(* configureBlocking callers, the selector thread, the waker and the     *)
(* thread calling the InheritedChannel natives all run at once.           *)
(*                                                                         *)
(* Java never hands the Selector's wakeup pipe to InheritedChannel's      *)
(* close0 or to dup2 as the descriptor to replace.  The calls of the      *)
(* InheritedChannel natives and of configureBlocking are bounded.         *)
(***************************************************************************)
EXTENDS Integers, Sequences, Functions

CONSTANTS MaxFd, Callers, BufSize, PipeCap, MaxWrites, SockTypes, Families,
          MaxICCalls, \* bound on the InheritedChannel natives called
          MaxCbCalls  \* bound on the configureBlocking calls

VARIABLES
  fdDesc, flags, javaFds,                                 \* the table
  pipeFds, pipe, mpc, tn, last, writes, unseen, wret, cb, \* IOUtil
  sockDesc, sockType, sockFamily, peer, ic,               \* InheritedChannel
  icCalls, cbCalls                                        \* calls made

ioVars == <<pipeFds, pipe, mpc, tn, last, writes, unseen, wret, cb>>
icVars == <<sockDesc, sockType, sockFamily, peer, ic>>
vars   == <<fdDesc, flags, javaFds, ioVars, icVars, icCalls, cbCalls>>

IO == INSTANCE IOUtil
IC == INSTANCE InheritedChannel

Fds == 0..MaxFd

(* One call of an InheritedChannel native, with descriptors Java may pass. *)
ICCall ==
  \/ \E fd \in Fds : IC!Dup(fd) \/ IC!Queries(fd)
  \/ \E fd \in Fds \ Range(pipeFds) : IC!Close0(fd)
  \/ \E fd \in Fds, fd2 \in Fds \ Range(pipeFds) : IC!Dup2(fd, fd2)
  \/ \E oflag \in IC!OFlags, strOK, openOK \in BOOLEAN :
       IC!Open0(oflag, strOK, openOK)

ICStep ==
  \/ icCalls < MaxICCalls /\ ICCall /\ icCalls' = icCalls + 1
  \/ IC!PeerReset /\ UNCHANGED icCalls

Init == IO!Init /\ IC!Init /\ icCalls = 0 /\ cbCalls = 0

(* A step of IOUtil; Java calls configureBlocking only on an open channel *)
(* (ensureOpen, under the channel's state lock, which close also takes). *)
IOStep ==
  \/ /\ cbCalls < MaxCbCalls /\ cbCalls' = cbCalls + 1
     /\ \E t \in Callers, fd \in DOMAIN fdDesc, b \in BOOLEAN : IO!CbGetFl(t, fd, b)
  \/ \E t \in Callers : IO!CbSetFl(t) /\ UNCHANGED cbCalls
  \/ /\ \E b \in BOOLEAN : IO!MakePipe(b)
     /\ UNCHANGED cbCalls
  \/ (IO!Drain \/ IO!Drain1 \/ IO!Write1) /\ UNCHANGED cbCalls

Next ==
  \/ IOStep /\ UNCHANGED <<icVars, icCalls>>
  \/ ICStep /\ UNCHANGED <<ioVars, cbCalls>>

Spec == Init /\ [][Next]_vars

TypeOK                        == IO!TypeOK
NoFdLeak                      == IO!NoFdLeak
NoLostWakeup                  == IO!NoLostWakeup
OpenDupHonest                 == IC!OpenDupHonest
=============================================================================
