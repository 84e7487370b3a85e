-------------------------- MODULE InheritedChannel --------------------------
(***************************************************************************)
(* InheritedChannel.c (libnio, Unix): the natives behind                  *)
(* System.inheritedChannel(): dup, dup2, open0 and close0 change the      *)
(* process's descriptor table; soType0, addressFamily, isConnected,       *)
(* peerPort0, inetPeerAddress0 and unixPeerAddress0 ask the kernel about  *)
(* a descriptor, each with a system call of its own.                      *)
(*                                                                         *)
(* The descriptor table is the one of IOUtil (FdTable's fdDesc and flags, *)
(* and javaFds), shared when the two are composed.     *)
(* The only socket is the one the process inherited on descriptor 0, if  *)
(* any: its type, family and whether its peer is still connected.  Every *)
(* call records what it returned and whether it left an exception         *)
(* pending.                                                                *)
(***************************************************************************)
EXTENDS Integers, FiniteSets, FiniteSetsExt, Bitwise, FdTable

CONSTANTS
  MaxFd,         \* the highest descriptor number the table holds
  SockTypes,     \* the types the inherited socket may have
  Families       \* the address families it may have

VARIABLES
  fdDesc, flags, javaFds,   \* the descriptor table (IOUtil)
  sockDesc,      \* the description of the inherited socket, -1 when none
  sockType,      \* "stream", "dgram" or another type
  sockFamily,    \* "inet", "inet6" or "unix"
  peer,          \* the socket's peer is connected
  ic             \* the last call: [op, ret, exc, str, mode]

icVars == <<sockDesc, sockType, sockFamily, peer, ic>>
vars   == <<fdDesc, flags, javaFds, icVars>>

Fds   == 0..MaxFd
Descs == Fds

(* Access modes as F_GETFL reports them (IOUtil's encoding). *)
O_RDONLY  == 0
O_WRONLY  == 1
O_RDWR    == 2
O_ACCMODE == 3

(* The constants of sun_nio_ch_InheritedChannel.h. *)
UNKNOWN     == -1
SOCK_STREAM == 1
SOCK_DGRAM  == 2
AF_UNKNOWN  == -1
AF_INET     == 1
AF_INET6    == 2
AF_UNIX     == 3

(* A port a connected peer may have. *)
PeerPort == 7

(* The open0 modes Java passes, and one it does not know. *)
OFlags == {"O_RDWR", "O_RDONLY", "O_WRONLY", "O_APPEND"}

fdOpen == DOMAIN fdDesc
InUse  == Range(fdDesc)

(* The descriptor refers to the inherited socket. *)
IsSock(fd) == fd \in fdOpen /\ fdDesc[fd] = sockDesc

(* getpeername(2) succeeds: a socket with a connected peer. *)
HasPeer(fd) == IsSock(fd) /\ peer

Call(op, ret, exc) ==
  [op |-> op, ret |-> ret, exc |-> exc, str |-> FALSE, mode |-> 0]

Init ==
  /\ fdDesc = (0 :> 0) /\ flags = (0 :> O_RDWR)
  /\ javaFds = {0}
  /\ sockDesc \in {0, -1} /\ sockType \in SockTypes
  /\ sockFamily \in Families /\ peer \in BOOLEAN
  /\ ic = Call("none", 0, FALSE)

(* The table becomes desc, closing descriptors: the flags of a          *)
(* description no descriptor refers to any more go, and the inherited    *)
(* socket is gone once no descriptor refers to its description.          *)
Rebind(desc) ==
  /\ fdDesc' = desc /\ flags' = Trim(flags, desc)
  /\ sockDesc' = IF sockDesc \in Range(desc) THEN sockDesc ELSE -1

-----------------------------------------------------------------------------
(* Java_sun_nio_ch_InheritedChannel_dup (lines 118-126): dup(2) takes the *)
(* lowest free descriptor for the same description; on failure (EBADF,   *)
(* EMFILE) an IOException is thrown and the -1 returned.                 *)
Dup(fd) ==
  LET free == Fds \ fdOpen
      ok   == fd \in fdOpen /\ free # {}
      nfd  == Min(free)
  IN  /\ IF ok
         THEN /\ fdDesc' = Bind(fdDesc, nfd, fdDesc[fd])
              /\ javaFds' = javaFds \cup {nfd}
              /\ ic' = Call("dup", nfd, FALSE)
         ELSE /\ ic' = Call("dup", -1, TRUE)
              /\ UNCHANGED <<fdDesc, javaFds>>
      /\ UNCHANGED <<flags, sockDesc, sockType, sockFamily, peer>>

(* Java_sun_nio_ch_InheritedChannel_dup2 (lines 128-134): fd2 is closed   *)
(* if open and made to refer to fd's description (nothing when fd = fd2); *)
(* a bad fd throws an IOException.                                       *)
Dup2(fd, fd2) ==
  /\ IF fd \in fdOpen
     THEN /\ Rebind(Bind(fdDesc, fd2, fdDesc[fd]))
          /\ javaFds' = javaFds \cup {fd2}
          /\ ic' = Call("dup2", 0, FALSE)
     ELSE /\ ic' = Call("dup2", 0, TRUE)
          /\ UNCHANGED <<fdDesc, flags, javaFds, sockDesc>>
  /\ UNCHANGED <<sockType, sockFamily, peer>>

(* A mutant: the failure path of open(2) returns without                 *)
(* JNU_ReleaseStringPlatformChars.                                        *)
open0KeepStr(oflag, strOK, openOK) ==
  CASE oflag = "O_APPEND" -> [ret |-> "none", exc |-> TRUE, str |-> FALSE]
    [] ~strOK             -> [ret |-> "none", exc |-> TRUE, str |-> FALSE]
    [] ~openOK            -> [ret |-> "none", exc |-> TRUE, str |-> TRUE]
    [] OTHER              -> [ret |-> "fd", exc |-> FALSE, str |-> FALSE]

(* The path of Java_sun_nio_ch_InheritedChannel_open0 (lines 136-169):   *)
(* an unknown mode throws InternalError; a NULL from                     *)
(* JNU_GetStringPlatformChars has its OutOfMemoryError pending; a failed *)
(* open(2) throws an IOException.  The platform string is released on    *)
(* every path that got it.  "fd" is the descriptor open(2) returned.     *)
open0(oflag, strOK, openOK) ==
  CASE oflag = "O_APPEND" -> [ret |-> "none", exc |-> TRUE, str |-> FALSE]
    [] ~strOK             -> [ret |-> "none", exc |-> TRUE, str |-> FALSE]
    [] ~openOK            -> [ret |-> "none", exc |-> TRUE, str |-> FALSE]
    [] OTHER              -> [ret |-> "fd", exc |-> FALSE, str |-> FALSE]

(* The switch of lines 143-156: Java's mode to the OS access mode.       *)
AccMode(oflag) ==
  CASE oflag = "O_RDWR"   -> O_RDWR
    [] oflag = "O_RDONLY" -> O_RDONLY
    [] OTHER              -> O_WRONLY

(* open0 as a step: open(2) fails when it is refused (openOK) or the     *)
(* table is full (EMFILE); it opens a new description with the access    *)
(* mode.                                                                  *)
Open0(oflag, strOK, openOK) ==
  LET free == Fds \ fdOpen
      r    == open0(oflag, strOK, openOK /\ free # {})
      nfd  == Min(free)
      d    == Lowest(Descs, InUse)
  IN  /\ IF r.ret = "fd"
         THEN /\ fdDesc' = Bind(fdDesc, nfd, d)
              /\ flags' = flags @@ (d :> AccMode(oflag))
              /\ javaFds' = javaFds \cup {nfd}
         ELSE UNCHANGED <<fdDesc, flags, javaFds>>
      /\ ic' = [op |-> "open0", ret |-> IF r.ret = "fd" THEN nfd ELSE -1,
           exc |-> r.exc, str |-> r.str,
                mode |-> IF oflag = "O_APPEND" THEN -1 ELSE AccMode(oflag)]
      /\ UNCHANGED <<sockDesc, sockType, sockFamily, peer>>

(* Java_sun_nio_ch_InheritedChannel_close0 (lines 171-176). *)
Close0(fd) ==
  /\ IF fd \in fdOpen
     THEN /\ Rebind(Keep(fdDesc, fdOpen \ {fd}))
          /\ javaFds' = javaFds \ {fd}
          /\ ic' = Call("close0", 0, FALSE)
     ELSE /\ ic' = Call("close0", 0, TRUE)
          /\ UNCHANGED <<fdDesc, flags, javaFds, sockDesc>>
  /\ UNCHANGED <<sockType, sockFamily, peer>>

(* Java_sun_nio_ch_InheritedChannel_soType0 (lines 104-116). *)
SoType0(fd) ==
  /\ ic' = Call("soType0",
                CASE IsSock(fd) /\ sockType = "stream" -> SOCK_STREAM
                  [] IsSock(fd) /\ sockType = "dgram"  -> SOCK_DGRAM
                  [] OTHER                             -> UNKNOWN, FALSE)
  /\ UNCHANGED <<fdDesc, flags, javaFds, sockDesc, sockType,
                 sockFamily, peer>>

(* Java_sun_nio_ch_InheritedChannel_addressFamily (lines 71-90):         *)
(* getsockname(2), then the family of the address.                       *)
FamilyCode == [inet |-> AF_INET, inet6 |-> AF_INET6, unix |-> AF_UNIX]

AddressFamily(fd) ==
  /\ ic' = Call("addressFamily",
                IF IsSock(fd) THEN FamilyCode[sockFamily] ELSE AF_UNKNOWN, FALSE)
  /\ UNCHANGED <<fdDesc, flags, javaFds, sockDesc, sockType,
                 sockFamily, peer>>

(* Java_sun_nio_ch_InheritedChannel_isConnected (lines 92-102). *)
IsConnected(fd) ==
  /\ ic' = Call("isConnected", IF HasPeer(fd) THEN 1 ELSE 0, FALSE)
  /\ UNCHANGED <<fdDesc, flags, javaFds, sockDesc, sockType,
                 sockFamily, peer>>

(* peerPort0 (lines 57-69), inetPeerAddress0 (lines 27-40) and           *)
(* unixPeerAddress0 (lines 42-55): each calls getpeername(2) itself and  *)
(* converts the address; the conversion (outside this file) may fail     *)
(* with an exception pending (convOK).  peerPort0 keeps its -1 then; the *)
(* address natives return NULL (0 here), as they do when getpeername    *)
(* fails or, for unixPeerAddress0, the peer is not AF_UNIX.               *)
PeerQuery(op, fd) ==
  /\ \E convOK \in BOOLEAN :
       LET asked == HasPeer(fd) /\ (op = "unixPeerAddress0" => sockFamily = "unix")
       IN  ic' = Call(op,
                      CASE ~(asked /\ convOK)  -> IF op = "peerPort0" THEN -1 ELSE 0
                        [] op = "peerPort0"    -> PeerPort
                        [] OTHER               -> 1,
                      asked /\ ~convOK)
  /\ UNCHANGED <<fdDesc, flags, javaFds, sockDesc, sockType,
                 sockFamily, peer>>

(* The remote end of the inherited socket closes or resets it. *)
PeerReset ==
  /\ sockDesc # -1 /\ peer /\ peer' = FALSE
  /\ UNCHANGED <<fdDesc, flags, javaFds, sockDesc, sockType,
                 sockFamily, ic>>

Queries(fd) ==
  \/ SoType0(fd) \/ AddressFamily(fd) \/ IsConnected(fd)
  \/ \E op \in {"peerPort0", "inetPeerAddress0", "unixPeerAddress0"} :
       PeerQuery(op, fd)

Next ==
  \/ \E fd \in Fds : Dup(fd) \/ Close0(fd) \/ Queries(fd)
  \/ \E fd, fd2 \in Fds : Dup2(fd, fd2)
  \/ \E oflag \in OFlags, strOK, openOK \in BOOLEAN : Open0(oflag, strOK, openOK)
  \/ PeerReset

Spec == Init /\ [][Next]_vars

-----------------------------------------------------------------------------
(* dup and open0 report failure both ways or not at all: -1 comes back   *)
(* exactly when an exception is pending, and a descriptor that comes    *)
(* back is open, held by Java, and (for open0) open in the access mode   *)
(* Java asked for; open0 releases the path's platform string on every    *)
(* path, the failing open(2) included.                                   *)
OpenDupHonest ==
  ic.op \in {"dup", "open0"} =>
    /\ (ic.ret = -1) = ic.exc
    /\ ic.ret # -1 => ic.ret \in fdOpen \cap javaFds
    /\ ic.op = "open0" /\ ic.ret # -1 => (flags[fdDesc[ic.ret]] & O_ACCMODE) = ic.mode
    /\ ~ic.str
=============================================================================
