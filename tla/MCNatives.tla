----------------------------- MODULE MCNatives -----------------------------
(***************************************************************************)
(* The call-style JNI entry points of libjava and libnio, called by one   *)
(* Java thread one at a time: path collapse (PathUtil), class definition  *)
(* (ClassLoader), the single-call BSD file-system natives                 *)
(* (BsdDispatcher), the macOS path normalisation (MacOSXDispatcher), the  *)
(* environment harvest (EnvHarvest), the mount-table listing (FsStat) and *)
(* the proxy lookup (ProxySelector), while other threads may setenv and   *)
(* other processes mount and unmount file systems.                        *)
(*                                                                         *)
(* The thread is inside at most one native at a time: a component steps   *)
(* only while the others are between calls (a listing, from getfsstat to  *)
(* endfsstat, counts as one call).  The components share no state, so    *)
(* setenv and mount / unmount are let happen only while the thread is     *)
(* between calls or in the one component that reads environ or the mount *)
(* table; there, EnvHarvest's and FsStat's own actions decide where they  *)
(* may fall.                                                               *)
(***************************************************************************)
EXTENDS Integers, Sequences, SequencesExt

CONSTANTS
  Inputs, NameBufSize, SourceBufSize,   \* PathUtil, ClassLoader
  Times, AttrSize,                      \* BsdDispatcher
  PathMax, Lengths,                     \* MacOSXDispatcher
  Strings, MaxEnv, Race,                \* EnvHarvest
  m1, m2, m3, Garbage, Mounts, InitTable, MaxMountOps,  \* FsStat
  ProxyInputs                                            \* ProxySelector

VARIABLES
  busy, path, result,               \* PathUtil
  clCall, clOut,                    \* ClassLoader
  bsdCall, bsdArg, bsdOut,          \* BsdDispatcher
  macCall, macArg, macOut,          \* MacOSXDispatcher
  environ, envPc, i, j, count, envResult, exc, faults,  \* EnvHarvest
  table, mountOps, fsPc, nentries, iterBlk, iterN, pos, bufBlk, buf, heap,
  nalloc, fault, filled, reported,                       \* FsStat
  pxPc, proxies, idx, expanded, cbResult, pacOut, owned, pxExc, pxFaults,
  pxResult                                               \* ProxySelector

pathVars == <<busy, path, result>>
clVars   == <<clCall, clOut>>
bsdVars  == <<bsdCall, bsdArg, bsdOut>>
macVars  == <<macCall, macArg, macOut>>
envVars  == <<environ, envPc, i, j, count, envResult, exc, faults>>
fsVars   == <<table, mountOps, fsPc, nentries, iterBlk, iterN, pos, bufBlk,
              buf, heap, nalloc, fault, filled, reported>>
pxVars   == <<pxPc, proxies, idx, expanded, cbResult, pacOut, owned, pxExc,
              pxFaults, pxResult>>
vars     == <<pathVars, clVars, bsdVars, macVars, envVars, fsVars, pxVars>>

Path == INSTANCE MCPathUtil
CL   == INSTANCE ClassLoader WITH call <- clCall, out <- clOut
BSD  == INSTANCE BsdDispatcher WITH call <- bsdCall, arg <- bsdArg, out <- bsdOut
Mac  == INSTANCE MacOSXDispatcher WITH call <- macCall, arg <- macArg, out <- macOut
Env  == INSTANCE EnvHarvest WITH pc <- envPc, result <- envResult
Fs   == INSTANCE MCFsStat WITH pc <- fsPc
Px   == INSTANCE MCProxySelector WITH Inputs <- ProxyInputs, pc <- pxPc,
          exc <- pxExc, faults <- pxFaults, result <- pxResult

(* The input catalogues of MCPathUtil and MCProxySelector, restated     *)
(* here (a constant given a value through the instance it substitutes     *)
(* into would be circular): normalised absolute paths over 'a', '.', '/'  *)
(* of up to 8 characters, and lists of up to two CF proxy dictionaries.   *)
MCInputs ==
  {s \in BoundedSeq({"a", ".", "/"}, 8) :
     /\ Len(s) >= 1 /\ s[1] = "/"
     /\ \A k \in 1..(Len(s) - 1) : s[k] = "/" => s[k + 1] # "/"
     /\ Len(s) > 1 => s[Len(s)] # "/"}
MCProxyInputs ==
  BoundedSeq({[type |-> t, answer |-> <<>>] : t \in {"none", "http", "socks", "noport", "bad"}}
             \cup {[type |-> "pac", answer |-> <<"socks">>],
                   [type |-> "pac", answer |-> <<"none", "http">>]}, 2)
MCMounts  == {m1, m2, m3}
MCInitTable == <<m1, m2>>
(* Normalised lengths on both sides of PATH_MAX; times around 0 and a second, before and after 1970; environment      *)
(* strings with no '=', one '=' and two '='.                              *)
MCLengths == {0, 1023, 1024, 2048}
MCTimes   == {-1500000000, 0, 1500000000}
MCStrings == {<<"a", "=", "a">>, <<"a", "=", "=">>, <<"a", "a">>}

PathIdle == ~busy
CLIdle   == clCall = "none"
BSDIdle  == bsdCall = "none"
MacIdle  == macCall = "none"
EnvIdle  == envPc = "idle"
FsIdle   == fsPc = "idle"
PxIdle   == pxPc = "idle"

Init == Path!Init /\ CL!Init /\ BSD!Init /\ Mac!Init /\ Env!Init /\ Fs!Init /\ Px!Init

OnlyPath == CLIdle /\ BSDIdle /\ MacIdle /\ EnvIdle /\ FsIdle /\ PxIdle
OnlyCL   == PathIdle /\ BSDIdle /\ MacIdle /\ EnvIdle /\ FsIdle /\ PxIdle
OnlyBSD  == PathIdle /\ CLIdle /\ MacIdle /\ EnvIdle /\ FsIdle /\ PxIdle
OnlyMac  == PathIdle /\ CLIdle /\ BSDIdle /\ EnvIdle /\ FsIdle /\ PxIdle
OnlyEnv  == PathIdle /\ CLIdle /\ BSDIdle /\ MacIdle /\ FsIdle /\ PxIdle
OnlyFs   == PathIdle /\ CLIdle /\ BSDIdle /\ MacIdle /\ EnvIdle /\ PxIdle
OnlyPx   == PathIdle /\ CLIdle /\ BSDIdle /\ MacIdle /\ EnvIdle /\ FsIdle

(* A step of the proxy lookup, the other components standing still. *)
PxStep(A) == OnlyPx /\ A /\ UNCHANGED <<pathVars, clVars, bsdVars, macVars, envVars, fsVars>>

Next ==
  \/ OnlyPath /\ Path!Next /\ UNCHANGED <<clVars, bsdVars, macVars, envVars, fsVars, pxVars>>
  \/ OnlyCL /\ CL!Next /\ UNCHANGED <<pathVars, bsdVars, macVars, envVars, fsVars, pxVars>>
  \/ OnlyBSD /\ BSD!Next /\ UNCHANGED <<pathVars, clVars, macVars, envVars, fsVars, pxVars>>
  \/ OnlyMac /\ Mac!Next /\ UNCHANGED <<pathVars, clVars, bsdVars, envVars, fsVars, pxVars>>
  \/ OnlyEnv /\ (Env!Harvest \/ Env!Setenv)
     /\ UNCHANGED <<pathVars, clVars, bsdVars, macVars, fsVars, pxVars>>
  \/ OnlyFs /\ (Fs!Lister \/ Fs!Mount \/ Fs!Unmount)
     /\ UNCHANGED <<pathVars, clVars, bsdVars, macVars, envVars, pxVars>>
  \/ PxStep(Px!Next)

(* A step of environ() itself, the other components standing still. *)
EnvStep(A) == OnlyEnv /\ A /\ UNCHANGED <<pathVars, clVars, bsdVars, macVars, fsVars, pxVars>>

(* Only the steps a thread takes inside a native are fair, never a call  *)
(* or a setenv: once the thread is inside getSystemProxies the run loop's *)
(* timeout always returns (as in ProxySelector), and once it is inside    *)
(* environ() it runs straight-line code with no blocking call.  (Each    *)
(* step of environ() moves its pc or its index i, so fairness is stated  *)
(* on those two.)                                                          *)
Spec == Init /\ [][Next]_vars /\ WF_vars(PxStep(Px!Lister))
          /\ WF_<<envPc, i>>(EnvStep(Env!Work))

-----------------------------------------------------------------------------
(* The properties of the components, checked together (each is stated   *)
(* and commented in its module).                                           *)

(* collapse keeps the meaning of every path (PathUtil). *)
CollapsePreservesMeaning == Path!CollapsePreservesMeaning
(* collapse leaves no "." or resolvable ".." name (PathUtil). *)
CollapseComplete == Path!CollapseComplete
(* no defineClass path leaks a heap buffer (ClassLoader). *)
NoLeak == CL!NoLeak
(* no stack buffer freed, no buffer overflowed (ClassLoader). *)
MemorySafe == CL!MemorySafe
(* the defineClass entry points return NULL iff an exception is pending. *)
NullIffException == CL!NullIffException
(* setattrlist0 / fsetattrlist0 pack the attribute buffer in order. *)
AttrBufferPacked == BSD!AttrBufferPacked
(* normalizepath releases what it holds and copies within its buffers.  *)
NormalizeReleasesInBounds == Mac!NormalizeReleasesInBounds
(* normalizepath calls only GetArrayLength in its critical region and no *)
(* JNI function with an exception pending (MacOSXDispatcher).             *)
NormalizeJNIDiscipline == Mac!NormalizeJNIDiscipline
(* environ() returns the environment's pairs exactly, or NULL and throws. *)
EnvArrayExact == Env!EnvArrayExact
(* the types of the mount-table listing's state (FsStat). *)
FsTypeOK == Fs!TypeOK
(* no double free, use after free or read of an unfilled slot (FsStat). *)
FsMemorySafe == Fs!MemorySafe
(* no block leaked on any path of a listing (FsStat). *)
FsNoLeak == Fs!NoLeak
(* the listing follows the last getfsstat(2) snapshot (FsStat). *)
ListingFollowsSnapshot == Fs!ListingFollowsSnapshot
(* the types of the proxy lookup's state (ProxySelector). *)
ProxyTypeOK == Px!TypeOK
(* every CF object getSystemProxies owns is released once (ProxySelector). *)
CFBalanced == Px!CFBalanced
(* the Proxy[] returned is an expansion of the system list (ProxySelector). *)
ResultIsExpansion == Px!ResultIsExpansion
(* getSystemProxies implements ProxyLookup (ProxySelector). *)
ProxyLookupRefined == Px!ProxyLookupRefined
(* once environ() has started it returns (EnvHarvest). *)
EnvironReturns == Env!EnvironReturns
(* getmntonname0 reads f_mntonname only after statfs filled it, and makes *)
(* no JNI call with an exception pending (BsdDispatcher).                 *)
MntonnameFromStatfs == BSD!MntonnameFromStatfs
(* every timespec initattrlist writes has 0 <= tv_nsec < 1e9              *)
(* (BsdDispatcher).                                                        *)
TimespecNormalised == BSD!TimespecNormalised
=============================================================================
