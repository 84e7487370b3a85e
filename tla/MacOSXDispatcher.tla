-------------------------- MODULE MacOSXDispatcher --------------------------
(***************************************************************************)
(* Java_sun_nio_fs_MacOSXNativeDispatcher_normalizepath                    *)
(* (MacOSXNativeDispatcher.c): copy a Java char[] into a CFMutableString, *)
(* normalise it (NFC/NFD may change its length), and copy the result back *)
(* out through a UTF-16 buffer -- a stack buffer of (PATH_MAX + 1) * 2    *)
(* bytes when the normalised length is below PATH_MAX, else a malloc'd    *)
(* one of (len + 1) * 2 bytes.                                             *)
(*                                                                         *)
(* One action is one whole call; its argument is the normalised length    *)
(* and the outcome of every allocation and conversion it makes.  The      *)
(* state of a call records the CF objects and heap blocks it still holds, *)
(* the buffers it wrote and their sizes, the faults it committed, a       *)
(* pending Java exception and its result.                                 *)
(***************************************************************************)
EXTENDS Integers

CONSTANTS
  PathMax,   \* PATH_MAX
  Lengths    \* the lengths CFStringNormalize may leave

VARIABLES
  call,   \* "none" or "normalizepath", the entry point that returned last
  arg,    \* its inputs and the outcomes of its callees
  out     \* [held, faults, exc, result, writes]

vars == <<call, arg, out>>

(* held: the objects the call owns ("csref", "heap"); writes: the writes  *)
(* into a buffer, as [buf, size, bytes] with the buffer's size and the    *)
(* number of bytes written.                                                *)
M0 == [held |-> {}, faults |-> {}, exc |-> FALSE, result |-> "none",
       critical |-> FALSE, critOps |-> {}, writes |-> {}]

(* critOps: what the call did while its critical region was open. *)
InRegion(m, op) == IF m.critical THEN [m EXCEPT !.critOps = @ \cup {op}] ELSE m

(* A JNI call: a fault if an exception is pending. *)
JNI(m) ==
  InRegion([m EXCEPT !.faults = @ \cup (IF m.exc THEN {"jni_pending"} ELSE {})], "JNI")

(* GetArrayLength: one of the few JNI functions HotSpot lets a thread    *)
(* call inside a critical region (it neither allocates nor blocks), so it *)
(* is a fault only with an exception pending.                              *)
GetArrayLength(m) ==
  InRegion([m EXCEPT !.faults = @ \cup (IF m.exc THEN {"jni_pending"} ELSE {})],
           "GetArrayLength")

(* JNU_ThrowOutOfMemoryError. *)
ThrowOOM(m) == [JNI(m) EXCEPT !.exc = TRUE]

(* CFStringGetCString(csref, buf, size, kCFStringEncodingUTF16) of a      *)
(* string of len UTF-16 units: it writes the units and a terminator when  *)
(* they fit in size bytes and returns true, else writes nothing and       *)
(* returns false (and it may fail for another reason: ok).                *)
GetCString(m, buf, bufSize, size, len, ok) ==
  LET c == InRegion(m, "CFStringGetCString")
  IN  IF ok /\ (len + 1) * 2 <= size
      THEN [c EXCEPT !.writes = @ \cup {[buf |-> buf, size |-> bufSize,
                                          bytes |-> (len + 1) * 2]}]
      ELSE c

(* CFStringAppendCharacters(csref, chars, len): the copy of the pinned    *)
(* array into the CF string.                                               *)
AppendCharacters(m) == InRegion(m, "CFStringAppendCharacters")

(* CFStringNormalize(csref, form) and CFStringGetLength(csref). *)
Normalize(m) == InRegion(m, "CFStringNormalize")

Fits(len, size) == (len + 1) * 2 <= size

(* NewCharArray(len) and, when it succeeds, SetCharArrayRegion from the   *)
(* buffer: a NULL result leaves the OutOfMemoryError pending.             *)
NewArray(m, newOK, len) ==
  IF newOK THEN [JNI(JNI(m)) EXCEPT !.result = "array"]
  ELSE [JNI(m) EXCEPT !.exc = TRUE, !.result = "null"]

(* Mutation variant: the heap buffer malloc'd with len * 2 bytes, the     *)
(* terminator left out, while (len + 1) * 2 is passed as its size.        *)
HeapSizeShort(len) == len * 2

(* int ulen = (len + 1) * 2; chars = malloc(ulen). *)
HeapSize(len) == (len + 1) * 2

(* The copy out: through the stack buffer below PATH_MAX, else through a  *)
(* heap buffer that is freed afterwards.                                   *)
CopyOut(m, c) ==
  IF c.len < PathMax
  THEN LET size == (PathMax + 1) * 2
           m1 == GetCString(m, "stack", size, size, c.len, c.getOK)
       IN  IF Fits(c.len, size) /\ c.getOK THEN NewArray(m1, c.newOK, c.len) ELSE m1
  ELSE LET ulen == (c.len + 1) * 2
           ma == InRegion(m, "malloc")
       IN  IF ~c.mallocOK THEN ThrowOOM(ma)
           ELSE LET m1 == GetCString([ma EXCEPT !.held = @ \cup {"heap"}],
                                     "heap", HeapSize(c.len), ulen, c.len, c.getOK)
                    m2 == IF Fits(c.len, ulen) /\ c.getOK
                          THEN NewArray(m1, c.newOK, c.len) ELSE m1
                IN  [m2 EXCEPT !.held = @ \ {"heap"}]

(* Mutation variant: ReleasePrimitiveArrayCritical moved to the end of   *)
(* the block, after the normalisation and the copy out.                    *)
normalizepathLateRelease(c) ==
  IF ~c.csOK THEN [ThrowOOM(M0) EXCEPT !.result = "null"]
  ELSE LET m0 == [M0 EXCEPT !.held = {"csref"}]
           read == AppendCharacters(GetArrayLength([m0 EXCEPT !.critical = TRUE]))
           m1 == IF ~c.critOK THEN [m0 EXCEPT !.exc = TRUE]
                 ELSE [CopyOut(Normalize(read), c) EXCEPT !.critical = FALSE]
           m2 == [m1 EXCEPT !.held = @ \ {"csref"}]
       IN  IF m2.result = "none" THEN [m2 EXCEPT !.result = "null"] ELSE m2

(* normalizepath: CFStringCreateMutable (NULL: throw and return), the    *)
(* critical region around GetArrayLength and CFStringAppendCharacters,   *)
(* CFStringNormalize, the copy out, CFRelease(csref).                     *)
normalizepath(c) ==
  IF ~c.csOK THEN [ThrowOOM(M0) EXCEPT !.result = "null"]
  ELSE LET m0 == [M0 EXCEPT !.held = {"csref"}]
           m1 == IF ~c.critOK THEN [m0 EXCEPT !.exc = TRUE]
                 ELSE LET open == [m0 EXCEPT !.critical = TRUE]
                          read == AppendCharacters(GetArrayLength(open))
                      IN  CopyOut(Normalize([read EXCEPT !.critical = FALSE]), c)
           m2 == [m1 EXCEPT !.held = @ \ {"csref"}]
       IN  IF m2.result = "none" THEN [m2 EXCEPT !.result = "null"] ELSE m2

-----------------------------------------------------------------------------
Choices ==
  [csOK : BOOLEAN, critOK : BOOLEAN, len : Lengths, getOK : BOOLEAN,
   mallocOK : BOOLEAN, newOK : BOOLEAN]

NoArg == [csOK |-> FALSE, critOK |-> FALSE, len |-> 0, getOK |-> FALSE,
          mallocOK |-> FALSE, newOK |-> FALSE]

Init == call = "none" /\ arg = NoArg /\ out = M0

Normalizepath ==
  /\ call = "none" /\ call' = "normalizepath"
  /\ \E c \in Choices : arg' = c /\ out' = normalizepath(c)

(* The Java caller takes the result and makes the next call. *)
Return == call # "none" /\ call' = "none" /\ arg' = NoArg /\ out' = M0

Next == Normalizepath \/ Return

Spec == Init /\ [][Next]_vars

-----------------------------------------------------------------------------
(* normalizepath returns holding nothing -- the CFMutableString released  *)
(* and the heap buffer freed on every path, the critical region closed    *)
(* -- and every UTF-16 copy it makes, into the stack buffer or the heap   *)
(* buffer, stays within the bytes that buffer has.                        *)
NormalizeReleasesInBounds ==
  call = "normalizepath" =>
    /\ out.held = {} /\ ~out.critical
    /\ \A w \in out.writes : w.bytes <= w.size

(* normalizepath makes no JNI call with an exception pending, and while  *)
(* the array is pinned by GetPrimitiveArrayCritical it only reads its     *)
(* length (GetArrayLength, which HotSpot's checked JNI allows there) and  *)
(* copies it into the CF string (CFStringAppendCharacters): no other JNI  *)
(* call, no normalisation, malloc or conversion runs before               *)
(* ReleasePrimitiveArrayCritical, on any path.                             *)
NormalizeJNIDiscipline ==
  call = "normalizepath" =>
    /\ out.faults = {}
    /\ out.critOps \subseteq {"GetArrayLength", "CFStringAppendCharacters"}
=============================================================================
