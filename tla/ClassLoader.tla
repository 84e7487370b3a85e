----------------------------- MODULE ClassLoader -----------------------------
(***************************************************************************)
(* The class-definition entry points of ClassLoader.c: defineClass0/1/2,   *)
(* findBootstrapClass and findLoadedClass0, and their helper getUTF.       *)
(*                                                                         *)
(* Each entry point is sequential code; what makes it hard is the number  *)
(* of ways a call can end.  Every malloc, every JNI call that can throw    *)
(* and every JVM call may fail, the name and source strings may be absent *)
(* or of any length around the size of the stack buffer getUTF prefers,   *)
(* and the cleanup runs through gotos.  One action is one whole call,     *)
(* for every tuple of outcomes of everything it calls.                    *)
(*                                                                         *)
(* The state of a call is a record m: the heap buffers it holds, the       *)
(* memory and JNI faults it committed, and whether a Java exception is     *)
(* pending.                                                                *)
(***************************************************************************)
EXTENDS Integers, FiniteSets

CONSTANTS
  NameBufSize,    \* sizeof(buf) of the name, 128
  SourceBufSize   \* sizeof(sourceBuf), 1024

None == -1        \* a NULL jstring

(* String lengths at the edges of both stack buffers. *)
Lengths == {None, 0, NameBufSize - 1, NameBufSize, SourceBufSize - 1,
            SourceBufSize}

VARIABLES
  call,   \* the entry point that returned last, or "none"
  out     \* its final state: [heap, faults, exc, result]

vars == <<call, out>>

M0 == [heap |-> {}, faults |-> {}, exc |-> FALSE, result |-> "null"]

-----------------------------------------------------------------------------
(* A JNI call other than the exception queries: a fault if an exception   *)
(* is pending.                                                             *)
JNI(m) == IF m.exc THEN [m EXCEPT !.faults = @ \cup {"jni_pending"}] ELSE m

(* JNU_Throw*: a JNI call itself, then the exception is pending. *)
Throw(m) == [JNI(m) EXCEPT !.exc = TRUE]

Malloc(m, b) == [m EXCEPT !.heap = @ \cup {b}]

(* free(p): p must be a live heap buffer. *)
Free(m, b) ==
  IF b \in m.heap THEN [m EXCEPT !.heap = @ \ {b}]
  ELSE [m EXCEPT !.faults = @ \cup {"bad_free"}]

(* if (p && p != stackbuf) free(p) *)
FreeIfHeap(m, b, where) == IF where = "heap" THEN Free(m, b) ELSE m

(* Mutation variant: the stack-buffer test done with > instead of >=. *)
getUTFOffByOne(m, len, b, bufSize, ok) ==
  LET m1 == JNI(JNI(m))
  IN  IF len > bufSize
      THEN IF ok THEN [m |-> JNI(Malloc(m1, b)), where |-> "heap"]
           ELSE [m |-> Throw(m1), where |-> "null"]
      ELSE [m |-> [JNI(m1) EXCEPT !.faults = IF len + 1 > bufSize
                                             THEN @ \cup {"overflow"} ELSE @],
            where |-> "stack"]

(* Mutation variant: a failed malloc returns NULL without throwing. *)
getUTFNoThrow(m, len, b, bufSize, ok) ==
  LET m1 == JNI(JNI(m))
  IN  IF len >= bufSize
      THEN IF ok THEN [m |-> JNI(Malloc(m1, b)), where |-> "heap"]
           ELSE [m |-> m1, where |-> "null"]
      ELSE [m |-> [JNI(m1) EXCEPT !.faults = IF len + 1 > bufSize
                                             THEN @ \cup {"overflow"} ELSE @],
            where |-> "stack"]

(* getUTF(env, str, localBuf, bufSize): the UTF length and the length are *)
(* read, a buffer of len+1 bytes is taken from the heap when len >=        *)
(* bufSize (OutOfMemoryError and NULL when malloc fails), else the stack   *)
(* buffer is used, and GetStringUTFRegion writes len bytes and a NUL.      *)
getUTF(m, len, b, bufSize, ok) ==
  LET m1 == JNI(JNI(m))
  IN  IF len >= bufSize
      THEN IF ok THEN [m |-> JNI(Malloc(m1, b)), where |-> "heap"]
           ELSE [m |-> Throw(m1), where |-> "null"]
      ELSE [m |-> [JNI(m1) EXCEPT !.faults = IF len + 1 > bufSize
                                             THEN @ \cup {"overflow"} ELSE @],
            where |-> "stack"]

(* A string argument: absent (NULL), or converted by getUTF. *)
UTF(m, len, b, bufSize, ok) ==
  IF len = None THEN [m |-> m, where |-> "none"]
  ELSE getUTF(m, len, b, bufSize, ok)

(* A JVM_* call that defines or finds a class: a class, or NULL with an   *)
(* exception pending (ClassFormatError, LinkageError, ...).               *)
JVMDefine(m, ok) ==
  IF ok THEN [JNI(m) EXCEPT !.result = "class"] ELSE Throw(m)

-----------------------------------------------------------------------------
(* The outcomes of everything an entry point calls. *)
Choices ==
  [data : BOOLEAN,      \* the byte array / direct buffer is non-NULL
   negLength : BOOLEAN, \* length < 0
   bodyOK : BOOLEAN,    \* malloc(length) succeeds
   regionOK : BOOLEAN,  \* GetByteArrayRegion raises no exception
   name : Lengths,      \* the name string: NULL or its UTF length
   nameOK : BOOLEAN,    \* getUTF's malloc for the name succeeds
   source : Lengths,    \* the source string
   sourceOK : BOOLEAN,  \* getUTF's malloc for the source succeeds
   jvmOK : BOOLEAN]     \* the JVM call defines (or finds) the class

(* defineClass1: copy the bytes into a malloc'ed body, convert name and   *)
(* source, define, then free_utfName / free_body.                          *)
defineClass1(c) ==
  IF ~c.data \/ c.negLength \/ ~c.bodyOK THEN Throw(M0)
  ELSE LET m2 == IF c.regionOK THEN JNI(Malloc(M0, "body"))
                 ELSE Throw(Malloc(M0, "body"))
       IN  IF m2.exc THEN Free(m2, "body")
           ELSE LET n == UTF(m2, c.name, "name", NameBufSize, c.nameOK)
                IN  IF n.where = "null" THEN Free(n.m, "body")
                    ELSE LET s == UTF(n.m, c.source, "source", SourceBufSize,
                                      c.sourceOK)
                         IN  IF s.where = "null"
                             THEN Free(FreeIfHeap(s.m, "name", n.where), "body")
                             ELSE Free(FreeIfHeap(FreeIfHeap(
                                         JVMDefine(s.m, c.jvmOK),
                                         "source", s.where), "name", n.where),
                                       "body")

(* defineClass2: the body is the direct buffer's address (NULL throws);  *)
(* a failed getUTF is answered with another OutOfMemoryError.              *)
defineClass2(c) ==
  LET m1 == JNI(M0)
  IN  IF ~c.data THEN Throw(m1)
      ELSE LET n == UTF(m1, c.name, "name", NameBufSize, c.nameOK)
           IN  IF n.where = "null" THEN Throw(n.m)
               ELSE LET s == UTF(n.m, c.source, "source", SourceBufSize, c.sourceOK)
                    IN  IF s.where = "null"
                        THEN FreeIfHeap(Throw(s.m), "name", n.where)
                        ELSE FreeIfHeap(FreeIfHeap(JVMDefine(s.m, c.jvmOK),
                                                   "source", s.where),
                                        "name", n.where)

(* Mutation variant: free(utfName) after the JVM call dropped. *)
defineClass0KeepName(c) ==
  IF ~c.data \/ c.negLength \/ ~c.bodyOK THEN Throw(M0)
  ELSE LET m2 == IF c.regionOK THEN JNI(Malloc(M0, "body"))
                 ELSE Throw(Malloc(M0, "body"))
       IN  IF m2.exc THEN Free(m2, "body")
           ELSE LET n == UTF(m2, c.name, "name", NameBufSize, c.nameOK)
                IN  IF n.where = "null" THEN Free(n.m, "body")
                    ELSE Free(JVMDefine(n.m, c.jvmOK), "body")

(* defineClass0: as defineClass1 without a source string, through         *)
(* JVM_LookupDefineClass.                                                  *)
defineClass0(c) ==
  IF ~c.data \/ c.negLength \/ ~c.bodyOK THEN Throw(M0)
  ELSE LET m2 == IF c.regionOK THEN JNI(Malloc(M0, "body"))
                 ELSE Throw(Malloc(M0, "body"))
       IN  IF m2.exc THEN Free(m2, "body")
           ELSE LET n == UTF(m2, c.name, "name", NameBufSize, c.nameOK)
                IN  IF n.where = "null" THEN Free(n.m, "body")
                    ELSE Free(FreeIfHeap(JVMDefine(n.m, c.jvmOK), "name", n.where),
                              "body")

(* findBootstrapClass: NULL for a NULL name; a failed getUTF is answered  *)
(* with another OutOfMemoryError; an invalid name (verifyClassname, the    *)
(* choice regionOK here) skips the lookup; the boot loader returns the     *)
(* class or NULL without an exception.                                     *)
findBootstrapClass(c) ==
  IF c.name = None THEN M0
  ELSE LET n == getUTF(M0, c.name, "name", NameBufSize, c.nameOK)
       IN  IF n.where = "null" THEN Throw(n.m)
           ELSE FreeIfHeap(IF c.regionOK
                           THEN [JNI(n.m) EXCEPT !.result =
                                   IF c.jvmOK THEN "class" ELSE "null"]
                           ELSE n.m,
                           "name", n.where)

(* findLoadedClass0: NULL for a NULL name, else JVM_FindLoadedClass. *)
findLoadedClass0(c) ==
  IF c.name = None THEN M0
  ELSE [JNI(M0) EXCEPT !.result = IF c.jvmOK THEN "class" ELSE "null"]

-----------------------------------------------------------------------------
Init == call = "none" /\ out = M0

DefineClass0 == call = "none" /\ call' = "defineClass0"
                /\ \E c \in Choices : out' = defineClass0(c)
DefineClass1 == call = "none" /\ call' = "defineClass1"
                /\ \E c \in Choices : out' = defineClass1(c)
DefineClass2 == call = "none" /\ call' = "defineClass2"
                /\ \E c \in Choices : out' = defineClass2(c)
FindBootstrapClass == call = "none" /\ call' = "findBootstrapClass"
                      /\ \E c \in Choices : out' = findBootstrapClass(c)
FindLoadedClass0 == call = "none" /\ call' = "findLoadedClass0"
                    /\ \E c \in Choices : out' = findLoadedClass0(c)

(* The Java caller takes the result and makes the next call. *)
Return == call # "none" /\ call' = "none" /\ out' = M0

Next == DefineClass0 \/ DefineClass1 \/ DefineClass2 \/ FindBootstrapClass
          \/ FindLoadedClass0 \/ Return

Spec == Init /\ [][Next]_vars

-----------------------------------------------------------------------------
(* Every way out of every entry point -- a failed malloc, an exception     *)
(* from GetByteArrayRegion, a failed getUTF for the name or the source, a  *)
(* failed definition -- frees every heap buffer it took: the gotos to      *)
(* free_utfName and free_body land where the buffers held so far are       *)
(* released.                                                               *)
NoLeak == out.heap = {}

(* No entry point frees a stack buffer or a buffer twice, and getUTF never *)
(* writes a string and its NUL past the end of the stack buffer it chose:  *)
(* the len >= bufSize test and the p != buf tests agree.                   *)
MemorySafe == out.faults \cap {"bad_free", "overflow"} = {}

(* The defineClass entry points return NULL exactly when an exception is   *)
(* pending, as the Java callers assume: no path returns NULL silently or a *)
(* class with an exception pending.                                        *)
NullIffException ==
  call \in {"defineClass0", "defineClass1", "defineClass2"} =>
    (out.result = "null" <=> out.exc)

(* No entry point makes a JNI call other than the exception queries while *)
(* an exception is pending (the JNI specification's rule).                 *)
NoJNICallWithPending == "jni_pending" \notin out.faults
=============================================================================
