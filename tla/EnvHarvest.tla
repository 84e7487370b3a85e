----------------------------- MODULE EnvHarvest -----------------------------
(***************************************************************************)
(* Java_java_lang_ProcessEnvironment_environ (ProcessEnvironment_md.c):   *)
(* the native half of System.getenv(), which copies the C environment     *)
(* into a Java array {var0, val0, var1, val1, ...}.                        *)
(*                                                                         *)
(* The function walks environ twice: a first pass counts the entries that *)
(* contain '=' and sizes the array, a second pass splits each such entry  *)
(* at its first '=' and stores the two byte arrays at 2j and 2j+1.        *)
(* environ is process-global and read without a lock; another thread may  *)
(* setenv or unsetenv in between (when Race is TRUE).  Each step below is *)
(* one iteration of a loop, so a change can fall between any two.         *)
(*                                                                         *)
(* An entry of environ is a string over {"a", "="}; every allocation may  *)
(* fail, and a failed one returns NULL with the exception pending.        *)
(***************************************************************************)
EXTENDS Integers, Sequences, SequencesExt

CONSTANTS
  Strings,      \* the strings an entry of environ can be
  MaxEnv,       \* bound on the number of entries of environ
  Race          \* whether they may run while environ() is running

ASSUME Strings \subseteq Seq({"a", "="}) /\ MaxEnv \in Nat /\ Race \in BOOLEAN

NullRef == [kind |-> "null"]
Bytes(s) == [kind |-> "bytes", bytes |-> s]

VARIABLES
  environ,  \* the C environment, in order
  pc,       \* "idle", "count", "alloc", "fill" or "done"
  i, j,     \* the loop indices of the function
  count,    \* the number of entries with '=' the first pass counted
  result,   \* the object array: NullRef, or a function 0..2count-1 -> slot
  exc,      \* a Java exception is pending
  faults    \* "jni_pending": a JNI call made with an exception pending

vars == <<environ, pc, i, j, count, result, exc, faults>>

Idle == {"idle", "done"}

(* A JNI call other than the exception queries. *)
JNI(f, e) == IF e THEN f \cup {"jni_pending"} ELSE f

(* Mutation variant: strrchr, the last '='. *)
StrrchrEq(s) ==
  IF "=" \in ToSet(s) THEN Len(s) + 1 - SelectInSeq(Reverse(s), LAMBDA c : c = "=")
  ELSE 0

(* strchr(s, '='): the index of the first '=', or 0 for NULL. *)
Strchr(s) == IF "=" \in ToSet(s) THEN SelectInSeq(s, LAMBDA c : c = "=") ELSE 0

(* The variable name and the value of an entry: the bytes before varEnd  *)
(* and the bytes after it up to the NUL.                                   *)
VarOf(s) == SubSeq(s, 1, Strchr(s) - 1)
ValOf(s) == SubSeq(s, Strchr(s) + 1, Len(s))

-----------------------------------------------------------------------------
Init ==
  /\ environ \in BoundedSeq(Strings, MaxEnv)
  /\ pc = "idle" /\ i = 0 /\ j = 0 /\ count = 0
  /\ result = NullRef /\ exc = FALSE /\ faults = {}

(* Another thread calls setenv or unsetenv: an entry is added, removed or *)
(* replaced -- between two calls of environ(), or, with Race, at any      *)
(* point of one (a change after it returned is not its concern, so none   *)
(* is made while its result is being taken).                              *)
Setenv ==
  /\ pc # "done" /\ (Race \/ pc = "idle")
  /\ \/ /\ Len(environ) < MaxEnv
        /\ \E s \in Strings : environ' = Append(environ, s)
     \/ \E k \in 1..Len(environ) : environ' = RemoveAt(environ, k)
     \/ \E k \in 1..Len(environ), s \in Strings : environ' = [environ EXCEPT ![k] = s]
  /\ UNCHANGED <<pc, i, j, count, result, exc, faults>>

(* FindClass("[B"); CHECK_NULL_RETURN: NULL with the exception pending.   *)
Start ==
  /\ pc = "idle"
  /\ \/ pc' = "count" /\ UNCHANGED exc
     \/ pc' = "done" /\ exc' = TRUE
  /\ i' = 0 /\ count' = 0
  /\ UNCHANGED <<environ, j, result, faults>>

(* Mutation variant: a corrupted entry is skipped without i++, as a      *)
(* while loop with "continue" before the increment would.                 *)
CountStepSkipStalls ==
  /\ pc = "count"
  /\ IF i < Len(environ)
     THEN /\ Strchr(environ[i + 1]) # 0
          /\ count' = count + 1 /\ i' = i + 1
          /\ UNCHANGED pc
     ELSE /\ pc' = "alloc"
          /\ UNCHANGED <<i, count>>
  /\ UNCHANGED <<environ, j, result, exc, faults>>

(* One iteration of for (i = 0; environ[i]; i++): count the entries with *)
(* '=' (corrupted ones are ignored).                                       *)
CountStep ==
  /\ pc = "count"
  /\ IF i < Len(environ)
     THEN /\ count' = IF Strchr(environ[i + 1]) # 0 THEN count + 1 ELSE count
          /\ i' = i + 1
          /\ UNCHANGED pc
     ELSE /\ pc' = "alloc"
          /\ UNCHANGED <<i, count>>
  /\ UNCHANGED <<environ, j, result, exc, faults>>

(* NewObjectArray(2*count); CHECK_NULL_RETURN. *)
Alloc ==
  /\ pc = "alloc"
  /\ \/ /\ pc' = "fill"
        /\ result' = [k \in 0..(2 * count - 1) |-> NullRef]
        /\ i' = 0 /\ j' = 0
        /\ UNCHANGED exc
     \/ /\ pc' = "done" /\ exc' = TRUE
        /\ UNCHANGED <<result, i, j>>
  /\ UNCHANGED <<environ, count, faults>>

(* SetObjectArrayElement(result, k, v): out of bounds it stores nothing   *)
(* and throws ArrayIndexOutOfBoundsException.                              *)
Store(r, k, v) == IF k \in DOMAIN r THEN [r EXCEPT ![k] = v] ELSE r
InBounds(r, k) == k \in DOMAIN r

(* One iteration of the second pass.  For an entry with '=': two          *)
(* NewByteArray (CHECK_NULL_RETURN on each), two SetByteArrayRegion, the *)
(* stores at 2j and 2j+1, two DeleteLocalRef, j++, made whether or not a  *)
(* store threw.  All but DeleteLocalRef are JNI calls that must not run   *)
(* with an exception pending.                                              *)
FillStep ==
  /\ pc = "fill"
  /\ IF i >= Len(environ)
     THEN pc' = "done" /\ UNCHANGED <<i, j, result, exc, faults>>
     ELSE LET s == environ[i + 1]
          IN  IF Strchr(s) = 0
              THEN i' = i + 1 /\ UNCHANGED <<pc, j, result, exc, faults>>
              ELSE \E okVar, okVal \in BOOLEAN :
                     IF ~okVar \/ ~okVal
                     THEN /\ pc' = "done" /\ result' = NullRef /\ exc' = TRUE
                          /\ faults' = JNI(faults, exc)
                          /\ UNCHANGED <<i, j>>
                     ELSE LET e1 == exc \/ ~InBounds(result, 2 * j)
                              e2 == e1 \/ ~InBounds(result, 2 * j + 1)
                          IN  /\ UNCHANGED pc
                              /\ result' = Store(Store(result, 2 * j, Bytes(VarOf(s))),
                                                 2 * j + 1, Bytes(ValOf(s)))
                              /\ exc' = e2
                              /\ faults' = IF exc \/ e1 THEN faults \cup {"jni_pending"}
                                           ELSE faults
                              /\ i' = i + 1 /\ j' = j + 1
  /\ UNCHANGED <<environ, count>>

(* The Java caller takes the array; the next call starts afresh. *)
Return ==
  /\ pc = "done"
  /\ pc' = "idle" /\ i' = 0 /\ j' = 0 /\ count' = 0
  /\ result' = NullRef /\ exc' = FALSE /\ faults' = {}
  /\ UNCHANGED environ

(* The steps environ() takes once it is running: both loops and the     *)
(* allocation between them.  None of them blocks.                          *)
Work == CountStep \/ Alloc \/ FillStep

Harvest == Start \/ Work \/ Return

Next == Harvest \/ Setenv

Spec == Init /\ [][Next]_vars

-----------------------------------------------------------------------------
(* The array System.getenv() expects for an environment: for each entry  *)
(* with '=', in order, its name and its value split at the first '='.     *)
Expected(env) ==
  LET eq(s) == CHOOSE k \in 1..Len(s) : s[k] = "=" /\ "=" \notin ToSet(SubSeq(s, 1, k - 1))
      sel == SelectSeq(env, LAMBDA s : "=" \in ToSet(s))
      flat == FlattenSeq([k \in 1..Len(sel) |->
                <<Bytes(SubSeq(sel[k], 1, eq(sel[k]) - 1)),
                  Bytes(SubSeq(sel[k], eq(sel[k]) + 1, Len(sel[k])))>>])
  IN  [k \in 0..(Len(flat) - 1) |-> flat[k + 1]]

(* environ() returns either NULL with an exception pending, or, with no   *)
(* exception pending, exactly the name/value pairs of the environment:    *)
(* every slot filled, each entry split at its first '=', corrupted        *)
(* entries skipped -- and it makes no JNI call with an exception pending. *)
EnvArrayExact ==
  pc = "done" =>
    /\ faults = {}
    /\ result = NullRef => exc
    /\ result # NullRef => ~exc /\ result = Expected(environ)

(* Once environ() is past FindClass it returns: every iteration of either *)
(* loop advances i, a skipped entry without '=' included, so neither loop *)
(* can spin on one entry while the thread keeps running.                  *)
EnvironReturns == pc \in {"count", "alloc", "fill"} ~> pc = "done"
=============================================================================
