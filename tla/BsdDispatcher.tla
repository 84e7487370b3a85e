---------------------------- MODULE BsdDispatcher ----------------------------
(***************************************************************************)
(* The single-call entry points of BsdNativeDispatcher.c: getmntonname0,  *)
(* clonefile0, setattrlist0 and fsetattrlist0 with their helper           *)
(* initattrlist.  (The mount-table iterator is module FsStat.)            *)
(*                                                                         *)
(* Each entry point is sequential; one action is one whole call and its   *)
(* argument is the outcome of every system call and JNI allocation it     *)
(* makes.  The state of a call is a record: the faults it committed, a    *)
(* pending Java exception, its result, and for the attribute calls the    *)
(* attribute buffer handed to setattrlist(2).                             *)
(***************************************************************************)
EXTENDS Integers, Sequences, FiniteSets

CONSTANTS
  Times,     \* the jlong times (ns since the epoch) a caller may pass
  AttrSize   \* ((sizeof(struct timespec) + 3)/4)*4, 16 on macOS

(* The common attributes initattrlist knows, in getattrlist(2) order. *)
ATTR_CMN_CRTIME  == "crtime"
ATTR_CMN_MODTIME == "modtime"
ATTR_CMN_ACCTIME == "acctime"
AttrOrder == <<ATTR_CMN_CRTIME, ATTR_CMN_MODTIME, ATTR_CMN_ACCTIME>>

Billion == 1000000000

VARIABLES
  call,   \* the entry point that returned last, or "none"
  arg,    \* its inputs and the outcomes of its callees
  out     \* [faults, exc, result, buf, size, common]

vars == <<call, arg, out>>

M0 == [faults |-> {}, exc |-> FALSE, result |-> "none",
       buf |-> <<>>, size |-> 0, common |-> {}]

(* A JNI call other than the exception queries: a fault if an exception   *)
(* is pending.                                                             *)
JNI(m) == IF m.exc THEN [m EXCEPT !.faults = @ \cup {"jni_pending"}] ELSE m

(* throwUnixException: a JNI call, then the exception is pending. *)
Throw(m) == [JNI(m) EXCEPT !.exc = TRUE]

-----------------------------------------------------------------------------
(* C's / and % on a jlong: the quotient truncated toward zero and the     *)
(* remainder with the sign of the dividend.                                *)
CDiv(a, b) == IF a >= 0 THEN a \div b ELSE -((-a) \div b)
CMod(a, b) == a - CDiv(a, b) * b

Timespec(t) == [sec |-> CDiv(t, Billion), nsec |-> CMod(t, Billion)]

(* One block of initattrlist: a struct timespec {t / 1e9, t % 1e9} at    *)
(* byte offset off of buf, then count++.  st is [count, writes], writes   *)
(* the timespecs in the order they are written.                            *)
WriteTimespec(st, attr, off, t) ==
  [count |-> st.count + 1,
   writes |-> Append(st.writes, [off |-> off, attr |-> attr, ts |-> Timespec(t)])]

(* Mutation variant: the access time written at a fixed buf + 2*attrsize, *)
(* as if all three attributes were always present.                         *)
initattrlistFixedAcc(common, modTime, accTime, createTime) ==
  LET s0 == [count |-> 0, writes |-> <<>>]
      s1 == IF ATTR_CMN_CRTIME \in common
            THEN WriteTimespec(s0, ATTR_CMN_CRTIME, 0, createTime) ELSE s0
      s2 == IF ATTR_CMN_MODTIME \in common
            THEN WriteTimespec(s1, ATTR_CMN_MODTIME, s1.count * AttrSize, modTime) ELSE s1
      s3 == IF ATTR_CMN_ACCTIME \in common
            THEN WriteTimespec(s2, ATTR_CMN_ACCTIME, 2 * AttrSize, accTime) ELSE s2
  IN  [buf |-> s3.writes, size |-> s3.count * AttrSize, common |-> common]

(* initattrlist: count = 0; the creation time at buf, the modification   *)
(* time and the access time at buf + count*attrsize, each when its bit is *)
(* set in commonattr and each followed by count++; the attrlist gets the  *)
(* bitmap (common); the size returned is count*attrsize.                   *)
initattrlist(common, modTime, accTime, createTime) ==
  LET s0 == [count |-> 0, writes |-> <<>>]
      s1 == IF ATTR_CMN_CRTIME \in common
            THEN WriteTimespec(s0, ATTR_CMN_CRTIME, 0, createTime) ELSE s0
      s2 == IF ATTR_CMN_MODTIME \in common
            THEN WriteTimespec(s1, ATTR_CMN_MODTIME, s1.count * AttrSize, modTime) ELSE s1
      s3 == IF ATTR_CMN_ACCTIME \in common
            THEN WriteTimespec(s2, ATTR_CMN_ACCTIME, s2.count * AttrSize, accTime) ELSE s2
  IN  [buf |-> s3.writes, size |-> s3.count * AttrSize, common |-> common]

-----------------------------------------------------------------------------
(* The inputs of a call and the outcomes of what it calls. *)
Choices ==
  [sysOK : BOOLEAN,     \* statfs / clonefile / (f)setattrlist returns 0
   newOK : BOOLEAN,     \* NewByteArray returns an array
   common : SUBSET {ATTR_CMN_CRTIME, ATTR_CMN_MODTIME, ATTR_CMN_ACCTIME},
   modTime : Times, accTime : Times, createTime : Times]

NoArg == [sysOK |-> FALSE, newOK |-> FALSE, common |-> {},
          modTime |-> 0, accTime |-> 0, createTime |-> 0]

(* getmntonname0: statfs(path, &buf); on failure throwUnixException --    *)
(* and then, without returning, strlen(buf.f_mntonname) and NewByteArray  *)
(* on the uninitialised stack buffer, with the exception pending.         *)
getmntonname0(c) ==
  LET m1 == IF c.sysOK THEN M0
            ELSE [Throw(M0) EXCEPT !.faults = @ \cup {"uninit_read"}]
      m2 == JNI(m1)
  IN  IF c.newOK THEN [JNI(m2) EXCEPT !.result = "array"]
      ELSE [m2 EXCEPT !.exc = TRUE, !.result = "null"]

(* clonefile0: clonefile(src, dst, flags); on failure throw and return   *)
(* its -1 ("ret"), else 0 ("zero").                                        *)
clonefile0(c) ==
  IF c.sysOK THEN [M0 EXCEPT !.result = "zero"]
  ELSE [Throw(M0) EXCEPT !.result = "ret"]

(* setattrlist0 / fsetattrlist0: build the attribute buffer, call the     *)
(* system call, throw on failure.                                          *)
setattrlist0(c) ==
  LET a == initattrlist(c.common, c.modTime, c.accTime, c.createTime)
      m == [M0 EXCEPT !.buf = a.buf, !.size = a.size, !.common = a.common]
  IN  IF c.sysOK THEN m ELSE Throw(m)

-----------------------------------------------------------------------------
Init == call = "none" /\ arg = NoArg /\ out = M0

Getmntonname0 ==
  /\ call = "none" /\ call' = "getmntonname0"
  /\ \E ok, new \in BOOLEAN :
       LET c == [NoArg EXCEPT !.sysOK = ok, !.newOK = new]
       IN  arg' = c /\ out' = getmntonname0(c)

Clonefile0 ==
  /\ call = "none" /\ call' = "clonefile0"
  /\ \E ok \in BOOLEAN :
       LET c == [NoArg EXCEPT !.sysOK = ok]
       IN  arg' = c /\ out' = clonefile0(c)

Setattrlist0 ==
  /\ call = "none" /\ call' = "setattrlist0"
  /\ \E c \in Choices : c.newOK = FALSE /\ arg' = c /\ out' = setattrlist0(c)

Fsetattrlist0 ==
  /\ call = "none" /\ call' = "fsetattrlist0"
  /\ \E c \in Choices : c.newOK = FALSE /\ arg' = c /\ out' = setattrlist0(c)

(* The Java caller takes the result and makes the next call. *)
Return == call # "none" /\ call' = "none" /\ arg' = NoArg /\ out' = M0

Next == Getmntonname0 \/ Clonefile0 \/ Setattrlist0 \/ Fsetattrlist0 \/ Return

Spec == Init /\ [][Next]_vars

-----------------------------------------------------------------------------
(* The times a call asked for, in the order getattrlist(2) lays them out. *)
Requested(c) ==
  LET time(a) == CASE a = ATTR_CMN_CRTIME  -> c.createTime
                   [] a = ATTR_CMN_MODTIME -> c.modTime
                   [] OTHER                -> c.accTime
      sel == SelectSeq(AttrOrder, LAMBDA a : a \in c.common)
  IN  [k \in 1..Len(sel) |-> time(sel[k])]

(* setattrlist0 and fsetattrlist0 hand the system call what getattrlist  *)
(* (2) expects: the requested attributes packed from offset 0 in the      *)
(* order crtime, modtime, acctime whatever subset was asked for -- the    *)
(* k-th at (k-1)*attrsize, each with the time given for it -- every write *)
(* inside the 3*attrsize bytes of the stack buffer, and a size that ends  *)
(* at the last of them.                                                    *)
AttrBufferPacked ==
  call \in {"setattrlist0", "fsetattrlist0"} =>
    LET sel == SelectSeq(AttrOrder, LAMBDA a : a \in arg.common)
        want == Requested(arg)
    IN  /\ out.common = arg.common
        /\ out.size = Len(sel) * AttrSize
        /\ Len(out.buf) = Len(sel)
        /\ \A i \in 1..Len(out.buf) : out.buf[i].off + AttrSize <= 3 * AttrSize
        /\ \A k \in 1..Len(sel) :
             \E i \in 1..Len(out.buf) :
               /\ out.buf[i].off = (k - 1) * AttrSize /\ out.buf[i].attr = sel[k]
               /\ out.buf[i].ts.sec * Billion + out.buf[i].ts.nsec = want[k]

(* Every struct timespec initattrlist writes is normalised, 0 <= tv_nsec  *)
(* < 1e9 as setattrlist(2) and POSIX require of a timespec, for every     *)
(* time Java can pass -- including times before 1970.                      *)
TimespecNormalised ==
  call \in {"setattrlist0", "fsetattrlist0"} =>
    \A k \in 1..Len(out.buf) : out.buf[k].ts.nsec \in 0..(Billion - 1)

(* getmntonname0 reads buf.f_mntonname only after statfs filled it, and  *)
(* makes no JNI call with an exception pending.                            *)
MntonnameFromStatfs == out.faults = {}
=============================================================================
