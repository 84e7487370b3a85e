---------------------------- MODULE ProxySelector ----------------------------
(***************************************************************************)
(* DefaultProxySelector.c on macOS: getSystemProxies asks CFNetwork for   *)
(* the proxies of a URL, expands every PAC (proxy auto-configuration)      *)
(* entry by running its script on the thread's run loop for at most 5 s    *)
(* (createExpandedProxiesArray, with proxyUrlCallback as the completion    *)
(* callback), and converts the expanded list into a Java Proxy[].          *)
(*                                                                         *)
(* The listing thread is one control flow with a wait inside              *)
(* CFRunLoopRunInMode: there the completion callback and the timeout race. *)
(* Every CF Create/Copy call and every JNI call may fail.  The model keeps *)
(* the CF objects the call owns (the Create rule) and the pending Java     *)
(* exception, so that a leak, an over-release and a JNI call made with an  *)
(* exception pending are all visible.                                      *)
(***************************************************************************)
EXTENDS Integers, Sequences, SequencesExt, FiniteSets

CONSTANTS
  Inputs   \* the proxy lists CFNetworkCopyProxiesForURL may return

(* The kinds of entry the conversion loop tells apart: kCFProxyTypeNone,  *)
(* an HTTP or SOCKS proxy with port and host, and one missing its port.   *)
(* A list entry is a record: one of these, a PAC entry (type "pac") with  *)
(* the list its script answers, or a dictionary with no kCFProxyTypeKey   *)
(* (type "bad").                                                          *)
Plain == {"none", "http", "socks", "noport"}

VARIABLES
  pc,         \* control point of getSystemProxies
  proxies,    \* urlProxyArrayRef, the list CFNetworkCopyProxiesForURL returned
  idx,        \* index + 1 in the loop of createExpandedProxiesArray
  expanded,   \* expandedProxiesArray: a sequence of Plain
  cbResult,   \* what proxyUrlCallback stored: NULL, an error or a list
  pacOut,     \* how each PAC entry ended: "answer", "error", "timeout", "nosource"
  owned,      \* the CF objects this call must still release
  exc,        \* a Java exception is pending
  faults,     \* misuses committed: "jni_pending", "over_release"
  result      \* the Proxy[] returned: NULL or an array of Plain

vars == <<pc, proxies, idx, expanded, cbResult, pacOut, owned, exc, faults,
          result>>

-----------------------------------------------------------------------------
(* A CFTypeRef or jobjectArray result: NULL, a CFError, or an array.      *)
NullRef     == [kind |-> "null", items |-> <<>>]
ErrorRef    == [kind |-> "error", items |-> <<>>]
ArrayRef(s) == [kind |-> "array", items |-> s]

(* Create the CF objects C, then CFRelease the objects R: each released   *)
(* object must be owned at that point.                                    *)
(* F are the further misuses the step commits.                          *)
CFCall(C, R, F) ==
  /\ owned' = (owned \cup C) \ R
  /\ faults' = faults \cup F \cup
               (IF R \subseteq owned \cup C THEN {} ELSE {"over_release"})

CreateRelease(C, R) == CFCall(C, R, {})

Release(R) == CreateRelease({}, R)

Init ==
  /\ pc = "idle" /\ proxies = <<>> /\ idx = 1 /\ expanded = <<>>
  /\ cbResult = NullRef /\ pacOut = <<>> /\ owned = {} /\ exc = FALSE
  /\ faults = {} /\ result = NullRef

(* getSystemProxies up to the expansion loop (lines 153-207, with lines   *)
(* 55-64 of createExpandedProxiesArray).  Either GetStringUTFChars fails   *)
(* with an OutOfMemoryError pending; a failed malloc or                    *)
(* CFURLCreateWithBytes just leaves urlRef NULL.  Every failure releases   *)
(* what was created and returns NULL.                                      *)
GetSystemProxies ==
  /\ pc = "idle"
  /\ \E dictOK, protoOK, hostOK, uriOK, urlOK, listOK, arrOK \in BOOLEAN,
        l \in Inputs :
       LET url  == protoOK /\ hostOK /\ uriOK /\ urlOK
           list == dictOK /\ url /\ listOK
       IN /\ exc' = (dictOK /\ ~(protoOK /\ hostOK))
          /\ CASE ~dictOK -> CreateRelease({}, {})
               [] ~url     -> CreateRelease({"dict"}, {"dict"})
               [] ~list    -> CreateRelease({"dict", "url"}, {"url", "dict"})
               [] ~arrOK   -> CreateRelease({"dict", "url", "list"},
                                            {"list", "url", "dict"})
               [] OTHER    -> CreateRelease({"dict", "url", "list", "expanded"}, {})
          /\ pc' = IF list /\ arrOK THEN "expand" ELSE "done"
          /\ proxies' = IF list /\ arrOK THEN l ELSE <<>>
  /\ UNCHANGED <<idx, expanded, cbResult, pacOut, result>>

(* A mutant: every typed entry is copied, the PAC test of line 80 lost.  *)
ExpandEntryNoPacTest ==
  /\ pc = "expand" /\ idx <= Len(proxies)
  /\ LET e == proxies[idx] IN
     IF e.type = "bad"
     THEN /\ Release({"expanded", "list", "url", "dict"})
          /\ pc' = "done"
          /\ UNCHANGED <<idx, expanded, pacOut>>
     ELSE /\ expanded' = Append(expanded, e.type) /\ idx' = idx + 1
          /\ UNCHANGED <<pc, pacOut, owned, faults>>
  /\ UNCHANGED <<proxies, cbResult, exc, result>>

(* One iteration of createExpandedProxiesArray's loop, up to the run loop *)
(* (lines 65-101).  A dictionary without a type releases the expanded     *)
(* array and returns NULL, which getSystemProxies answers by releasing    *)
(* the list, the URL and the settings (lines 199-204).  A non-PAC entry   *)
(* is appended.  A PAC entry starts its script; a NULL run-loop source    *)
(* skips it, a source is added and the run loop runs.                     *)
ExpandEntry ==
  /\ pc = "expand" /\ idx <= Len(proxies)
  /\ LET e == proxies[idx] IN
     CASE e.type = "bad" ->
            /\ Release({"expanded", "list", "url", "dict"})
            /\ pc' = "done"
            /\ UNCHANGED <<idx, expanded, pacOut>>
       [] e.type \in Plain ->
            /\ expanded' = Append(expanded, e.type) /\ idx' = idx + 1
            /\ UNCHANGED <<pc, pacOut, owned, faults>>
       [] OTHER ->
            \E srcOK \in BOOLEAN :
              IF srcOK
              THEN /\ CreateRelease({"runloop"}, {}) /\ pc' = "runloop"
                   /\ UNCHANGED <<idx, expanded, pacOut>>
              ELSE /\ pacOut' = pacOut @@ (idx :> "nosource") /\ idx' = idx + 1
                   /\ UNCHANGED <<pc, expanded, owned, faults>>
  /\ UNCHANGED <<proxies, cbResult, exc, result>>

(* proxyUrlCallback (lines 35-45): the PAC script finished while the run  *)
(* loop runs.  It retains the error or the answer into result and stops   *)
(* the run loop.  It fires at most once per script.                        *)
ProxyUrlCallback ==
  /\ pc = "runloop" /\ cbResult = NullRef
  /\ \E r \in {ErrorRef, ArrayRef(proxies[idx].answer)} :
       /\ cbResult' = r
       /\ CreateRelease({"result"}, {})
  /\ UNCHANGED <<pc, proxies, idx, expanded, pacOut, exc, result>>

(* A mutant: CFArrayAppendArray given CFRangeMake(0, count - 1).       *)
AppendAnswerShort(a) == SubSeq(a, 1, Len(a) - 1)

(* CFArrayAppendArray of the whole PAC answer (lines 115-116). *)
AppendAnswer(a) == a

(* A mutant: the run loop is run with no timeout.                        *)
RunLoopReturnNoTimeout ==
  /\ pc = "runloop" /\ cbResult # NullRef
  /\ expanded' = IF cbResult.kind = "array"
                 THEN expanded \o AppendAnswer(cbResult.items) ELSE expanded
  /\ Release(IF cbResult = NullRef THEN {"runloop"} ELSE {"result", "runloop"})
  /\ pacOut' = pacOut @@ (idx :> IF cbResult = ErrorRef THEN "error" ELSE "answer")
  /\ cbResult' = NullRef /\ idx' = idx + 1 /\ pc' = "expand"
  /\ UNCHANGED <<proxies, exc, result>>

(* CFRunLoopRunInMode returns (lines 102-121): stopped by the callback or *)
(* after the 5 s timeout with no result.  The source is removed, an array *)
(* result is appended, the result and the source are released.            *)
RunLoopReturn ==
  /\ pc = "runloop"
  /\ expanded' = IF cbResult.kind = "array"
                 THEN expanded \o AppendAnswer(cbResult.items) ELSE expanded
  /\ Release(IF cbResult = NullRef THEN {"runloop"} ELSE {"result", "runloop"})
  /\ pacOut' = pacOut @@ (idx :> CASE cbResult = NullRef  -> "timeout"
                                    [] cbResult = ErrorRef -> "error"
                                    [] OTHER              -> "answer")
  /\ cbResult' = NullRef /\ idx' = idx + 1 /\ pc' = "expand"
  /\ UNCHANGED <<proxies, exc, result>>

(* A mutant: the proxy list is not released after the expansion.        *)
ExpandDoneKeepList ==
  /\ pc = "expand" /\ idx > Len(proxies)
  /\ Release({})
  /\ pc' = "convert"
  /\ UNCHANGED <<proxies, idx, expanded, cbResult, pacOut, exc, result>>

(* The loop of createExpandedProxiesArray ends: the array is returned and *)
(* getSystemProxies releases the proxy list (line 199).                   *)
ExpandDone ==
  /\ pc = "expand" /\ idx > Len(proxies)
  /\ Release({"list"})
  /\ pc' = "convert"
  /\ UNCHANGED <<proxies, idx, expanded, cbResult, pacOut, exc, result>>
(* The conversion loop of getSystemProxies and its exit (lines 207-266).  *)
(* NewObjectArray fails with an OutOfMemoryError pending, and the test    *)
(* "proxyArray != NULL || ExceptionCheck" then enters the loop, whose     *)
(* first iteration makes JNI calls with the exception pending before it   *)
(* breaks.  Otherwise an entry without a port gives a NULL proxy and      *)
(* createProxy, GetStaticObjectField or SetObjectArrayElement may throw   *)
(* (ok[i] = FALSE); either stops the loop and NULL is returned.  The      *)
(* expanded array, the URL and the settings are released.                 *)
Convert ==
  /\ pc = "convert"
  /\ \E arrOK \in BOOLEAN, ok \in [1..Len(expanded) -> BOOLEAN] :
       LET n     == Len(expanded)
           bad   == {i \in 1..n : expanded[i] = "noport" \/ ~ok[i]}
           R     == {"expanded", "url", "dict"}
       IN IF arrOK
          THEN /\ result' = IF bad = {} THEN ArrayRef(expanded) ELSE NullRef
               /\ exc' = (bad # {} /\ expanded[Min(bad)] # "noport")
               /\ CFCall({}, R, {})
          ELSE /\ result' = NullRef /\ exc' = TRUE
               /\ CFCall({}, R, IF n > 0 THEN {"jni_pending"} ELSE {})
  /\ pc' = "done"
  /\ UNCHANGED <<proxies, idx, expanded, cbResult, pacOut>>

(* The Java caller takes the result; the next call starts afresh.        *)
Return ==
  /\ pc = "done"
  /\ pc' = "idle" /\ proxies' = <<>> /\ idx' = 1 /\ expanded' = <<>>
  /\ pacOut' = <<>> /\ exc' = FALSE /\ faults' = {} /\ result' = NullRef
  /\ UNCHANGED <<cbResult, owned>>

(* The native thread's own steps: everything but the start of a call and *)
(* the PAC callback.                                                      *)
Lister == ExpandEntry \/ RunLoopReturn \/ ExpandDone \/ Convert

Next == GetSystemProxies \/ ProxyUrlCallback \/ Lister \/ Return

Spec == Init /\ [][Next]_vars /\ WF_vars(Lister)

-----------------------------------------------------------------------------
(* What each entry of the CF list contributes to the expanded list: a    *)
(* non-PAC entry itself, a PAC entry the answer of its script when the   *)
(* callback delivered one before the timeout (the comment at lines 47-52). *)
Contribution(i) ==
  IF proxies[i].type \in Plain THEN <<proxies[i].type>>
  ELSE IF pacOut[i] = "answer" THEN proxies[i].answer ELSE <<>>

Expected == FlattenSeq([i \in 1..Len(proxies) |-> Contribution(i)])

TypeOK ==
  /\ pc \in {"idle", "expand", "runloop", "convert", "done"}
  /\ idx \in 1..(Len(proxies) + 1)
  /\ expanded \in Seq(Plain)
  /\ owned \subseteq {"dict", "url", "list", "expanded", "runloop", "result"}
  /\ exc \in BOOLEAN
  /\ result.kind \in {"null", "array"} /\ result.items \in Seq(Plain)

(* Every CF object getSystemProxies creates or copies, on every path      *)
(* through it and createExpandedProxiesArray (the PAC run-loop source and *)
(* the callback's retained result included), is released exactly once by *)
(* the time the call returns.                                             *)
CFBalanced ==
  pc = "done" => owned = {} /\ "over_release" \notin faults

(* A non-NULL Proxy[] holds, in order, every non-PAC entry of the system  *)
(* list and the answer of every PAC script that answered before its      *)
(* timeout, and nothing else.                                            *)
ResultIsExpansion ==
  pc = "done" /\ result.kind = "array" => result.items = Expected

(* No JNI call is made while a Java exception is pending (the JNI rule    *)
(* the check at line 210 is there to honour).                             *)
NoJNICallWithPending == "jni_pending" \notin faults

(* The abstract call of ProxyLookup, seen through getSystemProxies: the *)
(* call is busy from the moment it has a proxy list until it returns.    *)
Lookup == INSTANCE ProxyLookup WITH
            state  <- CASE pc = "idle" -> "idle"
                        [] pc = "done" -> "done"
                        [] OTHER       -> "busy",
            list   <- proxies,
            answer <- result

(* getSystemProxies implements ProxyLookup: every call fails before it   *)
(* has a list, or returns NULL or an expansion of the list in one step,  *)
(* and every call returns, whether or not a PAC script ever calls back:  *)
(* the 5 s timeout of CFRunLoopRunInMode ends the wait.                  *)
ProxyLookupRefined == Lookup!Spec
=============================================================================
