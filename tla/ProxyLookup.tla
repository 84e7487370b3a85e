----------------------------- MODULE ProxyLookup -----------------------------
(***************************************************************************)
(* What getSystemProxies promises its Java caller, with no run loop, no   *)
(* CF objects and no JNI: a call either fails at once, or takes the       *)
(* system's proxy list and later returns NULL or one expansion of it, in  *)
(* which every non-PAC entry stands for itself and every PAC entry for    *)
(* its script's answer or for nothing (the comment at lines 47-52 of      *)
(* DefaultProxySelector.c).  A list with a malformed entry has no         *)
(* expansion.  Every call returns.                                        *)
(***************************************************************************)
EXTENDS Sequences

CONSTANTS
  Inputs,   \* the proxy lists the system may answer with
  Plain     \* the entry types that stand for themselves

VARIABLES
  state,    \* "idle", "busy" or "done"
  list,     \* the proxy list of the call in progress
  answer    \* the result: [kind |-> "null"] or an array of entries

vars == <<state, list, answer>>

Null        == [kind |-> "null", items |-> <<>>]
Array(s)    == [kind |-> "array", items |-> s]

(* The sequences one entry may stand for in an expansion. *)
Options(e) ==
  CASE e.type \in Plain -> {<<e.type>>}
    [] e.type = "pac"   -> {e.answer, <<>>}
    [] OTHER            -> {}

RECURSIVE Expansions(_)
Expansions(l) ==
  IF l = <<>> THEN {<<>>}
  ELSE {h \o t : h \in Options(Head(l)), t \in Expansions(Tail(l))}

Init == state = "idle" /\ list = <<>> /\ answer = Null

(* The call fails before it has a proxy list. *)
FailEarly ==
  /\ state = "idle" /\ state' = "done"
  /\ UNCHANGED <<list, answer>>

(* The call obtains the system's proxy list. *)
Start ==
  /\ state = "idle" /\ state' = "busy"
  /\ \E l \in Inputs : list' = l
  /\ UNCHANGED answer

(* The call ends with NULL or with an expansion of the list. *)
Finish ==
  /\ state = "busy" /\ state' = "done"
  /\ answer' \in {Null} \cup {Array(s) : s \in Expansions(list)}
  /\ UNCHANGED list

(* The caller takes the answer. *)
Return ==
  /\ state = "done"
  /\ state' = "idle" /\ list' = <<>> /\ answer' = Null

Next == FailEarly \/ Start \/ Finish \/ Return

Spec == Init /\ [][Next]_vars /\ WF_vars(Finish)
=============================================================================
