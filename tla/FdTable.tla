------------------------------ MODULE FdTable ------------------------------
(***************************************************************************)
(* The process's descriptor table as the kernel keeps it, shared by the   *)
(* libnio descriptor natives (IOUtil, InheritedChannel): a function from  *)
(* each open descriptor to the open file description it refers to, and   *)
(* per-description state (the file status flags) for the descriptions    *)
(* some descriptor still refers to.  A closed descriptor and a            *)
(* description no descriptor refers to have no entry at all.              *)
(***************************************************************************)
EXTENDS Integers, FiniteSets, FiniteSetsExt, Functions, TLC

(* The lowest descriptor (or description) not in use: what open(2),     *)
(* pipe(2) and dup(2) allocate.                                           *)
Lowest(all, used) == Min(all \ used)

(* The table with descriptor fd referring to description d, whether fd   *)
(* was free or open before (dup2 closes it first).                       *)
Bind(desc, fd, d) == [x \in DOMAIN desc \cup {fd} |-> IF x = fd THEN d ELSE desc[x]]

(* The table after the descriptors outside open are closed. *)
Keep(desc, open) == Restrict(desc, open)

(* Per-description state kept for the descriptions table desc refers to. *)
Trim(f, desc) == Restrict(f, Range(desc))
=============================================================================
