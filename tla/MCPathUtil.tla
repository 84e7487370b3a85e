----------------------------- MODULE MCPathUtil -----------------------------
(* Paths over the characters 'a', '.' and '/' of up to MaxLen characters. *)
EXTENDS PathUtil

MaxLen == 8

Chars == {"a", ".", "/"}

(* A path as the canonicaliser passes it: absolute, no empty name, no     *)
(* trailing '/' unless it is the root.                                     *)
Normalised(s) ==
  /\ Len(s) >= 1 /\ s[1] = "/"
  /\ \A k \in 1..(Len(s) - 1) : s[k] = "/" => s[k + 1] # "/"
  /\ Len(s) > 1 => s[Len(s)] # "/"

AbsolutePaths == {s \in BoundedSeq(Chars, MaxLen) : Normalised(s)}

(* The same, also without the leading '/': relative paths. *)
AnyPaths == AbsolutePaths \cup {Tail(s) : s \in AbsolutePaths \ {<<"/">>}}
=============================================================================
