------------------------------ MODULE PathUtil ------------------------------
(***************************************************************************)
(* collapse() of path_util.c, at the level of the characters of the path  *)
(* buffer: collapsible() counts the names and tells whether any is "." or *)
(* "..", splitNames() cuts the names apart in place and fills the index   *)
(* array ix, the main loop clears the entries of removed names, and       *)
(* joinNames() copies the kept names back together in the same buffer.    *)
(*                                                                         *)
(* A buffer is a sequence of characters; the NUL terminator is implicit   *)
(* one past the end, and splitNames writes NULs inside it.  An entry of ix *)
(* is the index of a name's first character, 0 for a cleared entry (the  *)
(* NULL pointer), or Unset for a slot of the alloca'ed array that          *)
(* splitNames never wrote.                                                 *)
(*                                                                         *)
(* A caller hands collapse() one path after another.                      *)
(***************************************************************************)
EXTENDS Integers, Sequences, SequencesExt

CONSTANTS
  Inputs   \* the paths the caller may pass (sequences of characters)

NUL   == "0"
Unset == -1

VARIABLES
  busy,    \* a call of collapse() has returned and is not yet consumed
  path,    \* the argument of the last call
  result   \* [out |-> the buffer's string afterwards, ub |-> BOOLEAN]

vars == <<busy, path, result>>

-----------------------------------------------------------------------------
(* The character at index i of buffer b; NUL past the end. *)
Ch(b, i) == IF i \in 1..Len(b) THEN b[i] ELSE NUL

(* b with the character at index k set to c (k may be the terminator). *)
SetCh(b, k, c) ==
  IF k \in 1..Len(b) THEN [b EXCEPT ![k] = c] ELSE Append(b, c)

(* The C string starting at index i. *)
RECURSIVE Str(_, _)
Str(b, i) == IF Ch(b, i) = NUL THEN <<>> ELSE <<b[i]>> \o Str(b, i + 1)

(* Mutation variant: only "." counts as a dot name. *)
DotNameSingle(b, i) ==
  /\ Ch(b, i) = "."
  /\ Ch(b, i + 1) \in {NUL, "/"}

(* The test of collapsible() for a name starting at i: "." or "..", ended *)
(* by NUL or '/'.                                                          *)
DotName(b, i) ==
  /\ Ch(b, i) = "."
  /\ \/ Ch(b, i + 1) \in {NUL, "/"}
     \/ Ch(b, i + 1) = "." /\ Ch(b, i + 2) \in {NUL, "/"}

(* The inner loop of collapsible(): past the first '/' at or after i. *)
RECURSIVE SkipName(_, _)
SkipName(b, i) ==
  IF Ch(b, i) = NUL THEN i
  ELSE IF b[i] = "/" THEN i + 1
  ELSE SkipName(b, i + 1)

(* collapsible(names): the number of names if one is "." or "..", else 0. *)
RECURSIVE CollapsibleScan(_, _, _, _)
CollapsibleScan(b, i, dots, n) ==
  IF Ch(b, i) = NUL THEN (IF dots THEN n ELSE 0)
  ELSE CollapsibleScan(b, SkipName(b, i), dots \/ DotName(b, i), n + 1)
collapsible(b, names) == CollapsibleScan(b, names, FALSE, 0)

(* The first '/' or NUL at or after k. *)
RECURSIVE SlashFrom(_, _)
SlashFrom(b, k) == IF Ch(b, k) \in {NUL, "/"} THEN k ELSE SlashFrom(b, k + 1)

(* splitNames(names, ix): record the start of a name (ix[i++] = p++), then *)
(* replace the next '/' by NUL.  Returns the buffer and the entries.       *)
RECURSIVE SplitScan(_, _, _)
SplitScan(b, i, ix) ==
  IF Ch(b, i) = NUL THEN [buf |-> b, ix |-> ix]
  ELSE LET k == SlashFrom(b, i + 1)
       IN  IF Ch(b, k) = "/"
           THEN SplitScan([b EXCEPT ![k] = NUL], k + 1, Append(ix, i))
           ELSE SplitScan(b, k, Append(ix, i))
splitNames(b, names) == SplitScan(b, names, <<>>)

(* The name at q is "." (1) or ".." (2) or neither (0), as the main loop  *)
(* tests it after splitNames.                                              *)
DotKind(b, q) ==
  IF Ch(b, q) = "." /\ Ch(b, q + 1) = NUL THEN 1
  ELSE IF Ch(b, q) = "." /\ Ch(b, q + 1) = "." /\ Ch(b, q + 2) = NUL THEN 2
  ELSE 0

(* The do-while loop: the first i' >= i whose name is "." or "..", or nc. *)
RECURSIVE NextDots(_, _, _, _)
NextDots(b, ix, i, nc) ==
  IF DotKind(b, ix[i]) # 0 THEN i
  ELSE IF i + 1 < nc THEN NextDots(b, ix, i + 1, nc)
  ELSE nc

(* Mutation variant: the search back stops at i - 1 whether or not that *)
(* entry was already cleared.                                              *)
PrevLiveNoSkip(ix, j) == j

(* for (j = i - 1; j >= 0; j--) if (ix[j]) break; *)
RECURSIVE PrevLive(_, _)
PrevLive(ix, j) == IF j < 0 \/ ix[j] # 0 THEN j ELSE PrevLive(ix, j - 1)

(* The main loop of collapse() over ix[0..nc-1]: clear each ".", and each *)
(* ".." with the nearest preceding entry still set.                        *)
RECURSIVE MainLoop(_, _, _, _)
MainLoop(b, ix, i, nc) ==
  IF i >= nc THEN ix
  ELSE LET f == NextDots(b, ix, i, nc)
       IN  IF f >= nc THEN ix
           ELSE IF DotKind(b, ix[f]) = 1
           THEN MainLoop(b, [ix EXCEPT ![f] = 0], f + 1, nc)
           ELSE LET j == PrevLive(ix, f - 1)
                IN  IF j < 0 THEN MainLoop(b, ix, f + 1, nc)
                    ELSE MainLoop(b, [ix EXCEPT ![j] = 0, ![f] = 0], f + 1, nc)

(* The copy loop of joinNames: copy the string at q, NUL included, to p. *)
RECURSIVE CopyStr(_, _, _)
CopyStr(b, p, q) ==
  IF Ch(b, q) = NUL THEN [buf |-> SetCh(b, p, NUL), p |-> p + 1]
  ELSE CopyStr(SetCh(b, p, b[q]), p + 1, q + 1)

(* joinNames(names, nc, ix): for each entry still set, put '/' over the   *)
(* terminator before p when i > 0, and move the name to p.  oob records a *)
(* write at index 0, before the start of the buffer.                       *)
RECURSIVE JoinScan(_, _, _, _, _, _)
JoinScan(b, p, i, nc, ix, oob) ==
  IF i >= nc THEN [buf |-> SetCh(b, p, NUL), oob |-> oob]
  ELSE IF ix[i] = 0 THEN JoinScan(b, p, i + 1, nc, ix, oob)
  ELSE LET b1 == IF i > 0 /\ p > 1 THEN SetCh(b, p - 1, "/") ELSE b
           oob1 == oob \/ (i > 0 /\ p = 1)
       IN  IF p = ix[i]
           THEN JoinScan(b1, p + Len(Str(b1, p)) + 1, i + 1, nc, ix, oob1)
           ELSE LET c == CopyStr(b1, p, ix[i])
                IN  JoinScan(c.buf, c.p, i + 1, nc, ix, oob1)
joinNames(b, names, nc, ix) == JoinScan(b, names, 0, nc, ix, FALSE)

(* collapse(path): keep a leading '/', return when fewer than two names   *)
(* or no dot names, split, run the main loop and join.  When collapsible  *)
(* counted more names than splitNames recorded (an empty name, "//"), the *)
(* loop and joinNames read slots of ix nobody wrote: undefined behaviour, *)
(* as is joinNames' write before a relative path's buffer.                 *)
collapse(s) ==
  LET names == IF Ch(s, 1) = "/" THEN 2 ELSE 1
      nc    == collapsible(s, names)
      sp    == splitNames(s, names)
      ix0   == [k \in 0..(nc - 1) |->
                  IF k < Len(sp.ix) THEN sp.ix[k + 1] ELSE Unset]
  IN  IF nc < 2 THEN [out |-> Str(s, 1), ub |-> FALSE]
      ELSE IF Len(sp.ix) < nc THEN [out |-> <<>>, ub |-> TRUE]
      ELSE LET ix == MainLoop(sp.buf, ix0, 0, nc)
               j  == joinNames(sp.buf, names, nc, ix)
           IN  [out |-> Str(j.buf, 1), ub |-> j.oob]

-----------------------------------------------------------------------------
Init ==
  /\ busy = FALSE
  /\ path = <<>>
  /\ result = [out |-> <<>>, ub |-> FALSE]

(* A call collapse(path) on a buffer holding one of the inputs. *)
Collapse ==
  /\ ~busy
  /\ \E s \in Inputs :
       /\ path' = s
       /\ result' = collapse(s)
  /\ busy' = TRUE

(* The caller consumes the result. *)
Return ==
  /\ busy
  /\ busy' = FALSE
  /\ path' = <<>>
  /\ result' = [out |-> <<>>, ub |-> FALSE]

Next == Collapse \/ Return

Spec == Init /\ [][Next]_vars

-----------------------------------------------------------------------------
(* The names of a path: the pieces between slashes, empty ones dropped. *)
RECURSIVE NamesFrom(_, _, _)
NamesFrom(s, i, cur) ==
  IF i > Len(s) THEN (IF cur = <<>> THEN <<>> ELSE <<cur>>)
  ELSE IF s[i] = "/"
       THEN (IF cur = <<>> THEN <<>> ELSE <<cur>>) \o NamesFrom(s, i + 1, <<>>)
       ELSE NamesFrom(s, i + 1, Append(cur, s[i]))
NamesOf(s) == NamesFrom(s, 1, <<>>)

Dot    == <<".">>
DotDot == <<".", ".">>

(* The directory an absolute path names when "." stays and ".." goes to  *)
(* the parent, the parent of the root being the root: the meaning a       *)
(* purely syntactic cleanup must keep.                                     *)
RECURSIVE Resolve(_, _)
Resolve(ns, dir) ==
  IF ns = <<>> THEN dir
  ELSE LET n == Head(ns)
       IN  Resolve(Tail(ns), IF n = Dot THEN dir
                             ELSE IF n = DotDot
                                  THEN (IF dir = <<>> THEN dir ELSE Front(dir))
                             ELSE Append(dir, n))

(* A name sequence with no "." left, and ".." only in a leading run. *)
Collapsed(ns) ==
  /\ \A k \in 1..Len(ns) : ns[k] # Dot
  /\ \A k \in 2..Len(ns) : ns[k] = DotDot => ns[k - 1] = DotDot

(* collapse() on a normalised absolute path (what the canonicaliser       *)
(* passes after realpath) commits no undefined behaviour -- no read of an *)
(* ix slot splitNames never wrote, no write before the buffer -- and the   *)
(* path it leaves in the buffer names the same directory: the in-place     *)
(* split, the clearing of ix entries and the overlapping copy of           *)
(* joinNames together lose no name and keep no removed one.                *)
CollapsePreservesMeaning ==
  busy /\ Ch(path, 1) = "/" =>
    /\ ~result.ub
    /\ Ch(result.out, 1) = "/"
    /\ Resolve(NamesOf(result.out), <<>>) = Resolve(NamesOf(path), <<>>)

(* Whenever collapse() has work to do (two names or more), every "." is   *)
(* gone and each remaining ".." has nothing but ".." before it: the main  *)
(* loop's search back for a live entry finds every name it may remove.    *)
CollapseComplete ==
  busy /\ Len(NamesOf(path)) >= 2 => Collapsed(NamesOf(result.out))

(* The rule the comment of collapse() states (path_util.c:88-90): "." is  *)
(* always removed, and ".." is removed together with the name before it   *)
(* only if that name is neither "." nor "..".                              *)
RECURSIVE CommentRule(_, _)
CommentRule(ns, kept) ==
  IF ns = <<>> THEN kept
  ELSE LET n == Head(ns)
       IN  CommentRule(Tail(ns),
             IF n = Dot THEN kept
             ELSE IF n = DotDot /\ kept # <<>> /\ Last(kept) \notin {Dot, DotDot}
                  THEN Front(kept)
             ELSE Append(kept, n))

(* collapse() on a path of two or more names gives the names the comment *)
(* rule of path_util.c:88-90 gives.                                        *)
FollowsCommentRule ==
  busy /\ Len(NamesOf(path)) >= 2 =>
    NamesOf(result.out) = CommentRule(NamesOf(path), <<>>)
=============================================================================
