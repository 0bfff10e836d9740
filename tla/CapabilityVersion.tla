------------------------- MODULE CapabilityVersion -------------------------
(***************************************************************************)
(* version_matches of agent_network.capability: does the version an agent  *)
(* announces meet the constraint of a discover query?                      *)
(*                                                                         *)
(* A version is <<major, minor, patch>>.  A constraint is the sequence of  *)
(* its comma-separated parts, empty for none, "*" or "any"; a part is a    *)
(* comparison, possibly written with a final ".x".                         *)
(***************************************************************************)
EXTENDS Integers, Sequences, FiniteSetsExt

Version == Nat \X Nat \X Nat

Part == [op : {">=", "<=", ">", "<", ""}, version : Version, x : BOOLEAN]

\* Tuples compare lexicographically in Python.
Less(v, w) ==
    \/ v[1] < w[1]
    \/ v[1] = w[1] /\ v[2] < w[2]
    \/ v[1] = w[1] /\ v[2] = w[2] /\ v[3] < w[3]

Compare(v, op, w) ==
    CASE op = ">=" -> ~Less(v, w)
      [] op = "<=" -> ~Less(w, v)
      [] op = ">"  -> Less(w, v)
      [] op = "<"  -> Less(v, w)
      [] op = ""   -> v = w

YesNo(b) == IF b THEN "yes" ELSE "no"

\* int(constraint.split(".", 1)[0]) of a constraint that ends in ".x": the text
\* up to its first dot, whatever parts follow; not a number after an operator.
MajorOf(v, first) ==
    IF first.op = "" THEN YesNo(v[1] = first.version[1]) ELSE "raises"

PartMatches(v, part) ==
    IF part.x THEN MajorOf(v, part) ELSE YesNo(Compare(v, part.op, part.version))

\* Mutant: a comma-separated constraint is met when one of its parts is.
AnyPartMatches(v, parts) ==
    YesNo(parts = <<>> \/ \E i \in DOMAIN parts : PartMatches(v, parts[i]) = "yes")

\* "yes", "no" or "raises" (ValueError).  all() stops at the first part that
\* is not met, so a part that would raise may never be reached.
version_matches(v, parts) ==
    IF parts = <<>> THEN "yes"
    ELSE IF parts[Len(parts)].x THEN MajorOf(v, parts[1])
    ELSE LET unmet == {i \in DOMAIN parts : PartMatches(v, parts[i]) # "yes"} IN
         IF unmet = {} THEN "yes" ELSE PartMatches(v, parts[Min(unmet)])

-----------------------------------------------------------------------------
(* Reference definition: a constraint is a set of versions. *)

\* "2.x" means every version from 2.0.0 up to, and without, 3.0.0.
InPart(v, part) ==
    IF part.x THEN /\ ~Less(v, <<part.version[1], 0, 0>>)
                   /\ Less(v, <<part.version[1] + 1, 0, 0>>)
              ELSE Compare(v, part.op, part.version)

InRange(v, parts) == \A i \in DOMAIN parts : InPart(v, parts[i])

\* The constraints for which the reference is meant: no operator before an
\* ".x", and an ".x" last only when it stands alone.
Plain(parts) ==
    /\ \A i \in DOMAIN parts : parts[i].x => parts[i].op = ""
    /\ Len(parts) > 1 => ~parts[Len(parts)].x
=============================================================================
