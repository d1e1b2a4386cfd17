----------------------------- MODULE RtfGroups -----------------------------
(* _strip_destination_groups of the book-to-skill skill: the scan that drops  *)
(* the groups of an RTF file that hold no text before the rest of its markup  *)
(* is removed. One action per branch of the loop, over a file that grows; a   *)
(* brace, or a run of text with its escaped ones, stands for its place in it. *)
EXTENDS Integers, FiniteSets, SequencesExt

CONSTANT MaxRtf  \* the length of the file, in braces and runs of text

VARIABLES
  raw,          \* the file read so far
  out,          \* the places kept
  depth,        \* groups open
  skipAtDepth,  \* skip_at_depth, 0 outside a skipped group
  result        \* what the function returns, once the file ends

vars == <<raw, out, depth, skipAtDepth, result>>

Reading == <<0>>  \* nothing has this place
Init == raw = <<>> /\ out = <<>> /\ depth = 0 /\ skipAtDepth = 0 /\ result = Reading

Read(token) ==
  /\ result = Reading /\ Len(raw) < MaxRtf
  /\ raw' = Append(raw, token)
  /\ UNCHANGED result
Keep(also) ==
  out' = IF skipAtDepth = 0 /\ also THEN Append(out, Len(raw) + 1) ELSE out

(* A group is skipped that is ignorable or of a destination without text,     *)
(* unless one that holds it is skipped already.                               *)
OpenGroup(destination) ==
  /\ Keep(~destination)
  /\ Read(IF destination THEN "destination" ELSE "open")
  /\ depth' = depth + 1
  /\ skipAtDepth' = IF skipAtDepth = 0 /\ destination THEN depth + 1 ELSE skipAtDepth

\* Mutant: any closing brace ends the skipped group.
EndsAtAnyClose == TRUE
EndsSkipped == depth = skipAtDepth
CloseGroup ==
  /\ Keep(TRUE)
  /\ Read("close")
  /\ depth' = depth - 1
  /\ skipAtDepth' = IF skipAtDepth # 0 /\ EndsSkipped THEN 0 ELSE skipAtDepth

Text ==
  /\ UNCHANGED <<depth, skipAtDepth>>
  /\ Read("text")
  /\ Keep(TRUE)

(* A skipped group that never closes would take the rest of the book: the     *)
(* file is returned as it is.                                                 *)
End ==
  /\ UNCHANGED <<raw, out, depth, skipAtDepth>>
  /\ result = Reading
  /\ result' = IF skipAtDepth # 0 THEN [i \in DOMAIN raw |-> i] ELSE out

Next ==
  \/ \E destination \in BOOLEAN : OpenGroup(destination)
  \/ CloseGroup \/ Text \/ End

Spec == Init /\ [][Next]_vars
-----------------------------------------------------------------------------
(* In a file whose braces never close more than is open, the result has, in   *)
(* the order of the file, everything outside the destination groups if they   *)
(* all close, and everything if one does not: an unclosed group costs some    *)
(* residue, never the book.                                                   *)
Braces(kinds, from, to) == Cardinality({i \in from .. to : raw[i] \in kinds})
Nesting(from, to) == Braces({"open", "destination"}, from, to) - Braces({"close"}, from, to)
Balanced == \A i \in DOMAIN raw : Nesting(1, i) >= 0

Destinations == {j \in DOMAIN raw : raw[j] = "destination"}
Closes(j) == \E k \in j .. Len(raw) : Nesting(j, k) = 0
Group(j) == {i \in j .. Len(raw) : \A k \in j .. i - 1 : Nesting(j, k) > 0}
OnlyDestinationsAreDropped ==
  (result # Reading /\ Balanced) =>
    /\ \A m, n \in DOMAIN result : m < n => result[m] < result[n]
    /\ ToSet(result) =
         IF \A j \in Destinations : Closes(j)
         THEN DOMAIN raw \ UNION {Group(j) : j \in Destinations}
         ELSE DOMAIN raw
=============================================================================
