-------------------------- MODULE VersionTimeline --------------------------
(* The history of one security in the symbol master (symbol-master-        *)
(* version.ts): versions that are valid from a date up to, and without, an  *)
(* end date.  Dates are numbers; the end of a version that is still valid   *)
(* is a number larger than every date.  A history is a set of versions, the *)
(* order of the rows being that of their dates.                             *)
EXTENDS Naturals

CONSTANT Absent     \* what a history says of a date without a version

Version(from, to, entry) == [from |-> from, to |-> to, entry |-> entry]

ValidAt(version, date) == version.from <= date /\ date < version.to

\* readUniverseAsOfInternal, for one security.
EntryAt(history, date) ==
    IF \E v \in history : ValidAt(v, date)
    THEN (CHOOSE v \in history : ValidAt(v, date)).entry
    ELSE Absent

\* What normalizeTimeline rejects with an exception.
Overlapping(history) ==
    \E v, w \in history : v # w /\ v.from < w.to /\ w.from < v.to

-----------------------------------------------------------------------------
(* overlayVersionTimeline: the interval [from, to) is cut out of the        *)
(* history and filled with the new entry, if there is one.                  *)

Untouched(history, from, to) ==
    {v \in history : v.to <= from \/ v.from >= to}

CutBefore(history, from) ==
    {[v EXCEPT !.to = from] : v \in {w \in history : w.from < from /\ from < w.to}}

CutAfter(history, to) ==
    {[v EXCEPT !.from = to] : v \in {w \in history : w.from < to /\ to < w.to}}

Pieces(history, from, to, entry) ==
    Untouched(history, from, to) \cup CutBefore(history, from) \cup CutAfter(history, to)
        \cup (IF entry = Absent THEN {} ELSE {Version(from, to, entry)})

(* normalizeTimeline: versions that touch and say the same become one.  A   *)
(* version of the result goes from a piece that continues none to a piece   *)
(* that none continues, over pieces without a gap between them.             *)
Same(v, w) == v.to = w.from /\ v.entry = w.entry

Leads(pieces, v, w) ==
    /\ v.from <= w.from /\ v.entry = w.entry
    /\ \A d \in v.from .. w.to - 1 :
          \E x \in pieces : ValidAt(x, d) /\ x.entry = v.entry

Normalize(pieces) ==
    LET ends == {e \in pieces \X pieces :
                    /\ Leads(pieces, e[1], e[2])
                    /\ ~\E x \in pieces : Same(x, e[1]) \/ Same(e[2], x)}
    IN  {Version(e[1].from, e[2].to, e[1].entry) : e \in ends}

Overlay(history, from, to, entry) == Normalize(Pieces(history, from, to, entry))
=============================================================================
