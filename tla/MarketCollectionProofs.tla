----------------------- MODULE MarketCollectionProofs -----------------------
(* That the symbol master tells the truth, whatever dates are collected in  *)
(* whatever order. First, what an overlay does to the history of one        *)
(* security, for every history, interval and entry: it changes what is said *)
(* of the dates in the interval and of no other, and makes a history whose  *)
(* versions do not overlap. Then, from this, the invariants of the          *)
(* collection.                                                              *)
EXTENDS MarketCollection, WellFoundedInduction, TLAPS

Versions(Known) == [from : Nat, to : Nat, entry : Known]

\* The rows of symbol_master_versions for one code: chk_smv_valid_range, and
\* no date with two versions.
IsHistory(Known, End, h) ==
    /\ Absent \notin Known
    /\ h \subseteq Versions(Known)
    /\ \A v \in h : v.from < v.to /\ v.to <= End
    /\ \A v, w \in h, d \in Nat : ValidAt(v, d) /\ ValidAt(w, d) => v = w

-----------------------------------------------------------------------------

\* The pieces are versions with a date each, and are made of these four kinds.
LEMMA PiecesAreVersions ==
    ASSUME NEW Known, NEW End \in Nat, NEW h, IsHistory(Known, End, h),
           NEW from \in Nat, NEW to \in 0 .. End, from < to,
           NEW entry \in Known \cup {Absent}
    PROVE  /\ Pieces(h, from, to, entry) \subseteq Versions(Known)
           /\ \A p \in Pieces(h, from, to, entry) : p.from < p.to /\ p.to <= End
  <1> SUFFICES ASSUME NEW p \in Pieces(h, from, to, entry)
               PROVE  p \in Versions(Known) /\ p.from < p.to /\ p.to <= End
    OBVIOUS
  <1>1. CASE p \in Untouched(h, from, to)
    BY <1>1 DEF Untouched, IsHistory
  <1>2. CASE p \in CutBefore(h, from)
    <2>1. PICK v \in h : v.from < from /\ from < v.to /\ p = [v EXCEPT !.to = from]
      BY <1>2 DEF CutBefore
    <2> QED BY <2>1 DEF IsHistory, Versions
  <1>3. CASE p \in CutAfter(h, to)
    <2>1. PICK v \in h : v.from < to /\ to < v.to /\ p = [v EXCEPT !.from = to]
      BY <1>3 DEF CutAfter
    <2> QED BY <2>1 DEF IsHistory, Versions
  <1>4. CASE entry # Absent /\ p = Version(from, to, entry)
    BY <1>4 DEF Version, Versions
  <1> QED BY <1>1, <1>2, <1>3, <1>4 DEF Pieces

\* A piece says of a date in the interval what the new entry says, and of any
\* other date what the version says of which it is a part.
LEMMA PieceSays ==
    ASSUME NEW Known, NEW End \in Nat, NEW h, IsHistory(Known, End, h),
           NEW from \in Nat, NEW to \in 0 .. End, from < to,
           NEW entry \in Known \cup {Absent}, NEW d \in Nat,
           NEW p \in Pieces(h, from, to, entry), ValidAt(p, d)
    PROVE  IF from <= d /\ d < to
           THEN entry # Absent /\ p = Version(from, to, entry)
           ELSE \E v \in h :
                   /\ ValidAt(v, d) /\ v.entry = p.entry
                   /\ d < from => p.from = v.from /\ p.to = (IF v.to <= from THEN v.to ELSE from)
                   /\ to <= d => p.to = v.to /\ p.from = (IF v.from >= to THEN v.from ELSE to)
  <1>1. CASE p \in Untouched(h, from, to)
    BY <1>1 DEF Untouched, IsHistory, ValidAt, Versions
  <1>2. CASE p \in CutBefore(h, from)
    <2>1. PICK v \in h : v.from < from /\ from < v.to /\ p = [v EXCEPT !.to = from]
      BY <1>2 DEF CutBefore
    <2>2. v \in Versions(Known)
      BY DEF IsHistory
    <2>3. p.from = v.from /\ p.to = from /\ p.entry = v.entry
      BY <2>1, <2>2 DEF Versions
    <2>4. v.from <= d /\ d < from
      BY <2>3 DEF ValidAt
    <2>5. ValidAt(v, d)
      BY <2>1, <2>2, <2>4 DEF ValidAt, Versions
    <2>6. v.from \in Nat /\ v.to \in Nat
      BY <2>2 DEF Versions
    <2>7. /\ ~ (from <= d /\ d < to) /\ ~ (to <= d)
          /\ p.to = (IF v.to <= from THEN v.to ELSE from)
      BY <2>1, <2>3, <2>4, <2>6
    <2> QED BY <2>3, <2>5, <2>7
  <1>3. CASE p \in CutAfter(h, to)
    <2>1. PICK v \in h : v.from < to /\ to < v.to /\ p = [v EXCEPT !.from = to]
      BY <1>3 DEF CutAfter
    <2>2. v \in Versions(Known)
      BY DEF IsHistory
    <2>3. p.from = to /\ p.to = v.to /\ p.entry = v.entry
      BY <2>1, <2>2 DEF Versions
    <2>4. to <= d /\ d < v.to
      BY <2>3 DEF ValidAt
    <2>5. ValidAt(v, d)
      BY <2>1, <2>2, <2>4 DEF ValidAt, Versions
    <2>6. v.from \in Nat /\ v.to \in Nat
      BY <2>2 DEF Versions
    <2>7. /\ ~ (from <= d /\ d < to) /\ ~ (d < from)
          /\ p.from = (IF v.from >= to THEN v.from ELSE to)
      BY <2>1, <2>3, <2>4, <2>6
    <2> QED BY <2>3, <2>5, <2>7
  <1>4. CASE entry # Absent /\ p = Version(from, to, entry)
    BY <1>4 DEF Version, ValidAt
  <1> QED BY <1>1, <1>2, <1>3, <1>4 DEF Pieces

\* Each date that a history speaks of outside the interval is spoken of by a
\* piece of the same entry.
LEMMA PieceFor ==
    ASSUME NEW Known, NEW End \in Nat, NEW h, IsHistory(Known, End, h),
           NEW from \in Nat, NEW to \in 0 .. End, from < to,
           NEW entry \in Known \cup {Absent}, NEW d \in Nat,
           NEW v \in h, ValidAt(v, d), ~ (from <= d /\ d < to)
    PROVE  \E p \in Pieces(h, from, to, entry) : ValidAt(p, d) /\ p.entry = v.entry
  <1>1. v \in Versions(Known)
    BY DEF IsHistory
  <1>2. CASE v.to <= from \/ v.from >= to
    BY <1>2 DEF Pieces, Untouched
  <1>3. CASE d < from /\ from < v.to
    <2>1. [v EXCEPT !.to = from] \in CutBefore(h, from)
      BY <1>1, <1>3 DEF CutBefore, ValidAt, Versions
    <2>2. ValidAt([v EXCEPT !.to = from], d) /\ [v EXCEPT !.to = from].entry = v.entry
      BY <1>1, <1>3 DEF ValidAt, Versions
    <2> QED BY <2>1, <2>2 DEF Pieces
  <1>4. CASE to <= d /\ v.from < to
    <2>1. [v EXCEPT !.from = to] \in CutAfter(h, to)
      BY <1>1, <1>4 DEF CutAfter, ValidAt, Versions
    <2>2. ValidAt([v EXCEPT !.from = to], d) /\ [v EXCEPT !.from = to].entry = v.entry
      BY <1>1, <1>4 DEF ValidAt, Versions
    <2> QED BY <2>1, <2>2 DEF Pieces
  <1> QED BY <1>1, <1>2, <1>3, <1>4 DEF Versions

-----------------------------------------------------------------------------

(* No two pieces speak of the same date: normalizeTimeline has no reason to *)
(* reject the history (symbol-master-version.ts:59).                        *)
LEMMA PiecesDoNotOverlap ==
    ASSUME NEW Known, NEW End \in Nat, NEW h, IsHistory(Known, End, h),
           NEW from \in Nat, NEW to \in 0 .. End, from < to,
           NEW entry \in Known \cup {Absent}
    PROVE  IsHistory(Known, End, Pieces(h, from, to, entry))
  <1> DEFINE pieces == Pieces(h, from, to, entry)
  <1>1. ASSUME NEW p \in pieces, NEW q \in pieces, NEW d \in Nat, ValidAt(p, d), ValidAt(q, d)
        PROVE  p = q
    <2>1. CASE from <= d /\ d < to
      BY <1>1, <2>1, PieceSays
    <2>2. CASE ~ (from <= d /\ d < to)
      <3>1. PICK v \in h :
               /\ ValidAt(v, d) /\ v.entry = p.entry
               /\ d < from => p.from = v.from /\ p.to = (IF v.to <= from THEN v.to ELSE from)
               /\ to <= d => p.to = v.to /\ p.from = (IF v.from >= to THEN v.from ELSE to)
        BY <1>1, <2>2, PieceSays
      <3>2. PICK w \in h :
               /\ ValidAt(w, d) /\ w.entry = q.entry
               /\ d < from => q.from = w.from /\ q.to = (IF w.to <= from THEN w.to ELSE from)
               /\ to <= d => q.to = w.to /\ q.from = (IF w.from >= to THEN w.from ELSE to)
        BY <1>1, <2>2, PieceSays
      <3>3. v = w
        BY <3>1, <3>2 DEF IsHistory
      <3>4. p.from = q.from /\ p.to = q.to /\ p.entry = q.entry
        BY <2>2, <3>1, <3>2, <3>3
      <3>5. p \in Versions(Known) /\ q \in Versions(Known)
        BY PiecesAreVersions
      <3> QED BY <3>4, <3>5 DEF Versions
    <2> QED BY <2>1, <2>2
  <1>2. pieces \subseteq Versions(Known) /\ \A p \in pieces : p.from < p.to /\ p.to <= End
    BY PiecesAreVersions
  <1> QED BY <1>1, <1>2 DEF IsHistory

\* The pieces say of the dates in the interval what the new entry says, and
\* of all others what the history said.
LEMMA PiecesChangeOnlyTheInterval ==
    ASSUME NEW Known, NEW End \in Nat, NEW h, IsHistory(Known, End, h),
           NEW from \in Nat, NEW to \in 0 .. End, from < to,
           NEW entry \in Known \cup {Absent}, NEW d \in Nat
    PROVE  EntryAt(Pieces(h, from, to, entry), d)
              = IF from <= d /\ d < to THEN entry ELSE EntryAt(h, d)
  <1> DEFINE pieces == Pieces(h, from, to, entry)
  <1>1. IsHistory(Known, End, pieces)
    BY PiecesDoNotOverlap
  <1>2. ASSUME NEW g, IsHistory(Known, End, g), NEW v \in g, ValidAt(v, d)
        PROVE  EntryAt(g, d) = v.entry
    BY <1>2 DEF EntryAt, IsHistory
  <1>3. CASE from <= d /\ d < to
    <2>1. CASE entry = Absent
      <3>1. ~ \E p \in pieces : ValidAt(p, d)
        BY <1>3, <2>1, PieceSays
      <3> QED BY <1>3, <2>1, <3>1 DEF EntryAt
    <2>2. CASE entry # Absent
      <3>1. Version(from, to, entry) \in pieces
        BY <2>2 DEF Pieces
      <3>2. ValidAt(Version(from, to, entry), d) /\ Version(from, to, entry).entry = entry
        BY <1>3 DEF Version, ValidAt
      <3> QED BY <1>1, <1>2, <1>3, <3>1, <3>2
    <2> QED BY <2>1, <2>2
  <1>4. CASE ~ (from <= d /\ d < to)
    <2>1. CASE \E v \in h : ValidAt(v, d)
      <3>1. PICK v \in h : ValidAt(v, d)
        BY <2>1
      <3>2. PICK p \in pieces : ValidAt(p, d) /\ p.entry = v.entry
        BY <1>4, <3>1, PieceFor
      <3>3. EntryAt(pieces, d) = p.entry /\ EntryAt(h, d) = v.entry
        BY <1>1, <1>2, <3>1, <3>2
      <3> QED BY <1>4, <3>2, <3>3
    <2>2. CASE ~ \E v \in h : ValidAt(v, d)
      <3>1. ~ \E p \in pieces : ValidAt(p, d)
        BY <1>4, <2>2, PieceSays
      <3> QED BY <1>4, <2>2, <3>1 DEF EntryAt
    <2> QED BY <2>1, <2>2
  <1> QED BY <1>3, <1>4

\* A joined version speaks of a date only if a piece of the same entry does.
LEMMA PieceBehind ==
    ASSUME NEW Known, NEW End \in Nat, NEW pieces, IsHistory(Known, End, pieces), NEW d \in Nat,
           NEW n \in Normalize(pieces), ValidAt(n, d)
    PROVE  \E x \in pieces : ValidAt(x, d) /\ x.entry = n.entry
  <1>1. PICK v \in pieces, w \in pieces :
           /\ n = Version(v.from, w.to, v.entry)
           /\ \A e \in v.from .. w.to - 1 : \E x \in pieces : ValidAt(x, e) /\ x.entry = v.entry
    BY DEF Normalize, Leads
  <1>2. v \in Versions(Known) /\ w \in Versions(Known)
    BY DEF IsHistory
  <1>3. d \in v.from .. w.to - 1
    BY <1>1, <1>2 DEF ValidAt, Version, Versions
  <1> QED BY <1>1, <1>3 DEF Version

(* normalizeTimeline invents nothing: what a joined version says of a date, *)
(* the pieces say of it.                                                    *)
LEMMA NormalizeInventsNothing ==
    ASSUME NEW Known, NEW End \in Nat, NEW pieces, IsHistory(Known, End, pieces), NEW d \in Nat,
           NEW n \in Normalize(pieces), ValidAt(n, d)
    PROVE  n.entry = EntryAt(pieces, d)
  <1>1. PICK x \in pieces : ValidAt(x, d) /\ x.entry = n.entry
    BY PieceBehind
  <1> QED BY <1>1 DEF EntryAt, IsHistory

-----------------------------------------------------------------------------

\* A set of dates has a first one, and below a bound a last one.
LEMMA LeastDate ==
    ASSUME NEW T, T \subseteq Nat, T # {}
    PROVE  \E x \in T : \A y \in T : x <= y
  <1>1. \E R : IsWellFoundedOn(R, Nat) /\ \A x, y \in Nat : y < x => <<y, x>> \in R
    <2>1. \A x, y \in Nat : y < x => <<y, x>> \in OpToRel(<, Nat)
      BY DEF OpToRel
    <2> QED BY <2>1, NatLessThanWellFounded
  <1>2. PICK R : IsWellFoundedOn(R, Nat) /\ \A x, y \in Nat : y < x => <<y, x>> \in R
    BY <1>1
  <1>3. PICK x \in T : \A y \in T : ~ (<<y, x>> \in R)
    BY <1>2, WFMin
  <1>4. ASSUME NEW y \in T
        PROVE  x <= y
    <2>1. x \in Nat /\ y \in Nat
      OBVIOUS
    <2>2. ~ (y < x)
      BY <1>2, <1>3, <2>1, Zenon
    <2> QED BY <2>1, <2>2
  <1> QED BY <1>4

\* The last of the dates up to a bound, counted backwards from it.
LEMMA GreatestDate ==
    ASSUME NEW T, NEW bound \in Nat, T \subseteq 0 .. bound, T # {}
    PROVE  \E x \in T : \A y \in T : y <= x
  <1> DEFINE back == {bound - t : t \in T}
  <1>1. PICK b \in back : \A c \in back : b <= c
    <2>1. back \subseteq Nat
      OBVIOUS
    <2>2. back # {}
      OBVIOUS
    <2> HIDE DEF back
    <2> QED BY <2>1, <2>2, LeastDate
  <1>2. PICK x \in T : b = bound - x
    BY <1>1
  <1>3. ASSUME NEW y \in T PROVE y <= x
    <2>1. b <= bound - y
      BY <1>1
    <2> QED BY <2>1, <1>2
  <1> QED BY <1>3

(* normalizeTimeline loses nothing: where a piece speaks of a date, so does  *)
(* a joined version, which goes from the first piece that leads to it over   *)
(* pieces of the same entry to the last one.                                 *)
LEMMA NormalizeLosesNothing ==
    ASSUME NEW Known, NEW End \in Nat, NEW pieces, IsHistory(Known, End, pieces), NEW d \in Nat,
           NEW p \in pieces, ValidAt(p, d)
    PROVE  \E n \in Normalize(pieces) : ValidAt(n, d)
  <1> DEFINE says(e) == \E x \in pieces : ValidAt(x, e) /\ x.entry = p.entry
             firsts == {u \in Nat : /\ u <= d /\ \A e \in u .. d : says(e)
                                    /\ \E v \in pieces : v.from = u /\ v.entry = p.entry}
             lasts == {u \in 0 .. End : /\ d < u /\ \A e \in d .. u - 1 : says(e)
                                        /\ \E w \in pieces : w.to = u /\ w.entry = p.entry}
  <1>1. \A x \in pieces : /\ x.from \in Nat /\ x.to \in Nat /\ x.from < x.to /\ x.to <= End
    BY DEF IsHistory, Versions
  <1>2. \A x \in pieces, e \in Nat :
           x.entry = p.entry /\ x.from <= e /\ e < x.to => says(e)
    BY DEF ValidAt
  <1>3. p.from <= d /\ d < p.to
    BY DEF ValidAt
  <1> HIDE DEF says
  <1>4. p.from \in firsts
    BY <1>1, <1>2, <1>3
  <1>5. p.to \in lasts
    BY <1>1, <1>2, <1>3
  <1>6. PICK first \in firsts : \A u \in firsts : first <= u
    BY <1>4, LeastDate
  <1>7. PICK last \in lasts : \A u \in lasts : u <= last
    BY <1>5, GreatestDate
  <1>8. PICK v \in pieces : v.from = first /\ v.entry = p.entry
    BY <1>6
  <1>9. PICK w \in pieces : w.to = last /\ w.entry = p.entry
    BY <1>7
  <1>10. /\ v.from <= d /\ d < w.to
         /\ \A e \in v.from .. w.to - 1 : says(e)
    <2>1. ASSUME NEW e \in v.from .. w.to - 1
          PROVE  says(e)
      BY <1>1, <1>6, <1>7, <1>8, <1>9
    <2> QED BY <2>1, <1>6, <1>7, <1>8, <1>9
  <1>11. v.from <= w.from
    <2>1. CASE w.from < v.from
      <3>1. ValidAt(v, v.from) /\ ValidAt(w, v.from)
        BY <1>1, <1>10, <2>1 DEF ValidAt
      <3>2. v = w
        BY <1>1, <3>1 DEF IsHistory
      <3> QED BY <1>1, <2>1, <3>2
    <2> QED BY <1>1, <2>1
  <1>12. ASSUME NEW x \in pieces, Same(x, v)
         PROVE  FALSE
    <2>1. x.to = v.from /\ x.entry = p.entry
      BY <1>8, <1>12 DEF Same
    <2>2. \A e \in x.from .. d : says(e)
      BY <1>1, <1>2, <1>6, <1>8, <2>1
    <2>3. x.from \in firsts
      BY <1>1, <1>10, <2>1, <2>2
    <2> QED BY <1>1, <1>6, <1>8, <2>1, <2>3
  <1>13. ASSUME NEW x \in pieces, Same(w, x)
         PROVE  FALSE
    <2>1. x.from = w.to /\ x.entry = p.entry
      BY <1>9, <1>13 DEF Same
    <2>2. \A e \in d .. x.to - 1 : says(e)
      BY <1>1, <1>2, <1>7, <1>9, <2>1
    <2>3. x.to \in lasts
      BY <1>1, <1>10, <2>1, <2>2
    <2> QED BY <1>1, <1>7, <1>9, <2>1, <2>3
  <1>14. Leads(pieces, v, w)
    BY <1>8, <1>9, <1>10, <1>11 DEF Leads, says
  <1>15. Version(v.from, w.to, v.entry) \in Normalize(pieces)
    <2> DEFINE e == <<v, w>>
    <2>1. e \in pieces \X pieces /\ e[1] = v /\ e[2] = w
      OBVIOUS
    <2> HIDE DEF e
    <2>2. \A x \in pieces : ~ (Same(x, e[1]) \/ Same(e[2], x))
      BY <1>12, <1>13, <2>1
    <2>3. Leads(pieces, e[1], e[2])
      BY <1>14, <2>1
    <2>4. Version(e[1].from, e[2].to, e[1].entry) \in Normalize(pieces)
      BY <2>1, <2>2, <2>3 DEF Normalize
    <2> QED BY <2>1, <2>4
  <1>16. ValidAt(Version(v.from, w.to, v.entry), d)
    BY <1>10 DEF ValidAt, Version
  <1> QED BY <1>15, <1>16

(* Joining the versions that touch and say the same changes nothing of what *)
(* a history says.                                                          *)
THEOREM NormalizeSaysTheSame ==
    ASSUME NEW Known, NEW End \in Nat, NEW pieces, IsHistory(Known, End, pieces), NEW d \in Nat
    PROVE  EntryAt(Normalize(pieces), d) = EntryAt(pieces, d)
  <1>1. CASE \E p \in pieces : ValidAt(p, d)
    <2>1. \E n \in Normalize(pieces) : ValidAt(n, d)
      BY <1>1, NormalizeLosesNothing
    <2>2. \A n \in Normalize(pieces) : ValidAt(n, d) => n.entry = EntryAt(pieces, d)
      BY NormalizeInventsNothing
    <2> QED BY <2>1, <2>2 DEF EntryAt
  <1>2. CASE ~ \E p \in pieces : ValidAt(p, d)
    <2>1. ~ \E n \in Normalize(pieces) : ValidAt(n, d)
      BY <1>2, PieceBehind
    <2> QED BY <1>2, <2>1 DEF EntryAt
  <1> QED BY <1>1, <1>2

(* overlayVersionTimeline changes what is said of [from, to) and of nothing *)
(* else: filling a gap between collected dates leaves the earlier and the   *)
(* later ones as they were observed.                                        *)
THEOREM OverlayChangesOnlyTheInterval ==
    ASSUME NEW Known, NEW End \in Nat, NEW h, IsHistory(Known, End, h),
           NEW from \in Nat, NEW to \in 0 .. End, from < to,
           NEW entry \in Known \cup {Absent}, NEW d \in Nat
    PROVE  EntryAt(Overlay(h, from, to, entry), d)
              = IF from <= d /\ d < to THEN entry ELSE EntryAt(h, d)
  <1>1. IsHistory(Known, End, Pieces(h, from, to, entry))
    BY PiecesDoNotOverlap
  <1>2. EntryAt(Overlay(h, from, to, entry), d) = EntryAt(Pieces(h, from, to, entry), d)
    BY <1>1, NormalizeSaysTheSame DEF Overlay
  <1> QED BY <1>2, PiecesChangeOnlyTheInterval
-----------------------------------------------------------------------------

\* A joined version goes from the first of its pieces to the last one.
LEMMA JoinedVersion ==
    ASSUME NEW Known, NEW End \in Nat, NEW pieces, IsHistory(Known, End, pieces),
           NEW n \in Normalize(pieces)
    PROVE  \E v \in pieces, w \in pieces :
              /\ n = Version(v.from, w.to, v.entry) /\ v.entry = w.entry
              /\ v.from <= w.from
              /\ \A e \in v.from .. w.to - 1 :
                    \E x \in pieces : ValidAt(x, e) /\ x.entry = v.entry
              /\ ~ \E x \in pieces : x.to = v.from /\ x.entry = v.entry
              /\ ~ \E x \in pieces : x.from = w.to /\ x.entry = v.entry
  <1>1. PICK e \in pieces \X pieces :
           /\ n = Version(e[1].from, e[2].to, e[1].entry)
           /\ Leads(pieces, e[1], e[2])
           /\ ~ \E x \in pieces : Same(x, e[1]) \/ Same(e[2], x)
    BY DEF Normalize
  <1>2. e[1] \in pieces /\ e[2] \in pieces
    BY <1>1
  <1> QED BY <1>1, <1>2 DEF Leads, Same

\* Of two joined versions of a date neither begins nor ends before the other.
LEMMA JoinedVersionsAgree ==
    ASSUME NEW Known, NEW End \in Nat, NEW pieces, IsHistory(Known, End, pieces), NEW d \in Nat,
           NEW m \in Normalize(pieces), NEW n \in Normalize(pieces),
           ValidAt(m, d), ValidAt(n, d)
    PROVE  ~ (m.from < n.from) /\ ~ (m.to < n.to)
  <1>1. PICK v \in pieces, w \in pieces :
           /\ m = Version(v.from, w.to, v.entry)
           /\ \A e \in v.from .. w.to - 1 :
                 \E x \in pieces : ValidAt(x, e) /\ x.entry = v.entry
           /\ ~ \E x \in pieces : x.from = w.to /\ x.entry = v.entry
    BY JoinedVersion
  <1>2. PICK a \in pieces, b \in pieces :
           /\ n = Version(a.from, b.to, a.entry)
           /\ \A e \in a.from .. b.to - 1 :
                 \E x \in pieces : ValidAt(x, e) /\ x.entry = a.entry
           /\ ~ \E x \in pieces : x.to = a.from /\ x.entry = a.entry
    BY JoinedVersion
  <1>3. \A x \in pieces : /\ x.from \in Nat /\ x.to \in Nat /\ x.from < x.to
    BY DEF IsHistory, Versions
  <1>4. m.entry = n.entry
    BY NormalizeInventsNothing
  <1>5. /\ v.from <= d /\ d < w.to /\ a.from <= d /\ d < b.to
        /\ v.entry = a.entry
        /\ m.from = v.from /\ m.to = w.to /\ n.from = a.from /\ n.to = b.to
    BY <1>1, <1>2, <1>4 DEF Version, ValidAt
  <1>6. ASSUME v.from < a.from
        PROVE  FALSE
    <2>1. a.from - 1 \in v.from .. w.to - 1 /\ a.from - 1 \in Nat
      BY <1>3, <1>5, <1>6
    <2>2. PICK x \in pieces : ValidAt(x, a.from - 1) /\ x.entry = v.entry
      BY <1>1, <2>1
    <2>3. x.from < a.from /\ a.from <= x.to
      BY <1>3, <2>1, <2>2 DEF ValidAt
    <2>4. CASE x.to = a.from
      BY <1>2, <1>5, <2>2, <2>4
    <2>5. CASE a.from < x.to
      <3>1. ValidAt(x, a.from) /\ ValidAt(a, a.from)
        BY <1>3, <2>3, <2>5 DEF ValidAt
      <3>2. x = a
        BY <1>3, <3>1 DEF IsHistory
      <3> QED BY <1>3, <2>3, <3>2
    <2> QED BY <1>3, <2>3, <2>4, <2>5
  <1>7. ASSUME w.to < b.to
        PROVE  FALSE
    <2>1. w.to \in a.from .. b.to - 1 /\ w.to - 1 \in Nat
      BY <1>3, <1>5, <1>7
    <2>2. PICK x \in pieces : ValidAt(x, w.to) /\ x.entry = a.entry
      BY <1>2, <2>1
    <2>3. x.from <= w.to /\ w.to < x.to
      BY <2>2 DEF ValidAt
    <2>4. CASE x.from = w.to
      BY <1>1, <1>5, <2>2, <2>4
    <2>5. CASE x.from < w.to
      <3>1. ValidAt(x, w.to - 1) /\ ValidAt(w, w.to - 1)
        BY <1>3, <2>3, <2>5 DEF ValidAt
      <3>2. x = w
        BY <2>1, <3>1 DEF IsHistory
      <3> QED BY <1>3, <2>3, <3>2
    <2> QED BY <1>3, <2>3, <2>4, <2>5
  <1> QED BY <1>5, <1>6, <1>7

(* An overlay makes a history again: the versions of a code never overlap,  *)
(* and normalizeTimeline never has to reject one (symbol-master-version.ts: *)
(* 59), whatever dates are overlaid in whatever order.                      *)
THEOREM OverlayIsHistory ==
    ASSUME NEW Known, NEW End \in Nat, NEW h, IsHistory(Known, End, h),
           NEW from \in Nat, NEW to \in 0 .. End, from < to,
           NEW entry \in Known \cup {Absent}
    PROVE  IsHistory(Known, End, Overlay(h, from, to, entry))
  <1> DEFINE pieces == Pieces(h, from, to, entry)
             joined == Normalize(pieces)
  <1>1. IsHistory(Known, End, pieces)
    BY PiecesDoNotOverlap
  <1> HIDE DEF pieces
  <1>2. ASSUME NEW n \in joined
        PROVE  n \in Versions(Known) /\ n.from < n.to /\ n.to <= End
    <2>1. PICK v \in pieces, w \in pieces :
             n = Version(v.from, w.to, v.entry) /\ v.from <= w.from
      BY <1>1, <1>2, JoinedVersion
    <2>2. /\ v \in Versions(Known) /\ w \in Versions(Known)
          /\ w.from < w.to /\ w.to <= End
      BY <1>1 DEF IsHistory
    <2> QED BY <2>1, <2>2 DEF Version, Versions
  <1>3. ASSUME NEW m \in joined, NEW n \in joined, NEW d \in Nat, ValidAt(m, d), ValidAt(n, d)
        PROVE  m = n
    <2>1. m \in Versions(Known) /\ n \in Versions(Known)
      BY <1>2, <1>3
    <2>2. /\ ~ (m.from < n.from) /\ ~ (m.to < n.to)
          /\ ~ (n.from < m.from) /\ ~ (n.to < m.to)
      BY <1>1, <1>3, JoinedVersionsAgree
    <2>3. m.entry = n.entry
      BY <1>1, <1>3, NormalizeInventsNothing
    <2>4. m.from = n.from /\ m.to = n.to
      BY <2>1, <2>2 DEF Versions
    <2> QED BY <2>1, <2>3, <2>4 DEF Versions
  <1>4. Absent \notin Known
    BY DEF IsHistory
  <1> HIDE DEF joined
  <1>5. IsHistory(Known, End, joined)
    BY <1>2, <1>3, <1>4 DEF IsHistory
  <1> QED BY <1>5 DEF Overlay, joined, pieces

-----------------------------------------------------------------------------
(* The inductive invariant of the collection.                               *)

\* What the answers of a date, said, allow the master to know of a security.
Allowed(said, known) ==
    CASE said \in Ids -> known = Entry(said, FALSE)
      [] said = TradeOnly -> known = Absent \/ known.missing
      [] OTHER -> known = Absent

TypesInv ==
    /\ history \in Histories
    /\ posted \in [Days -> SUBSET {Markets[i] : i \in 1 .. NumMarkets}]
    /\ stored \in [Days -> Nat]
    /\ ingest \in [Days -> 0 .. 2 * NumMarkets]
    /\ covered \subseteq Days /\ tradingDays \subseteq covered

\* The answers that are stored are final, and the collection of a date has
\* got past the trades of the markets only if there was trading.
AnswersInv ==
    \A d \in Days :
        /\ \A k \in Requests : k <= stored[d] => IsFinal(d, k)
        /\ ingest[d] <= stored[d] + 1
        /\ ingest[d] > NumMarkets => d \notin Closed

\* The trading days are the covered days on which the exchange was open.
DaysInv == covered \ tradingDays \subseteq Closed /\ tradingDays \cap Closed = {}

\* The versions of a security are a history, which changes on trading days
\* only, and says of each of these what the answers of the day allow.
Boundaries(h) == {v.from : v \in h} \cup {v.to : v \in h}

HistoryInv(c) ==
    /\ IsHistory(Entries, Forever, versions[c])
    /\ Boundaries(versions[c]) \subseteq tradingDays \cup {Forever}
    /\ \A t \in tradingDays : Allowed(history[t][c], EntryAt(versions[c], t))

VersionsInv ==
    /\ versions \in [Codes -> SUBSET Versions(Entries)]
    /\ \A c \in Codes : HistoryInv(c)

CollectionInv == TypesInv /\ AnswersInv /\ DaysInv /\ VersionsInv

-----------------------------------------------------------------------------

\* A set of dates has a least, and below a bound a greatest member.
LEMMA MinOfDates ==
    ASSUME NEW T, T \subseteq Nat, T # {}
    PROVE  Min(T) \in T /\ \A y \in T : Min(T) <= y
  <1>1. \E x \in T : \A y \in T : x =< y
    BY LeastDate
  <1> QED BY <1>1 DEF Min

LEMMA MaxOfDates ==
    ASSUME NEW T, NEW bound \in Nat, T \subseteq 0 .. bound, T # {}
    PROVE  Max(T) \in T /\ \A y \in T : y <= Max(T)
  <1>1. PICK x \in T : \A y \in T : y <= x
    BY GreatestDate
  <1>2. \A y \in T : x >= y
    BY <1>1
  <1>3. Max(T) \in T /\ \A y \in T : Max(T) >= y
    BY <1>2, Zenon DEF Max
  <1> QED BY <1>3

LEMMA DaysAreDates ==
    /\ Days \subseteq Nat /\ Forever \in Nat /\ LastDay \in Nat
    /\ \A d \in Days : 1 <= d /\ d < Forever /\ d <= LastDay
  BY DaysAssumption DEF Days, Forever

\* An overlay makes no version that begins or ends on a date on which none
\* did, but for those of its interval.
LEMMA OverlayBoundaries ==
    ASSUME NEW Known, NEW End \in Nat, NEW h, IsHistory(Known, End, h),
           NEW from \in Nat, NEW to \in 0 .. End, from < to,
           NEW entry \in Known \cup {Absent}
    PROVE  Boundaries(Overlay(h, from, to, entry)) \subseteq Boundaries(h) \cup {from, to}
  <1> DEFINE pieces == Pieces(h, from, to, entry)
  <1>1. ASSUME NEW p \in pieces
        PROVE  p.from \in Boundaries(h) \cup {from, to} /\ p.to \in Boundaries(h) \cup {from, to}
    <2>1. CASE p \in Untouched(h, from, to)
      BY <2>1 DEF Untouched, Boundaries
    <2>2. CASE p \in CutBefore(h, from)
      <3>1. PICK v \in h : p = [v EXCEPT !.to = from]
        BY <2>2 DEF CutBefore
      <3>2. v \in Versions(Known)
        BY DEF IsHistory
      <3>3. p.from = v.from /\ p.to = from
        BY <3>1, <3>2 DEF Versions
      <3> QED BY <3>3 DEF Boundaries
    <2>3. CASE p \in CutAfter(h, to)
      <3>1. PICK v \in h : p = [v EXCEPT !.from = to]
        BY <2>3 DEF CutAfter
      <3>2. v \in Versions(Known)
        BY DEF IsHistory
      <3>3. p.from = to /\ p.to = v.to
        BY <3>1, <3>2 DEF Versions
      <3> QED BY <3>3 DEF Boundaries
    <2>4. CASE p = Version(from, to, entry)
      BY <2>4 DEF Version
    <2> QED BY <1>1, <2>1, <2>2, <2>3, <2>4 DEF Pieces
  <1>2. IsHistory(Known, End, pieces)
    BY PiecesDoNotOverlap
  <1>3. Overlay(h, from, to, entry) = Normalize(pieces)
    BY DEF Overlay
  <1> HIDE DEF pieces
  <1>4. ASSUME NEW n \in Normalize(pieces)
        PROVE  n.from \in Boundaries(h) \cup {from, to} /\ n.to \in Boundaries(h) \cup {from, to}
    <2>1. PICK v \in pieces, w \in pieces : n = Version(v.from, w.to, v.entry)
      BY <1>2, JoinedVersion
    <2>2. n.from = v.from /\ n.to = w.to
      BY <2>1 DEF Version
    <2> QED BY <1>1, <2>2
  <1>5. \A x \in Boundaries(Normalize(pieces)) : \E n \in Normalize(pieces) : x = n.from \/ x = n.to
    BY DEF Boundaries
  <1> QED BY <1>3, <1>4, <1>5

\* The next observation is the next trading day, if there is one.
LEMMA NextObservationIsNext ==
    ASSUME TypesInv, VersionsInv, NEW d \in Days
    PROVE  /\ NextObservation(d) \in tradingDays \cup {Forever}
           /\ NextObservation(d) \in 0 .. Forever /\ d < NextObservation(d)
           /\ \A t \in tradingDays : d < t => NextObservation(d) <= t
  <1> DEFINE boundaries == UNION {{v.from, v.to} : v \in UNION {versions[c] : c \in Codes}}
             later == {Forever} \cup {t \in tradingDays \cup boundaries : t > d}
  <1>1. boundaries \subseteq tradingDays \cup {Forever}
    <2>1. ASSUME NEW c \in Codes, NEW v \in versions[c]
          PROVE  {v.from, v.to} \subseteq tradingDays \cup {Forever}
      BY <2>1 DEF VersionsInv, HistoryInv, Boundaries
    <2>2. UNION {versions[c] : c \in Codes} = {v \in UNION {versions[c] : c \in Codes} : \E c \in Codes : v \in versions[c]}
      OBVIOUS
    <2> QED BY <2>1
  <1>2. tradingDays \subseteq Days
    BY DEF TypesInv
  <1> HIDE DEF boundaries
  <1>3. later \subseteq Nat /\ later # {}
    BY <1>1, <1>2, DaysAreDates
  <1>4. NextObservation(d) = Min(later)
    BY DEF NextObservation, later, boundaries
  <1>5. Min(later) \in later /\ \A y \in later : Min(later) <= y
    BY <1>3, MinOfDates
  <1>6. later \subseteq tradingDays \cup {Forever} /\ \A y \in later : d < y
    BY <1>1, <1>2, DaysAreDates
  <1>7. \A t \in tradingDays : d < t => t \in later
    BY <1>2, DaysAreDates
  <1> HIDE DEF later
  <1>8. \A y \in tradingDays \cup {Forever} : y \in 0 .. Forever
    BY <1>2, DaysAreDates
  <1> QED BY <1>4, <1>5, <1>6, <1>7, <1>8

-----------------------------------------------------------------------------
(* A trading day is written.                                                *)

LEMMA EntryAtIsEntry ==
    ASSUME NEW Known, NEW End, NEW h, IsHistory(Known, End, h), NEW d
    PROVE  EntryAt(h, d) \in Known \cup {Absent}
  <1>1. \A v \in h : v.entry \in Known
    BY DEF IsHistory, Versions
  <1> QED BY <1>1 DEF EntryAt

\* What is stored of a security is an entry that the answers of the day allow.
LEMMA FetchedIsAllowed ==
    ASSUME TypesInv, VersionsInv, NEW d \in Days, NEW c \in Codes
    PROVE  /\ Fetched(d)[c] \in Entries \cup {Absent}
           /\ Allowed(history[d][c], Fetched(d)[c])
  <1> DEFINE said == history[d][c]
             modelled == EntryAt(versions[c], d)
  <1>1. modelled \in Entries \cup {Absent}
    BY EntryAtIsEntry DEF VersionsInv, HistoryInv
  <1>2. Fetched(d)[c] = CASE said \in Ids -> Entry(said, FALSE)
                          [] said = TradeOnly /\ modelled # Absent -> Entry(modelled.id, TRUE)
                          [] OTHER -> Absent
    BY DEF Fetched
  <1> HIDE DEF said, modelled
  <1>3. CASE said \in Ids
    <2>1. Fetched(d)[c] = Entry(said, FALSE)
      BY <1>2, <1>3, AnswersAssumption
    <2> QED BY <1>3, <2>1, AnswersAssumption DEF Entry, Entries, Allowed, said
  <1>4. CASE said \notin Ids /\ said = TradeOnly /\ modelled # Absent
    <2>1. Fetched(d)[c] = Entry(modelled.id, TRUE)
      BY <1>2, <1>4
    <2>2. modelled.id \in Ids
      BY <1>1, <1>4 DEF Entries
    <2>3. Entry(modelled.id, TRUE) \in Entries /\ Entry(modelled.id, TRUE).missing
      BY <2>2 DEF Entry, Entries
    <2> QED BY <1>4, <2>1, <2>3 DEF Allowed, said
  <1>5. CASE said \notin Ids /\ ~ (said = TradeOnly /\ modelled # Absent)
    <2>1. Fetched(d)[c] = Absent
      BY <1>2, <1>5
    <2> QED BY <1>5, <2>1 DEF Allowed, said
  <1> QED BY <1>3, <1>4, <1>5

\* The histories with the day in them: the entry of the day is the one that
\* was fetched, and no other trading day has a different one than before.
LEMMA OverlaidHistories ==
    ASSUME TypesInv, VersionsInv, NEW d \in Days, NEW c \in Codes,
           NEW next, next = NextObservation(d), NEW fetched, fetched = Fetched(d)
    PROVE  LET written == OverlaidVersions(d, next, fetched)[c]
           IN  /\ IsHistory(Entries, Forever, written)
               /\ Boundaries(written) \subseteq tradingDays \cup {d, Forever}
               /\ EntryAt(written, d) = fetched[c]
               /\ \A t \in Nat : t < d \/ next <= t => EntryAt(written, t) = EntryAt(versions[c], t)
  <1> DEFINE written == OverlaidVersions(d, next, fetched)[c]
  <1>1. /\ IsHistory(Entries, Forever, versions[c])
        /\ Boundaries(versions[c]) \subseteq tradingDays \cup {Forever}
    BY DEF VersionsInv, HistoryInv
  <1>2. /\ next \in tradingDays \cup {Forever} /\ next \in 0 .. Forever /\ d < next
        /\ d \in Nat /\ Forever \in Nat
    BY NextObservationIsNext, DaysAreDates
  <1>3. fetched[c] \in Entries \cup {Absent}
    BY FetchedIsAllowed
  <1>4. written = IF fetched[c] = EntryAt(versions[c], d) THEN versions[c]
                  ELSE Overlay(versions[c], d, next, fetched[c])
    BY DEF OverlaidVersions
  <1> HIDE DEF written
  <1>5. CASE fetched[c] = EntryAt(versions[c], d)
    BY <1>1, <1>4, <1>5 DEF written
  <1>6. CASE fetched[c] # EntryAt(versions[c], d)
    <2>1. written = Overlay(versions[c], d, next, fetched[c])
      BY <1>4, <1>6
    <2>2. IsHistory(Entries, Forever, written)
      BY <1>1, <1>2, <1>3, <2>1, OverlayIsHistory
    <2>3. Boundaries(written) \subseteq Boundaries(versions[c]) \cup {d, next}
      BY <1>1, <1>2, <1>3, <2>1, OverlayBoundaries
    <2>4. ASSUME NEW t \in Nat
          PROVE  EntryAt(written, t) = IF d <= t /\ t < next THEN fetched[c] ELSE EntryAt(versions[c], t)
      BY <1>1, <1>2, <1>3, <2>1, OverlayChangesOnlyTheInterval
    <2>5. EntryAt(written, d) = fetched[c]
      BY <1>2, <2>4
    <2>6. \A t \in Nat : t < d \/ next <= t => EntryAt(written, t) = EntryAt(versions[c], t)
      BY <1>2, <2>4
    <2>7. Boundaries(written) \subseteq tradingDays \cup {d, Forever}
      BY <1>1, <1>2, <2>3
    <2> QED BY <2>2, <2>5, <2>6, <2>7 DEF written
  <1> QED BY <1>5, <1>6

LEMMA PersistTradingDayKeepsInv ==
    ASSUME TypesInv, DaysInv, VersionsInv, NEW d \in Days, d \notin Closed,
           PersistTradingDay(d), history' = history
    PROVE  /\ covered' \subseteq Days /\ tradingDays' \subseteq covered'
           /\ DaysInv' /\ VersionsInv'
  <1> DEFINE next == NextObservation(d)
             fetched == Fetched(d)
             written == OverlaidVersions(d, next, fetched)
  <1>1. CASE UNCHANGED <<versions, covered, tradingDays>>
    BY <1>1 DEF TypesInv, DaysInv, VersionsInv, HistoryInv, Boundaries
  <1>2. CASE /\ versions' = written /\ covered' = covered \cup {d}
             /\ tradingDays' = tradingDays \cup {d}
    <2>1. covered' \subseteq Days /\ tradingDays' \subseteq covered' /\ DaysInv'
      BY <1>2 DEF TypesInv, DaysInv
    <2>2. ASSUME NEW c \in Codes
          PROVE  /\ written[c] \in SUBSET Versions(Entries)
                 /\ HistoryInv(c)'
      <3>1. /\ IsHistory(Entries, Forever, written[c])
            /\ Boundaries(written[c]) \subseteq tradingDays \cup {d, Forever}
            /\ EntryAt(written[c], d) = fetched[c]
            /\ \A t \in Nat : t < d \/ next <= t => EntryAt(written[c], t) = EntryAt(versions[c], t)
        BY OverlaidHistories
      <3> HIDE DEF written, next, fetched
      <3>2. versions'[c] = written[c]
        BY <1>2
      <3>3. Allowed(history[d][c], fetched[c])
        BY FetchedIsAllowed DEF fetched
      <3>4. ASSUME NEW t \in tradingDays'
            PROVE  Allowed(history[t][c], EntryAt(written[c], t))
        <4>1. CASE t = d
          BY <3>1, <3>3, <4>1
        <4>2. CASE t # d
          <5>1. t \in tradingDays /\ t \in Nat /\ d \in Nat
            BY <1>2, <3>4, <4>2, DaysAreDates DEF TypesInv
          <5>2. t < d \/ next <= t
            BY <4>2, <5>1, NextObservationIsNext DEF next
          <5>3. EntryAt(written[c], t) = EntryAt(versions[c], t)
            BY <3>1, <5>1, <5>2
          <5>4. Allowed(history[t][c], EntryAt(versions[c], t))
            BY <5>1 DEF VersionsInv, HistoryInv
          <5> QED BY <5>3, <5>4
        <4> QED BY <4>1, <4>2
      <3>5. IsHistory(Entries, Forever, versions'[c])
        BY <3>1, <3>2
      <3>6. Boundaries(versions'[c]) \subseteq tradingDays' \cup {Forever}
        BY <1>2, <3>1, <3>2
      <3>7. \A t \in tradingDays' : Allowed(history'[t][c], EntryAt(versions'[c], t))
        BY <3>2, <3>4
      <3>8. HistoryInv(c)'
        BY <3>5, <3>6, <3>7 DEF HistoryInv
      <3>9. written[c] \subseteq Versions(Entries)
        BY <3>1 DEF IsHistory
      <3> QED BY <3>8, <3>9
    <2>3. written \in [Codes -> SUBSET Versions(Entries)]
      <3>1. written = [c \in Codes |-> written[c]]
        BY DEF OverlaidVersions
      <3> HIDE DEF written
      <3> QED BY <2>2, <3>1
    <2> HIDE DEF written
    <2>4. VersionsInv'
      BY <1>2, <2>2, <2>3 DEF VersionsInv
    <2> QED BY <2>1, <2>4
  <1> QED BY <1>1, <1>2 DEF PersistTradingDay

-----------------------------------------------------------------------------
(* The steps.                                                               *)

LEMMA NumMarketsIsPositive == NumMarkets \in Nat /\ NumMarkets >= 1
  BY MarketsAssumption DEF NumMarkets

\* Beginning or giving up collections of dates changes nothing of the master.
LEMMA AskingKeepsInv ==
    ASSUME CollectionInv,
           UNCHANGED <<history, posted, stored, versions, covered, tradingDays>>,
           ingest' \in [Days -> 0 .. 2 * NumMarkets],
           \A x \in Days : ingest'[x] \in {ingest[x], 0, 1}
    PROVE  CollectionInv'
  <1>1. TypesInv'
    BY DEF CollectionInv, TypesInv
  <1>2. AnswersInv'
    <2> SUFFICES ASSUME NEW d \in Days
                 PROVE  /\ \A k \in Requests : k <= stored[d] => IsFinal(d, k)
                        /\ ingest'[d] <= stored[d] + 1
                        /\ ingest'[d] > NumMarkets => d \notin Closed
      BY DEF AnswersInv, IsFinal, HasRows, MarketOf, Requests
    <2>1. /\ \A k \in Requests : k <= stored[d] => IsFinal(d, k)
          /\ ingest[d] <= stored[d] + 1
          /\ ingest[d] > NumMarkets => d \notin Closed
      BY DEF CollectionInv, AnswersInv
    <2>2. stored[d] \in Nat /\ ingest'[d] \in {ingest[d], 0, 1}
      BY DEF CollectionInv, TypesInv
    <2> QED BY <2>1, <2>2, NumMarketsIsPositive
  <1>3. DaysInv' /\ VersionsInv'
    BY DEF CollectionInv, DaysInv, VersionsInv, HistoryInv, Boundaries
  <1> QED BY <1>1, <1>2, <1>3 DEF CollectionInv

\* What is final stays so: the exchange takes nothing back.
LEMMA PublishingKeepsInv ==
    ASSUME CollectionInv,
           UNCHANGED <<history, stored, ingest, versions, covered, tradingDays>>,
           posted' \in [Days -> SUBSET {Markets[i] : i \in 1 .. NumMarkets}],
           \A x \in Days : posted[x] \subseteq posted'[x]
    PROVE  CollectionInv'
  <1>1. TypesInv'
    BY DEF CollectionInv, TypesInv
  <1>2. AnswersInv'
    <2>1. ASSUME NEW d \in Days, NEW k \in Requests, IsFinal(d, k)
          PROVE  IsFinal(d, k)'
      BY <2>1 DEF IsFinal, HasRows
    <2> QED BY <2>1 DEF CollectionInv, AnswersInv
  <1>3. DaysInv' /\ VersionsInv'
    BY DEF CollectionInv, DaysInv, VersionsInv, HistoryInv, Boundaries
  <1> QED BY <1>1, <1>2, <1>3 DEF CollectionInv

(* An answer is there: the collection of the date goes on, or is written as *)
(* a holiday or as a trading day, which it then is.                         *)
LEMMA GoingOnKeepsInv ==
    ASSUME CollectionInv, NEW d \in Days, NEW k, k = ingest[d], k # 0,
           GoOn(d, k), UNCHANGED <<history, posted>>,
           stored' \in [Days -> Nat], k <= stored'[d],
           \A x \in Days : /\ stored[x] <= stored'[x]
                           /\ \A j \in Requests : j <= stored'[x] => IsFinal(x, j),
           ingest' = [ingest EXCEPT ![d] = 0] \/ ingest' = [ingest EXCEPT ![d] = k + 1]
    PROVE  CollectionInv'
  <1> USE NumMarketsIsPositive
  <1>1. k \in 1 .. 2 * NumMarkets /\ k \in Requests /\ IsFinal(d, k)
    BY DEF CollectionInv, TypesInv, Requests
  <1>2. CASE PersistHoliday(d) /\ ingest' = [ingest EXCEPT ![d] = 0]
             /\ k = NumMarkets /\ \A i \in 1 .. NumMarkets : ~HasRows(d, i)
    <2>1. d \in Closed
      BY <1>1, <1>2 DEF IsFinal
    <2>2. /\ covered' \subseteq Days /\ tradingDays' \subseteq covered' /\ DaysInv'
      BY <1>2, <2>1 DEF PersistHoliday, CollectionInv, DaysInv, TypesInv
    <2>3. VersionsInv'
      BY <1>2 DEF PersistHoliday, CollectionInv, VersionsInv, HistoryInv, Boundaries
    <2>4. ingest' \in [Days -> 0 .. 2 * NumMarkets] /\ \A x \in Days : ingest'[x] \in {ingest[x], 0}
      BY <1>2 DEF CollectionInv, TypesInv
    <2>5. TypesInv'
      BY <2>2, <2>4 DEF CollectionInv, TypesInv
    <2>6. AnswersInv'
      <3> SUFFICES ASSUME NEW x \in Days
                   PROVE  /\ \A j \in Requests : j <= stored'[x] => IsFinal(x, j)
                          /\ ingest'[x] <= stored'[x] + 1
                          /\ ingest'[x] > NumMarkets => x \notin Closed
        BY DEF AnswersInv, IsFinal, HasRows, MarketOf, Requests
      <3>1. stored[x] \in Nat /\ stored'[x] \in Nat /\ ingest[x] \in Nat
        BY DEF CollectionInv, TypesInv
      <3>2. ingest[x] <= stored[x] + 1 /\ (ingest[x] > NumMarkets => x \notin Closed)
        BY DEF CollectionInv, AnswersInv
      <3> QED BY <2>4, <3>1, <3>2
    <2> QED BY <2>2, <2>3, <2>5, <2>6 DEF CollectionInv
  <1>3. CASE PersistTradingDay(d) /\ ingest' = [ingest EXCEPT ![d] = 0] /\ k = 2 * NumMarkets
    <2>1. d \notin Closed
      <3>1. ingest[d] > NumMarkets
        BY <1>3
      <3> QED BY <3>1 DEF CollectionInv, AnswersInv
    <2>2. /\ covered' \subseteq Days /\ tradingDays' \subseteq covered'
          /\ DaysInv' /\ VersionsInv'
      BY <1>3, <2>1, PersistTradingDayKeepsInv DEF CollectionInv
    <2>4. ingest' \in [Days -> 0 .. 2 * NumMarkets] /\ \A x \in Days : ingest'[x] \in {ingest[x], 0}
      BY <1>3 DEF CollectionInv, TypesInv
    <2>5. TypesInv'
      BY <2>2, <2>4 DEF CollectionInv, TypesInv
    <2>6. AnswersInv'
      <3> SUFFICES ASSUME NEW x \in Days
                   PROVE  /\ \A j \in Requests : j <= stored'[x] => IsFinal(x, j)
                          /\ ingest'[x] <= stored'[x] + 1
                          /\ ingest'[x] > NumMarkets => x \notin Closed
        BY DEF AnswersInv, IsFinal, HasRows, MarketOf, Requests
      <3>1. stored[x] \in Nat /\ stored'[x] \in Nat /\ ingest[x] \in Nat
        BY DEF CollectionInv, TypesInv
      <3>2. ingest[x] <= stored[x] + 1 /\ (ingest[x] > NumMarkets => x \notin Closed)
        BY DEF CollectionInv, AnswersInv
      <3> QED BY <2>4, <3>1, <3>2
    <2> QED BY <2>2, <2>5, <2>6 DEF CollectionInv
  <1>4. CASE /\ ingest' = [ingest EXCEPT ![d] = k + 1]
             /\ UNCHANGED <<versions, covered, tradingDays, caller>>
             /\ ~(k = NumMarkets /\ \A i \in 1 .. NumMarkets : ~HasRows(d, i))
             /\ k # 2 * NumMarkets
    <2>1. ingest' \in [Days -> 0 .. 2 * NumMarkets]
      BY <1>1, <1>4 DEF CollectionInv, TypesInv
    <2>2. TypesInv'
      BY <1>4, <2>1 DEF CollectionInv, TypesInv
    <2>3. DaysInv' /\ VersionsInv'
      BY <1>4 DEF CollectionInv, DaysInv, VersionsInv, HistoryInv, Boundaries
    <2>4. k >= NumMarkets => d \notin Closed
      <3>1. CASE k = NumMarkets
        <4>1. PICK i \in 1 .. NumMarkets : HasRows(d, i)
          BY <1>4, <3>1
        <4> QED BY <4>1 DEF HasRows
      <3>2. CASE k > NumMarkets
        BY <3>2 DEF CollectionInv, AnswersInv
      <3> QED BY <1>1, <3>1, <3>2
    <2>5. AnswersInv'
      <3> SUFFICES ASSUME NEW x \in Days
                   PROVE  /\ \A j \in Requests : j <= stored'[x] => IsFinal(x, j)
                          /\ ingest'[x] <= stored'[x] + 1
                          /\ ingest'[x] > NumMarkets => x \notin Closed
        BY DEF AnswersInv, IsFinal, HasRows, MarketOf, Requests
      <3>1. stored[x] \in Nat /\ stored'[x] \in Nat /\ ingest[x] \in Nat
        BY DEF CollectionInv, TypesInv
      <3>2. ingest[x] <= stored[x] + 1 /\ (ingest[x] > NumMarkets => x \notin Closed)
        BY DEF CollectionInv, AnswersInv
      <3>3. ingest'[x] = IF x = d THEN k + 1 ELSE ingest[x]
        BY <1>4 DEF CollectionInv, TypesInv
      <3> QED BY <1>1, <2>4, <3>1, <3>2, <3>3
    <2> QED BY <2>2, <2>3, <2>5 DEF CollectionInv
  <1> QED BY <1>2, <1>3, <1>4 DEF GoOn

LEMMA IngestKeepsInv ==
    ASSUME CollectionInv, NEW d \in Days, Ingest(d)
    PROVE  CollectionInv'
  <1> DEFINE k == ingest[d]
  <1>1. k \in 0 .. 2 * NumMarkets /\ stored[d] \in Nat /\ stored \in [Days -> Nat]
        /\ ingest \in [Days -> 0 .. 2 * NumMarkets]
    BY DEF CollectionInv, TypesInv
  <1>2. \A x \in Days : /\ \A j \in Requests : j <= stored[x] => IsFinal(x, j)
                        /\ ingest[x] <= stored[x] + 1
    BY DEF CollectionInv, AnswersInv
  <1>3. CASE IngestSaved(d)
    <2>1. /\ k # 0 /\ k <= stored[d] /\ GoOn(d, k) /\ UNCHANGED <<history, posted, stored>>
      BY <1>3 DEF IngestSaved, IsStored, sourceVars
    <2>2. ingest' = [ingest EXCEPT ![d] = 0] \/ ingest' = [ingest EXCEPT ![d] = k + 1]
      BY <2>1 DEF GoOn
    <2>3. stored' \in [Days -> Nat] /\ k <= stored'[d]
          /\ \A x \in Days : /\ stored[x] <= stored'[x]
                             /\ \A j \in Requests : j <= stored'[x] => IsFinal(x, j)
      BY <1>1, <1>2, <2>1
    <2> QED BY <2>1, <2>2, <2>3, GoingOnKeepsInv
  <1>4. CASE IngestAnswer(d)
    <2>1. /\ k # 0 /\ GoOn(d, k) /\ UNCHANGED <<history, posted>>
          /\ ~ (k <= stored[d]) /\ IsFinal(d, k) /\ stored' = [stored EXCEPT ![d] = k]
      BY <1>4 DEF IngestAnswer, Answer, IsStored
    <2>2. ingest' = [ingest EXCEPT ![d] = 0] \/ ingest' = [ingest EXCEPT ![d] = k + 1]
      BY <2>1 DEF GoOn
    <2>3. k = stored[d] + 1
      BY <1>1, <1>2, <2>1, NumMarketsIsPositive
    <2>4. /\ stored' \in [Days -> Nat] /\ stored'[d] = k
          /\ \A x \in Days : x # d => stored'[x] = stored[x]
      BY <1>1, <2>1
    <2>5. ASSUME NEW x \in Days
          PROVE  /\ stored[x] <= stored'[x]
                 /\ \A j \in Requests : j <= stored'[x] => IsFinal(x, j)
      <3>1. CASE x # d
        BY <1>1, <1>2, <2>4, <3>1
      <3>2. CASE x = d
        <4>1. ASSUME NEW j \in Requests, j <= k
              PROVE  IsFinal(d, j)
          <5>1. j \in Nat
            BY NumMarketsIsPositive DEF Requests
          <5>2. j <= stored[d] \/ j = k
            BY <1>1, <2>3, <4>1, <5>1
          <5> QED BY <1>2, <2>1, <5>2
        <4> QED BY <1>1, <2>3, <2>4, <3>2, <4>1
      <3> QED BY <3>1, <3>2
    <2>6. k <= stored'[d]
      BY <1>1, <2>3, <2>4
    <2> QED BY <2>1, <2>2, <2>4, <2>5, <2>6, GoingOnKeepsInv
  <1>5. CASE IngestFails(d) \/ IngestQuota(d) \/ IngestBlocked(d)
    <2>1. /\ UNCHANGED <<history, posted, stored, versions, covered, tradingDays>>
          /\ ingest' = [ingest EXCEPT ![d] = 0]
      BY <1>5 DEF IngestFails, IngestQuota, IngestBlocked, GiveUp, EmptyAnswer, Breakdown,
                  RefusedAttempt, TooManyRequests, sourceVars
    <2>2. /\ ingest' \in [Days -> 0 .. 2 * NumMarkets]
          /\ \A x \in Days : ingest'[x] \in {ingest[x], 0, 1}
      BY <1>1, <2>1, NumMarketsIsPositive
    <2> QED BY <2>1, <2>2, AskingKeepsInv
  <1> QED BY <1>3, <1>4, <1>5 DEF Ingest

LEMMA CollectingBegins ==
    ASSUME TypesInv, NEW d
    PROVE  /\ Collecting(d) \in [Days -> 0 .. 2 * NumMarkets]
           /\ \A x \in Days : Collecting(d)[x] \in {ingest[x], 0, 1}
  <1>1. ingest \in [Days -> 0 .. 2 * NumMarkets]
    BY DEF TypesInv
  <1>2. 0 .. 2 * NumMarkets \subseteq Nat /\ 1 \in 0 .. 2 * NumMarkets
    BY NumMarketsIsPositive
  <1>3. \A x \in Days : [ingest EXCEPT ![d] = 1][x] = IF x = d THEN 1 ELSE ingest[x]
    BY <1>1
  <1>4. [ingest EXCEPT ![d] = 1] \in [Days -> 0 .. 2 * NumMarkets]
    BY <1>1, <1>2
  <1> QED BY <1>1, <1>3, <1>4 DEF Collecting

LEMMA InitEstablishesInv == Init => CollectionInv
  <1> SUFFICES ASSUME Init PROVE CollectionInv
    OBVIOUS
  <1>1. TypesInv
    BY NumMarketsIsPositive DEF Init, SourceInit, MasterInit, TypesInv
  <1>2. AnswersInv
    <2>1. \A d \in Days : stored[d] = 0 /\ ingest[d] = 0
      BY DEF Init, SourceInit, MasterInit
    <2>2. \A k \in Requests : k \in Nat /\ ~ (k <= 0)
      BY NumMarketsIsPositive DEF Requests
    <2> QED BY <2>1, <2>2, NumMarketsIsPositive DEF AnswersInv
  <1>3. DaysInv
    BY DEF Init, MasterInit, DaysInv
  <1>4. VersionsInv
    <2>1. versions = [c \in Codes |-> {}] /\ tradingDays = {}
      BY DEF Init, MasterInit
    <2>2. IsHistory(Entries, Forever, {}) /\ Boundaries({}) = {}
      BY EntriesAssumption DEF IsHistory, Boundaries
    <2> QED BY <2>1, <2>2 DEF VersionsInv, HistoryInv
  <1> QED BY <1>1, <1>2, <1>3, <1>4 DEF CollectionInv

\* The steps of those who ask for dates.
Asks ==
    \/ \E range \in BackfillRanges : StartBackfill(range[1], range[2])
    \/ BackfillStep \/ BackfillStops
    \/ TickResumes \/ TickCollects \/ TickGoesOn \/ TickEnds \/ TickFails
    \/ \E d \in SyncDates : AskForDate(d)
    \/ LookFurtherBack \/ AnswerDate

LEMMA AsksOnlyBegin ==
    ASSUME Asks
    PROVE  /\ UNCHANGED <<history, posted, stored, versions, covered, tradingDays>>
           /\ ingest' = ingest \/ \E d : ingest' = Collecting(d)
  <1>1. ASSUME NEW b, ingest' = CollectedBy(b)
        PROVE  ingest' = ingest \/ \E d : ingest' = Collecting(d)
    BY <1>1 DEF CollectedBy
  <1>2. ASSUME NEW range \in BackfillRanges, StartBackfill(range[1], range[2])
        PROVE  /\ UNCHANGED <<history, posted, stored, versions, covered, tradingDays>>
               /\ ingest' = CollectedBy(backfill')
    BY <1>2 DEF StartBackfill, sourceVars
  <1>3. ASSUME BackfillStep
        PROVE  /\ UNCHANGED <<history, posted, stored, versions, covered, tradingDays>>
               /\ ingest' = ingest \/ \E d : ingest' = Collecting(d)
    BY <1>3 DEF BackfillStep, sourceVars
  <1>4. ASSUME TickResumes \/ TickEnds
        PROVE  /\ UNCHANGED <<history, posted, stored, versions, covered, tradingDays>>
               /\ ingest' = CollectedBy(backfill')
    BY <1>4 DEF TickResumes, TickEnds, sourceVars
  <1>5. ASSUME TickCollects \/ TickGoesOn \/ LookFurtherBack
        PROVE  /\ UNCHANGED <<history, posted, stored, versions, covered, tradingDays>>
               /\ \E d : ingest' = Collecting(d)
    BY <1>5 DEF TickCollects, TickGoesOn, LookFurtherBack, sourceVars
  <1>6. ASSUME NEW d \in SyncDates, AskForDate(d)
        PROVE  /\ UNCHANGED <<history, posted, stored, versions, covered, tradingDays>>
               /\ ingest' = Collecting(d)
    BY <1>6 DEF AskForDate, sourceVars
  <1>7. ASSUME BackfillStops \/ TickFails \/ AnswerDate
        PROVE  UNCHANGED <<history, posted, stored, versions, covered, tradingDays, ingest>>
    BY <1>7 DEF BackfillStops, TickFails, AnswerDate, sourceVars
  <1>8. CASE \E range \in BackfillRanges : StartBackfill(range[1], range[2])
    BY <1>1, <1>2, <1>8
  <1>9. CASE TickResumes \/ TickEnds
    BY <1>1, <1>4, <1>9
  <1>10. CASE \E d \in SyncDates : AskForDate(d)
    BY <1>6, <1>10
  <1>11. CASE BackfillStep \/ TickCollects \/ TickGoesOn \/ LookFurtherBack
    BY <1>3, <1>5, <1>11
  <1>12. CASE BackfillStops \/ TickFails \/ AnswerDate
    BY <1>7, <1>12
  <1> QED BY <1>8, <1>9, <1>10, <1>11, <1>12 DEF Asks

LEMMA EnvironmentKeepsInv ==
    ASSUME CollectionInv, Environment, UNCHANGED masterVars
    PROVE  CollectionInv'
  <1>1. UNCHANGED <<history, stored, ingest, versions, covered, tradingDays>>
    BY DEF Environment, Publish, RetryTime, Midnight, SpendBudget, masterVars
  <1>2. posted \in [Days -> SUBSET {Markets[i] : i \in 1 .. NumMarkets}]
    BY DEF CollectionInv, TypesInv
  <1>3. /\ posted' \in [Days -> SUBSET {Markets[i] : i \in 1 .. NumMarkets}]
        /\ \A x \in Days : posted[x] \subseteq posted'[x]
    <2>1. CASE \E d \in Days, i \in 1 .. NumMarkets : Publish(d, Markets[i])
      <3>1. PICK d \in Days, i \in 1 .. NumMarkets : Publish(d, Markets[i])
        BY <2>1
      <3>2. posted' = [posted EXCEPT ![d] = @ \cup {Markets[i]}]
        BY <3>1 DEF Publish
      <3> QED BY <1>2, <3>2
    <2>2. CASE (\E d \in Days : RetryTime(d)) \/ Midnight \/ SpendBudget
      BY <1>2, <2>2 DEF RetryTime, Midnight, SpendBudget
    <2> QED BY <2>1, <2>2 DEF Environment
  <1> QED BY <1>1, <1>3, PublishingKeepsInv

LEMMA NextKeepsInv == CollectionInv /\ [Next]_vars => CollectionInv'
  <1> SUFFICES ASSUME CollectionInv, [Next]_vars PROVE CollectionInv'
    OBVIOUS
  <1>1. TypesInv /\ ingest \in [Days -> 0 .. 2 * NumMarkets]
    BY DEF CollectionInv, TypesInv
  <1>2. CASE UNCHANGED vars
    <2>1. UNCHANGED <<history, posted, stored, versions, covered, tradingDays, ingest>>
      BY <1>2 DEF vars, sourceVars, masterVars
    <2> QED BY <1>1, <2>1, AskingKeepsInv
  <1>3. CASE Asks
    <2>1. /\ ingest' \in [Days -> 0 .. 2 * NumMarkets]
          /\ \A x \in Days : ingest'[x] \in {ingest[x], 0, 1}
      BY <1>1, <1>3, AsksOnlyBegin, CollectingBegins
    <2>2. UNCHANGED <<history, posted, stored, versions, covered, tradingDays>>
      BY <1>3, AsksOnlyBegin
    <2> QED BY <2>1, <2>2, AskingKeepsInv
  <1>4. CASE \E d \in Days : Ingest(d)
    BY <1>4, IngestKeepsInv
  <1>5. CASE Environment /\ UNCHANGED <<masterVars, tick, backfill, syncDate, starts>>
    BY <1>5, EnvironmentKeepsInv
  <1>6. CASE Restart
    <2>1. /\ UNCHANGED <<history, posted, stored, versions, covered, tradingDays>>
          /\ ingest' = [d \in Days |-> 0]
      BY <1>6 DEF Restart
    <2>2. /\ ingest' \in [Days -> 0 .. 2 * NumMarkets]
          /\ \A x \in Days : ingest'[x] \in {ingest[x], 0, 1}
      BY <2>1, NumMarketsIsPositive
    <2> QED BY <2>1, <2>2, AskingKeepsInv
  <1> QED BY <1>2, <1>3, <1>4, <1>5, <1>6 DEF Next, Asks

(* The inductive invariant: the trading days are the covered days on which  *)
(* the exchange was open, the versions of a security change on trading days *)
(* only, and say of each of them what the answers of that day allow.        *)
THEOREM CollectionIsInvariant == Spec => []CollectionInv
  BY InitEstablishesInv, NextKeepsInv, PTL DEF Spec

-----------------------------------------------------------------------------
(* Universes.                                                               *)

\* The trading day the master names for a date is the last one before it.
LEMMA TradingDateIsTheLast ==
    ASSUME TypesInv, DaysInv, NEW d \in Days, NEW t, t = TradingDateWithinCoverage(d), t # 0
    PROVE  /\ t \in tradingDays /\ t <= d
           /\ \A y \in Days : t < y /\ y <= d => y \in Closed /\ y \notin tradingDays
           /\ t = Max(1 .. d \ Closed)
  <1> DEFINE known == {x \in tradingDays : x <= d /\ x .. d \subseteq covered}
  <1> USE DaysAreDates
  <1>1. tradingDays \subseteq Days /\ covered \subseteq Days /\ d \in Nat
    BY DEF TypesInv
  <1>2. {0} \cup known \subseteq 0 .. d /\ {0} \cup known # {}
    <2>1. ASSUME NEW x \in known PROVE x \in 0 .. d
      <3>1. x \in Nat /\ x <= d
        BY <1>1, <2>1
      <3> QED BY <1>1, <3>1
    <2>2. 0 \in 0 .. d
      BY <1>1
    <2> HIDE DEF known
    <2> QED BY <2>1, <2>2
  <1>3. t = Max({0} \cup known)
    BY DEF TradingDateWithinCoverage
  <1>4. t \in {0} \cup known /\ \A y \in {0} \cup known : y <= t
    BY <1>1, <1>2, <1>3, MaxOfDates
  <1>5. t \in tradingDays /\ t <= d /\ t .. d \subseteq covered
    BY <1>4
  <1>6. ASSUME NEW y \in Days, t < y, y <= d
        PROVE  y \in Closed /\ y \notin tradingDays
    <2>1. y \in t .. d /\ y .. d \subseteq t .. d
      BY <1>1, <1>5, <1>6
    <2>2. y \in covered /\ y .. d \subseteq covered
      BY <1>5, <2>1
    <2>3. y \notin known
      BY <1>1, <1>4, <1>5, <1>6
    <2>4. y \notin tradingDays
      BY <1>6, <2>2, <2>3
    <2> QED BY <2>2, <2>4 DEF DaysInv
  <1>7. t \in 1 .. d \ Closed
    BY <1>1, <1>5 DEF DaysInv
  <1>8. ASSUME NEW y \in 1 .. d \ Closed
        PROVE  y <= t
    <2>1. y \in Days
      BY <1>8 DEF Days
    <2> QED BY <1>1, <1>5, <1>6, <1>8, <2>1
  <1>9. t = Max(1 .. d \ Closed)
    <2> DEFINE open == 1 .. d \ Closed
    <2>1. Max(open) \in open /\ \A y \in open : y <= Max(open)
      <3>1. open \subseteq 0 .. d /\ open # {}
        BY <1>1, <1>7
      <3> HIDE DEF open
      <3> QED BY <1>1, <3>1, MaxOfDates
    <2>2. Max(open) <= t /\ t <= Max(open) /\ t \in Nat /\ Max(open) \in Nat
      BY <1>1, <1>7, <1>8, <2>1
    <2> QED BY <2>2
  <1> QED BY <1>5, <1>6, <1>9

\* Where a history has no boundary, it says the same.
LEMMA NothingChangesBetween ==
    ASSUME NEW Known, NEW End, NEW h, IsHistory(Known, End, h),
           NEW t \in Nat, NEW d \in Nat, t <= d,
           \A b \in Boundaries(h) : ~ (t < b /\ b <= d)
    PROVE  EntryAt(h, t) = EntryAt(h, d)
  <1>1. ASSUME NEW v \in h
        PROVE  ValidAt(v, t) <=> ValidAt(v, d)
    <2>1. v.from \in Nat /\ v.to \in Nat /\ v.from \in Boundaries(h) /\ v.to \in Boundaries(h)
      BY DEF IsHistory, Versions, Boundaries
    <2> QED BY <2>1 DEF ValidAt
  <1>2. \A v, w \in h : ValidAt(v, t) /\ ValidAt(w, t) => v = w
    BY DEF IsHistory
  <1>3. CASE \E v \in h : ValidAt(v, t)
    <2>1. PICK v \in h : ValidAt(v, t)
      BY <1>3
    <2>2. (CHOOSE x \in h : ValidAt(x, t)) = v
      BY <1>2, <2>1
    <2>3. (CHOOSE x \in h : ValidAt(x, d)) = v
      BY <1>1, <1>2, <2>1
    <2> QED BY <1>1, <1>3, <2>2, <2>3 DEF EntryAt
  <1>4. CASE ~ \E v \in h : ValidAt(v, t)
    BY <1>1, <1>4 DEF EntryAt
  <1> QED BY <1>3, <1>4

(* Where the master says that it knows a date, it tells the truth about it  *)
(* (readUniverseAsOfInternal, effectiveTradingDateWithinCoverage), for any  *)
(* number of dates, markets and securities and whatever was collected in    *)
(* whatever order.                                                          *)
THEOREM UniversesAlwaysTrue == Spec => []UniversesAreTrue
  <1>1. CollectionInv => UniversesAreTrue
    <2> SUFFICES ASSUME CollectionInv, NEW d \in Days, NEW t, t = TradingDateWithinCoverage(d),
                        t # 0
                 PROVE  /\ t = Max(1 .. d \ Closed)
                        /\ \A c \in Codes : Allowed(history[t][c], Universe(d)[c])
      BY DEF UniversesAreTrue, Allowed
    <2>1. TypesInv /\ DaysInv /\ VersionsInv
      BY DEF CollectionInv
    <2>2. /\ t \in tradingDays /\ t <= d
          /\ \A y \in Days : t < y /\ y <= d => y \in Closed /\ y \notin tradingDays
          /\ t = Max(1 .. d \ Closed)
      BY <2>1, TradingDateIsTheLast
    <2>3. ASSUME NEW c \in Codes
          PROVE  Allowed(history[t][c], Universe(d)[c])
      <3>1. /\ IsHistory(Entries, Forever, versions[c])
            /\ Boundaries(versions[c]) \subseteq tradingDays \cup {Forever}
            /\ Allowed(history[t][c], EntryAt(versions[c], t))
        BY <2>1, <2>2 DEF VersionsInv, HistoryInv
      <3>2. t \in Nat /\ d \in Nat /\ tradingDays \subseteq Days
        BY <2>1, <2>2, DaysAreDates DEF TypesInv
      <3>3. \A b \in Boundaries(versions[c]) : ~ (t < b /\ b <= d)
        BY <2>2, <3>1, <3>2, DaysAreDates
      <3>4. EntryAt(versions[c], t) = EntryAt(versions[c], d)
        BY <2>2, <3>1, <3>2, <3>3, NothingChangesBetween
      <3> QED BY <3>1, <3>4 DEF Universe
    <2> QED BY <2>2, <2>3
  <1> QED BY <1>1, CollectionIsInvariant, PTL

-----------------------------------------------------------------------------
(* Delistings.                                                              *)

Held(c) == {t \in tradingDays : Universe(t)[c] # Absent}
After(c) == {t \in tradingDays : Held(c) # {} /\ t > Max(Held(c))}

\* A security is held on the trading days of its versions.
LEMMA HeldOnVersions ==
    ASSUME VersionsInv, NEW c \in Codes, NEW t \in tradingDays
    PROVE  t \in Held(c) <=> \E v \in versions[c] : ValidAt(v, t)
  <1>1. \A v \in versions[c] : v.entry \in Entries /\ v.entry # Absent
    BY DEF VersionsInv, HistoryInv, IsHistory, Versions
  <1>2. Universe(t)[c] = EntryAt(versions[c], t)
    BY DEF Universe
  <1> QED BY <1>1, <1>2 DEF Held, EntryAt

\* What is needed of the versions of a security.
LEMMA VersionFacts ==
    ASSUME CollectionInv, NEW c \in Codes
    PROVE  /\ tradingDays \subseteq Days
           /\ \A v \in versions[c] : /\ v.from \in tradingDays /\ v.from < v.to
                                     /\ v.to \in tradingDays \cup {Forever}
           /\ \A v, w \in versions[c], d \in Nat : ValidAt(v, d) /\ ValidAt(w, d) => v = w
  <1>1. /\ IsHistory(Entries, Forever, versions[c])
        /\ Boundaries(versions[c]) \subseteq tradingDays \cup {Forever}
    BY DEF CollectionInv, VersionsInv, HistoryInv
  <1>2. tradingDays \subseteq Days
    BY DEF CollectionInv, TypesInv
  <1>3. ASSUME NEW v \in versions[c]
        PROVE  /\ v.from \in tradingDays /\ v.from < v.to
               /\ v.to \in tradingDays \cup {Forever}
    <2>1. v.from \in tradingDays \cup {Forever} /\ v.to \in tradingDays \cup {Forever}
      BY <1>1 DEF Boundaries
    <2>2. v.from \in Nat /\ v.to \in Nat /\ v.from < v.to /\ v.to <= Forever
      BY <1>1 DEF IsHistory, Versions
    <2> QED BY <2>1, <2>2, DaysAreDates
  <1> QED BY <1>1, <1>2, <1>3 DEF IsHistory

\* The days on which a security is held have a last one.
LEMMA LastHeld ==
    ASSUME CollectionInv, NEW c \in Codes, Held(c) # {}
    PROVE  Max(Held(c)) \in Held(c) /\ \A t \in Held(c) : t <= Max(Held(c))
  <1>1. Held(c) \subseteq 0 .. LastDay
    <2>1. Held(c) \subseteq Days
      BY DEF Held, CollectionInv, TypesInv
    <2>2. Days \subseteq 0 .. LastDay
      BY DaysAssumption DEF Days
    <2> QED BY <2>1, <2>2
  <1> QED BY <1>1, DaysAreDates, MaxOfDates

\* A security that is reported as delisted is held before, and from then on not.
LEMMA ReportedIsGone ==
    ASSUME CollectionInv, NEW c \in Codes, NEW v \in versions[c], v.to # Forever,
           \A w \in versions[c] : w.from < v.to
    PROVE  v.to \in After(c) /\ v.to = Min(After(c))
  <1> USE DaysAreDates
  <1>1. /\ tradingDays \subseteq Days
        /\ \A w \in versions[c] : /\ w.from \in tradingDays /\ w.from < w.to
                                  /\ w.to \in tradingDays \cup {Forever}
        /\ \A x, w \in versions[c], d \in Nat : ValidAt(x, d) /\ ValidAt(w, d) => x = w
    BY VersionFacts
  <1>2. v.from \in tradingDays /\ v.to \in tradingDays /\ v.from < v.to
        /\ v.from \in Nat /\ v.to \in Nat
    BY <1>1
  <1>3. v.from \in Held(c)
    <2>1. ValidAt(v, v.from)
      BY <1>2 DEF ValidAt
    <2> QED BY <1>2, <2>1, HeldOnVersions DEF CollectionInv
  <1>4. ASSUME NEW t \in Held(c)
        PROVE  t < v.to
    <2>1. t \in tradingDays
      BY DEF Held
    <2>2. PICK w \in versions[c] : ValidAt(w, t)
      BY <2>1, HeldOnVersions DEF CollectionInv
    <2>3. w.from \in Nat /\ w.to \in Nat /\ t \in Nat
      BY <1>1, <2>1
    <2>4. CASE v.to <= t
      <3>1. v.to - 1 \in Nat /\ ValidAt(v, v.to - 1)
        BY <1>2 DEF ValidAt
      <3>2. w.from <= v.to - 1 /\ v.to - 1 < w.to
        BY <1>2, <2>2, <2>3, <2>4 DEF ValidAt
      <3>3. ValidAt(w, v.to - 1)
        BY <3>2 DEF ValidAt
      <3>4. v = w
        BY <1>1, <3>1, <3>3
      <3> QED BY <2>2, <2>3, <2>4, <3>4 DEF ValidAt
    <2> QED BY <1>2, <2>3, <2>4
  <1>5. Max(Held(c)) \in Held(c) /\ \A t \in Held(c) : t <= Max(Held(c))
    BY <1>3, LastHeld
  <1>6. Max(Held(c)) < v.to /\ v.from <= Max(Held(c)) /\ Max(Held(c)) \in Nat
    <2>1. Max(Held(c)) \in tradingDays
      BY <1>5 DEF Held
    <2> QED BY <1>1, <1>3, <1>4, <1>5, <2>1
  <1>7. v.to \in After(c)
    BY <1>2, <1>3, <1>6 DEF After
  <1>8. ASSUME NEW t \in After(c)
        PROVE  v.to <= t
    <2>1. t \in tradingDays /\ t > Max(Held(c)) /\ t \in Nat
      BY <1>1, <1>8 DEF After
    <2>2. CASE t < v.to
      <3>1. ValidAt(v, t)
        BY <1>2, <1>6, <2>1, <2>2 DEF ValidAt
      <3>2. t \in Held(c)
        BY <2>1, <3>1, HeldOnVersions DEF CollectionInv
      <3> QED BY <1>5, <1>6, <2>1, <3>2
    <2> QED BY <1>2, <2>1, <2>2
  <1>9. After(c) \subseteq Nat
    BY <1>1 DEF After
  <1>10. Min(After(c)) \in After(c) /\ \A t \in After(c) : Min(After(c)) <= t
    BY <1>7, <1>9, MinOfDates
  <1>11. v.to <= Min(After(c)) /\ Min(After(c)) <= v.to /\ Min(After(c)) \in Nat
    BY <1>7, <1>8, <1>9, <1>10
  <1> QED BY <1>2, <1>7, <1>11

\* A security that is not held any more is reported, on the first of the days.
LEMMA GoneIsReported ==
    ASSUME CollectionInv, NEW c \in Codes, After(c) # {}
    PROVE  \E v \in versions[c] : /\ v.to = Min(After(c)) /\ v.to # Forever
                                  /\ \E t \in tradingDays : t < v.to
                                  /\ \A w \in versions[c] : w.from < v.to
  <1> USE DaysAreDates
  <1>1. /\ tradingDays \subseteq Days
        /\ \A w \in versions[c] : /\ w.from \in tradingDays /\ w.from < w.to
                                  /\ w.to \in tradingDays \cup {Forever}
    BY VersionFacts
  <1>2. After(c) \subseteq Nat
    BY <1>1 DEF After
  <1>3. PICK e \in After(c) : e = Min(After(c)) /\ \A t \in After(c) : e <= t
    BY <1>2, MinOfDates
  <1>4. e \in tradingDays /\ Held(c) # {} /\ e > Max(Held(c)) /\ e \in Nat
    BY <1>1, <1>3 DEF After
  <1>5. PICK h \in Held(c) : h = Max(Held(c)) /\ \A t \in Held(c) : t <= h
    BY <1>4, LastHeld
  <1>6. h \in tradingDays /\ h \in Nat
    BY <1>1 DEF Held
  <1>7. PICK v \in versions[c] : ValidAt(v, h)
    BY <1>6, HeldOnVersions DEF CollectionInv
  <1>8. v.from \in Nat /\ v.to \in Nat /\ v.from <= h /\ h < v.to
        /\ v.to \in tradingDays \cup {Forever}
    BY <1>1, <1>7 DEF ValidAt
  <1>9. ~ (e < v.to)
    <2>1. CASE e < v.to
      <3>1. ValidAt(v, e)
        BY <1>4, <1>5, <1>6, <1>8, <2>1 DEF ValidAt
      <3>2. e \in Held(c)
        BY <1>4, <3>1, HeldOnVersions DEF CollectionInv
      <3> QED BY <1>4, <1>5, <1>6, <3>2
    <2> QED BY <2>1
  <1>10. v.to \in tradingDays /\ v.to # Forever
    BY <1>1, <1>4, <1>8, <1>9
  <1>11. v.to \in After(c)
    BY <1>4, <1>5, <1>6, <1>8, <1>10 DEF After
  <1>12. v.to = e
    BY <1>3, <1>4, <1>8, <1>9, <1>11
  <1>13. ASSUME NEW w \in versions[c]
         PROVE  w.from < v.to
    <2>1. w.from \in tradingDays /\ w.from < w.to /\ w.from \in Nat /\ w.to \in Nat
      BY <1>1
    <2>2. ValidAt(w, w.from)
      BY <2>1 DEF ValidAt
    <2>3. w.from \in Held(c)
      BY <2>1, <2>2, HeldOnVersions DEF CollectionInv
    <2>4. w.from <= h
      BY <1>5, <2>3
    <2> QED BY <1>6, <1>8, <2>1, <2>4
  <1> QED BY <1>3, <1>6, <1>8, <1>10, <1>12, <1>13

(* The delistings that are reported (delistedEventsBetween) are exactly the *)
(* first collected days on which a security that was listed is listed no    *)
(* more for good, so none is sold by force that comes back.                 *)
THEOREM DelistingsAlwaysFinal == Spec => []DelistingsAreFinal
  <1>1. CollectionInv => DelistingsAreFinal
    <2> SUFFICES ASSUME CollectionInv
                 PROVE  DelistingsAreFinal
      OBVIOUS
    <2> DEFINE delisted(c) == {e \in {v.to : v \in {w \in versions[c] : w.to # Forever}}
                                        \cap (1 .. LastDay) :
                                  /\ \E t \in {x \in tradingDays : x < LastDay} : t < e
                                  /\ \A v \in versions[c] : v.from < e}
               told(c) == {e \in {Min(After(c))} : After(c) # {}}
    <2>1. ASSUME NEW c \in Codes
          PROVE  delisted(c) = told(c)
      <3>1. tradingDays \subseteq Days
        BY DEF CollectionInv, TypesInv
      <3>2. ASSUME NEW e \in delisted(c)
            PROVE  e \in told(c)
        <4>1. PICK v \in versions[c] : v.to # Forever /\ v.to = e
          OBVIOUS
        <4>2. \A w \in versions[c] : w.from < v.to
          BY <4>1
        <4>3. v.to \in After(c) /\ v.to = Min(After(c))
          BY <4>1, <4>2, ReportedIsGone
        <4> QED BY <4>1, <4>3
      <3>3. ASSUME NEW e \in told(c)
            PROVE  e \in delisted(c)
        <4>1. After(c) # {} /\ e = Min(After(c))
          OBVIOUS
        <4>2. PICK v \in versions[c] : /\ v.to = e /\ v.to # Forever
                                       /\ \E t \in tradingDays : t < v.to
                                       /\ \A w \in versions[c] : w.from < v.to
          BY <4>1, GoneIsReported
        <4>3. v.to \in tradingDays
          BY <4>2, VersionFacts
        <4>4. e \in 1 .. LastDay
          BY <3>1, <4>2, <4>3 DEF Days
        <4>5. PICK t \in tradingDays : t < e
          BY <4>2
        <4>6. t < LastDay
          BY <3>1, <4>4, <4>5, DaysAreDates
        <4>7. e \in {x.to : x \in {w \in versions[c] : w.to # Forever}}
          BY <4>2
        <4> QED BY <4>2, <4>4, <4>5, <4>6, <4>7
      <3> HIDE DEF delisted, told
      <3> QED BY <3>2, <3>3
    <2>2. DelistedEventsBetween(1, LastDay) = UNION {{<<c, e>> : e \in delisted(c)} : c \in Codes}
      BY DEF DelistedEventsBetween
    <2> HIDE DEF delisted
    <2>3. UNION {{<<c, e>> : e \in delisted(c)} : c \in Codes}
            = {<<c, Min(After(c))>> : c \in {x \in Codes : After(x) # {}}}
      <3> DEFINE reports == UNION {{<<c, e>> : e \in delisted(c)} : c \in Codes}
                 firsts == {<<c, Min(After(c))>> : c \in {x \in Codes : After(x) # {}}}
      <3>1. ASSUME NEW p \in reports
            PROVE  p \in firsts
        <4>1. PICK c \in Codes : \E e \in delisted(c) : p = <<c, e>>
          OBVIOUS
        <4>2. PICK e \in delisted(c) : p = <<c, e>>
          BY <4>1
        <4>3. e \in told(c)
          BY <2>1
        <4> QED BY <4>2, <4>3
      <3>2. ASSUME NEW p \in firsts
            PROVE  p \in reports
        <4>1. PICK c \in Codes : After(c) # {} /\ p = <<c, Min(After(c))>>
          OBVIOUS
        <4>2. Min(After(c)) \in delisted(c)
          BY <2>1, <4>1
        <4> QED BY <4>1, <4>2
      <3> HIDE DEF reports, firsts
      <3>3. reports = firsts
        BY <3>1, <3>2
      <3> QED BY <3>3 DEF reports, firsts
    <2> QED BY <2>2, <2>3 DEF DelistingsAreFinal, After, Held
  <1> QED BY <1>1, CollectionIsInvariant, PTL

-----------------------------------------------------------------------------
(* Writes.                                                                  *)

\* The versions of a history do not overlap.
LEMMA HistoriesDoNotOverlap ==
    ASSUME NEW Known, NEW End, NEW h, IsHistory(Known, End, h)
    PROVE  ~Overlapping(h)
  <1> SUFFICES ASSUME NEW v \in h, NEW w \in h, v # w, v.from < w.to, w.from < v.to
               PROVE  FALSE
    BY DEF Overlapping
  <1>1. /\ v.from \in Nat /\ v.to \in Nat /\ v.from < v.to
        /\ w.from \in Nat /\ w.to \in Nat /\ w.from < w.to
    BY DEF IsHistory, Versions
  <1>2. CASE v.from <= w.from
    <2>1. ValidAt(v, w.from) /\ ValidAt(w, w.from)
      BY <1>1, <1>2 DEF ValidAt
    <2> QED BY <1>1, <2>1 DEF IsHistory
  <1>3. CASE w.from <= v.from
    <2>1. ValidAt(v, v.from) /\ ValidAt(w, v.from)
      BY <1>1, <1>3 DEF ValidAt
    <2> QED BY <1>1, <2>1 DEF IsHistory
  <1> QED BY <1>1, <1>2, <1>3

(* The write of a trading day holds what it should, whenever it is made:    *)
(* neither the exception of normalizeTimeline nor assertUniversesEqual ever *)
(* undoes it (symbol-master-service.ts:464), so that no date stays          *)
(* uncollected for this reason.                                             *)
THEOREM WritesAlwaysSound ==
    Spec => [](\A d \in Days :
                  LET next == NextObservation(d)
                      fetched == Fetched(d)
                  IN  WriteIsSound(d, next, fetched, OverlaidVersions(d, next, fetched)))
  <1> DEFINE Sound == \A d \in Days :
                         LET next == NextObservation(d)
                             fetched == Fetched(d)
                         IN  WriteIsSound(d, next, fetched, OverlaidVersions(d, next, fetched))
  <1>1. CollectionInv => Sound
    <2> SUFFICES ASSUME CollectionInv, NEW d \in Days,
                        NEW next, next = NextObservation(d), NEW fetched, fetched = Fetched(d),
                        NEW c \in Codes, NEW written, written = OverlaidVersions(d, next, fetched)
                 PROVE  /\ ~Overlapping(written[c])
                        /\ EntryAt(written[c], d) = fetched[c]
                        /\ next # Forever => EntryAt(written[c], next) = EntryAt(versions[c], next)
      BY DEF WriteIsSound
    <2>1. TypesInv /\ VersionsInv
      BY DEF CollectionInv
    <2>2. /\ IsHistory(Entries, Forever, written[c])
          /\ EntryAt(written[c], d) = fetched[c]
          /\ \A t \in Nat : t < d \/ next <= t => EntryAt(written[c], t) = EntryAt(versions[c], t)
      BY <2>1, OverlaidHistories
    <2>3. next \in Nat
      BY <2>1, NextObservationIsNext, DaysAreDates
    <2> QED BY <2>2, <2>3, HistoriesDoNotOverlap
  <1> HIDE DEF Sound
  <1>2. Spec => []Sound
    BY <1>1, CollectionIsInvariant, PTL
  <1> QED BY <1>2 DEF Sound
=============================================================================
