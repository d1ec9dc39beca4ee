----------------------------- MODULE DnsPolicy -----------------------------
(***************************************************************************)
(* The pure part of the DNS filter, over bounded inputs: the decision per  *)
(* query and the time rules (dns/policy.js), the sets of names and hashes  *)
(* (dns/domainSet.js) and the reading of a list in pieces                  *)
(* (dns/listParser.js).                                                    *)
(*                                                                         *)
(* A state is one input.  A name is a sequence of labels and its own hash  *)
(* (hash53 has no collisions here); a text is a sequence over "x" and "nl".*)
(***************************************************************************)
EXTENDS Naturals, FiniteSets, Sequences, SequencesExt

CONSTANTS
    Labels,    \* labels of names
    WeekDays,  \* days of a week
    DayLen,    \* minutes of a day
    MaxLine,   \* MAX_LINE
    MaxText,   \* bound: length of a text
    MaxHashes  \* bound: hashes collected

VARIABLE input

-----------------------------------------------------------------------------
(* Time rules.                                                             *)

\* mutant: the hours after midnight count by their own day
OwnDay(s, d, m) ==
    IF s.from = s.to THEN d \in s.days
    ELSE IF s.from < s.to THEN d \in s.days /\ m >= s.from /\ m < s.to
    ELSE d \in s.days /\ (m >= s.from \/ m < s.to)

\* days are numbered from 1; m is the minute of the day
scheduleActive(s, d, m) ==
    LET prev == IF d = 1 THEN WeekDays ELSE d - 1 IN
    IF s.from = s.to THEN d \in s.days
    ELSE IF s.from < s.to THEN d \in s.days /\ m >= s.from /\ m < s.to
    ELSE (d \in s.days /\ m >= s.from) \/ (prev \in s.days /\ m < s.to)

\* the definition: the rule is active for a while after its start on each of its days
ActiveByDefinition(s, d, m) ==
    LET week == WeekDays * DayLen
        from == IF s.from = s.to THEN 0 ELSE s.from
        len  == IF s.from = s.to THEN DayLen ELSE (s.to + DayLen - s.from) % DayLen
        now  == (d - 1) * DayLen + m
    IN  \E x \in s.days : (now + week - ((x - 1) * DayLen + from)) % week < len

-----------------------------------------------------------------------------
(* Sets of names.                                                          *)

suffixes(name) == {SubSeq(name, i, Len(name)) : i \in 1..Len(name)}

\* PatternSet.matches, with incl and sub
matches(p, name) ==
    \/ name \in p.incl
    \/ \E s \in suffixes(name) \ {name} : s \in p.incl \cup p.sub

\* the array before finish, in ascending order
Sorted(hs) == SortSeq(hs, LAMBDA a, b : a < b)

\* one step of the loop in finish: in place, w written so far
Dedup(b, r) ==
    IF r = 1 \/ b.a[r] # b.a[r - 1]
    THEN [a |-> [b.a EXCEPT ![b.w + 1] = b.a[r]], w |-> b.w + 1] ELSE b

finish(hs) ==
    LET b == FoldLeft(Dedup, [a |-> Sorted(hs), w |-> 0], [r \in 1..Len(hs) |-> r])
    IN  SubSeq(b.a, 1, b.w)

\* lowerBound, on an array counted from 1
lowerBound(a, v) ==
    LET f[lo \in 1..Len(a) + 1, hi \in 1..Len(a) + 1] ==
            IF lo >= hi THEN lo
            ELSE LET mid == (lo + hi) \div 2
                 IN  IF a[mid] < v THEN f[mid + 1, hi] ELSE f[lo, mid]
    IN  f[1, Len(a) + 1]

hasHash(a, v) == LET i == lowerBound(a, v) IN i <= Len(a) /\ a[i] = v

-----------------------------------------------------------------------------
(* A list in pieces.                                                       *)

\* what parseListStream keeps between two pieces, and the lines it has found
NoText == [rest |-> <<>>, overlong |-> "no", lines |-> <<>>]

\* a newline: the rest and the part before it are a line, if not too long
LineEnds(st) ==
    [rest |-> <<>>, overlong |-> "no",
     lines |-> IF st.overlong = "yes" \/ Len(st.rest) > MaxLine THEN st.lines
               ELSE Append(st.lines, st.rest)]

\* one piece of the text: its lines, then what is left over of it
Piece(st, piece) ==
    LET chars == FoldLeft(LAMBDA s, c : IF c = "nl" THEN LineEnds(s)
                                        ELSE IF s.overlong = "yes" THEN s
                                        ELSE [s EXCEPT !.rest = Append(@, c)], st, piece)
    IN  IF Len(chars.rest) > MaxLine
        THEN [chars EXCEPT !.rest = <<>>, !.overlong = "yes"] ELSE chars

\* the text cut after the positions of cuts
Pieces(text, cuts) ==
    LET ends == SetToSortSeq(cuts \cup {Len(text)}, LAMBDA a, b : a < b)
    IN  [i \in 1..Len(ends) |-> SubSeq(text, (IF i = 1 THEN 0 ELSE ends[i - 1]) + 1, ends[i])]

parseListStream(text, cuts) ==
    LET st == FoldLeft(Piece, NoText, Pieces(text, cuts))
    IN  IF st.rest # <<>> /\ st.overlong = "no" THEN Append(st.lines, st.rest) ELSE st.lines

-----------------------------------------------------------------------------
(* The decision.                                                           *)

Res(action, reason, safe) == [action |-> action, reason |-> reason, safe |-> safe]

\* decide: q is what the sets and the maps say of the name and the device
decide(q) ==
    CASE q.kind = "canary" -> Res("block", "canary", "no")
      [] q.kind = "local" -> Res("allow", "local", "no")
      [] q.kind = "always" -> Res("allow", "always_allow", "no")
      [] OTHER ->
         IF q.profile = "yes" /\ q.allow = "yes" THEN Res("allow", "profile_allow", q.safe)
         ELSE IF q.paused = "yes" THEN Res("block", "paused", "no")
         ELSE IF q.profile = "no" THEN Res("allow", "no_profile", "no")
         ELSE IF q.deny = "yes" THEN Res("block", "profile_deny", "no")
         ELSE IF q.schedule = "yes" /\ q.extended = "no" THEN Res("block", "schedule", "no")
         ELSE IF q.listed = "yes" THEN Res("block", "list", "no")
         ELSE Res("allow", "default", q.safe)

-----------------------------------------------------------------------------
(* The inputs.                                                             *)

YesNo == {"yes", "no"}
Names == UNION {[1..n -> Labels] : n \in 1..2}
Texts == UNION {[1..n -> {"x", "nl"}] : n \in 1..MaxText}
HashSeqs == UNION {[1..n -> 0..2] : n \in 0..MaxHashes}

IsTime ==
    \E s \in [days : SUBSET (1..WeekDays), from : 0..DayLen - 1, to : 0..DayLen - 1],
       d \in 1..WeekDays, m \in 0..DayLen - 1 : input = [k |-> "time", s |-> s, d |-> d, m |-> m]
IsName ==
    \E n \in Names, p \in [incl : SUBSET Names, sub : {{}} \cup {{x} : x \in Names}] :
       Cardinality(p.incl) <= 1 /\ input = [k |-> "name", name |-> n, p |-> p]
IsHash == \E h \in HashSeqs, v \in 0..2 : input = [k |-> "hash", h |-> h, v |-> v]
IsText == \E t \in Texts : \E c \in SUBSET (1..Len(t) - 1) : input = [k |-> "text", t |-> t, c |-> c]
IsQuery ==
    \E q \in [kind : {"canary", "local", "always", "other"}, profile : YesNo, allow : YesNo,
              paused : YesNo, deny : YesNo, schedule : YesNo, extended : YesNo, listed : YesNo,
              safe : YesNo] : input = [k |-> "query", q |-> q]
Init == IsTime \/ IsName \/ IsHash \/ IsText \/ IsQuery

-----------------------------------------------------------------------------
(* A time rule is active from its start on each of its days for its length *)
(* and at no other time, past midnight and past the end of the week        *)
(* (policy.js scheduleActive).                                             *)
TimesAgree ==
    input.k = "time" =>
        scheduleActive(input.s, input.d, input.m) = ActiveByDefinition(input.s, input.d, input.m)

(* A pattern names its domain and everything below it, with "*." only what *)
(* is below; the binary search over the sorted, deduplicated hashes finds  *)
(* what was put in, and nothing else (domainSet.js).                       *)
SetsAgree ==
    /\ input.k = "name" =>
         (matches(input.p, input.name) <=>
            \E i \in 1..Len(input.name) :
                LET s == SubSeq(input.name, i, Len(input.name))
                IN  s \in input.p.incl \/ (s \in input.p.sub /\ i > 1))
    /\ input.k = "hash" =>
         /\ hasHash(finish(input.h), input.v) <=> \E i \in 1..Len(input.h) : input.h[i] = input.v
         /\ Len(finish(input.h)) = Cardinality({input.h[i] : i \in 1..Len(input.h)})

(* The lines found in a list do not depend on the pieces it arrives in     *)
(* (listParser.js parseListStream).                                        *)
PiecesAgree ==
    input.k = "text" => parseListStream(input.t, input.c) = parseListStream(input.t, {})

(* What the order of the rules promises (policy.js): local names and       *)
(* alwaysAllow are never filtered; what the profile allows stays allowed   *)
(* in a pause and in its times; otherwise a pause blocks everything, an    *)
(* extension or not; an extension lifts nothing but the times.             *)
OrderHolds ==
    input.k = "query" =>
        LET q == input.q
            r == decide(q)
            plain == decide([q EXCEPT !.extended = "no"])
        IN  /\ q.kind \in {"local", "always"} => r.action = "allow"
            /\ q.kind = "other" /\ q.profile = "yes" /\ q.allow = "yes" => r = Res("allow", "profile_allow", q.safe)
            /\ q.kind = "other" /\ q.paused = "yes" /\ (q.profile = "no" \/ q.allow = "no")
                  => r.action = "block"
            /\ r # plain => plain.reason = "schedule"
=============================================================================
