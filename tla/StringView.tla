------------------------------ MODULE StringView ------------------------------
(***************************************************************************)
(* zstl::string_view (string_view.h): a window on text that belongs to     *)
(* somebody else and ends with a null character.  Positions and lengths    *)
(* are of an unsigned type, whose largest value is npos; the backward      *)
(* searches convert them to int.                                           *)
(***************************************************************************)
EXTENDS Integers, Sequences

LOCAL INSTANCE SequencesExt

CONSTANTS
    Letter,     \* the characters, integers; the null character is 0
    MaxText,    \* bound: the longest text viewed
    MaxPattern, \* bound: the longest text searched for
    Width       \* bound: the bits of size_type

ASSUME ViewParameters ==
    /\ Letter \subseteq Nat \ {0} /\ MaxText \in Nat /\ MaxPattern \in Nat
    /\ Width \in Nat /\ 2 ^ Width > 2 * (MaxText + MaxPattern)

VARIABLES view, pattern   \* [text, data, len]: data_ points into text, len_

npos == 2 ^ Width - 1
Unsigned_(n) == n % 2 ^ Width
Int_(n) == IF n >= 2 ^ (Width - 1) THEN n - 2 ^ Width ELSE n
Min_(i, j) == IF i < j THEN i ELSE j

\* data_[i], the null character behind the text.
Char_(v, i) == IF v.data + i < Len(v.text) THEN v.text[v.data + i + 1] ELSE 0
Behind(v, i) == SubSeq(v.text, v.data + i + 1, Len(v.text))

\* What the view shows.
Seen(v) == SubSeq(v.text, v.data + 1, v.data + v.len)

string_view(text) == [text |-> text, data |-> 0, len |-> Len(text)]

-----------------------------------------------------------------------------
(* What changes a view.                                                    *)

remove_prefix(v, n) == [v EXCEPT !.data = v.data + n, !.len = Unsigned_(v.len - n)]
remove_suffix(v, n) == [v EXCEPT !.len = Unsigned_(v.len - n)]
substr(v, pos, count) ==
    [v EXCEPT !.data = v.data + pos, !.len = Min_(count, Unsigned_(v.len - pos))]

-----------------------------------------------------------------------------
(* Searches.                                                               *)

\* strstr: how far behind the start of s the whole of t is, -1 if nowhere.
strstr(s, t) ==
    LET from[i \in 0..Len(s) + 1] ==
            IF i > Len(s) THEN -1 ELSE IF IsPrefix(t, SubSeq(s, i + 1, Len(s))) THEN i ELSE from[i + 1]
    IN  from[0]

\* find(v, pos) searches the text to its null character, for p's to its own.
find_view(v, p, pos) ==
    LET begin == strstr(Behind(v, pos), Behind(p, 0)) IN
    IF p.len > v.len \/ begin = -1 THEN npos ELSE pos + begin

\* memcmp at data_ + i, of the n characters that p shows.
memcmp(v, i, p) == SubSeq(v.text, v.data + i + 1, v.data + i + p.len) = Seen(p)

\* The loops of the forward searches: the first position from pos on that has,
\* or lacks, one of the characters.
Forwards(v, pos, chars, has) ==
    LET from[i \in Nat] == IF i >= v.len THEN npos
                           ELSE IF (Char_(v, i) \in chars) = has THEN i ELSE from[i + 1]
    IN  from[pos]

\* Mutant: the position searched from is counted from the end of the text.
BackwardsFromLen(v, pos, chars, has) ==
    LET to[i \in Int] == IF i < 0 THEN npos
                         ELSE IF (Char_(v, i) \in chars) = has THEN i ELSE to[i - 1]
    IN  to[Min_(v.len, pos) - 1]

\* Those of the backward searches, from min(len_ - 1, pos) down.
Backwards(v, pos, chars, has) ==
    LET to[i \in Int] == IF i < 0 THEN npos
                         ELSE IF (Char_(v, i) \in chars) = has THEN i ELSE to[i - 1]
    IN  to[Int_(Min_(Unsigned_(v.len - 1), pos))]

find_char(v, c, pos) == Forwards(v, pos, {c}, TRUE)
rfind_char(v, c, pos) == Backwards(v, pos, {c}, TRUE)

\* The characters p shows.
Chars(p) == {Seen(p)[i] : i \in 1..p.len}

find_first_of(v, p, pos) == Forwards(v, pos, Chars(p), TRUE)
find_last_of(v, p, pos) == Backwards(v, pos, Chars(p), TRUE)
find_first_not_of(v, p, pos) == Forwards(v, pos, Chars(p), FALSE)
find_last_not_of(v, p, pos) == Backwards(v, pos, Chars(p), FALSE)

\* rfind(v, pos) of a pattern that is not empty.
rfind(v, p, pos) ==
    LET to[i \in Int] == IF i < 0 THEN npos
                         ELSE IF v.len - i >= p.len /\ memcmp(v, i, p) THEN i ELSE to[i - 1]
    IN  to[Int_(Min_(Unsigned_(v.len - 1), pos))]

starts_with(v, p) == v.len >= p.len /\ memcmp(v, 0, p)
ends_with(v, p) == v.len >= p.len /\ memcmp(v, v.len - p.len, p)
contains(v, p) == find_view(v, p, 0) # npos

\* compare: 1 for two views that show the same.
compare(v, p) ==
    LET n == Min_(v.len, p.len)
        differ == {i \in 0..n - 1 : Char_(v, i) # Char_(p, i)}
        i == CHOOSE i \in differ : \A j \in differ : i <= j
    IN  IF differ # {} THEN (IF Char_(v, i) < Char_(p, i) THEN -1 ELSE 1)
        ELSE IF v.len < p.len THEN -1 ELSE 1

equals(v, p) == v.len = p.len /\ memcmp(v, 0, p)
less_than(v, p) == compare(v, p) < 0

\* split by a spliter that is not empty.
split(v, p) ==
    LET from[begin \in Nat] ==
            LET found == find_view(v, p, begin)
                end == IF found = npos THEN v.len ELSE found
                piece == Seen(substr(v, begin, Unsigned_(end - begin)))
            IN  IF end = v.len THEN <<piece>> ELSE <<piece>> \o from[end + p.len]
    IN  from[0]

-----------------------------------------------------------------------------
(* The views a program has.                                                *)

ViewInit == view = string_view(<<>>) /\ pattern = string_view(<<>>)

\* A view of a longer text; a view of less of it; a pattern likewise.
Texts == \E c \in Letter :
    \/ /\ Len(view.text) < MaxText /\ view.len = Len(view.text) /\ pattern.text = <<>>
       /\ view' = string_view(Append(view.text, c)) /\ UNCHANGED pattern
    \/ /\ Len(pattern.text) < MaxPattern /\ pattern.len = Len(pattern.text)
       /\ pattern' = string_view(Append(pattern.text, c)) /\ UNCHANGED view

Narrows ==
    \/ \E n \in 0..view.len :
        (view' = remove_prefix(view, n) \/ view' = remove_suffix(view, n)) /\ UNCHANGED pattern
    \/ \E pos \in 0..view.len, n \in (0..view.len) \cup {npos} :
        view' = substr(view, pos, n) /\ UNCHANGED pattern
    \/ \E n \in 0..pattern.len : pattern' = remove_suffix(pattern, n) /\ UNCHANGED view

Exchanges ==
    /\ Len(view.text) <= MaxPattern /\ view' = pattern /\ pattern' = view

ViewNext == Texts \/ Narrows \/ Exchanges

-----------------------------------------------------------------------------
(* Properties.                                                             *)

\* i is the first, or the last, of the positions S, npos when there is none.
IsFirst(i, S) == IF S = {} THEN i = npos ELSE i \in S /\ \A j \in S : i <= j
IsLast(i, S) == IF S = {} THEN i = npos ELSE i \in S /\ \A j \in S : j <= i

\* The positions of v from which it shows what p shows.
Matches(v, p) == {i \in 0..v.len - p.len : SubSeq(Seen(v), i + 1, i + p.len) = Seen(p)}

\* Views stay within the text they were made from, however they are narrowed.
Within(v) == v.data \in Nat /\ v.len \in Nat /\ v.data + v.len <= Len(v.text)

\* The pieces of a split, with the spliter between them.
Joined(pieces, s) == FoldLeft(LAMBDA t, piece : t \o s \o piece, Head(pieces), Tail(pieces))

\* Every search finds the nearest position there is, and none when there is none,
\* in views of a part of their text too and where len_ - 1 is npos
\* (string_view.h:231-257).  But find(v) reads on behind the view: it and split
\* are right for views that reach the end of their text; and a backward search
\* of an empty view from a position reads the character behind it.
SearchesRight ==
    LET v == view  p == pattern
        whole == v.data + v.len = Len(v.text) /\ p.data + p.len = Len(p.text)
        In(has) == {i \in 0..v.len - 1 : (Char_(v, i) \in Chars(p)) = has}
    IN  /\ Within(v) /\ Within(p)
        /\ \A pos \in (0..v.len) \cup {npos} :
            /\ IsFirst(find_first_of(v, p, pos), {i \in In(TRUE) : i >= pos})
            /\ IsFirst(find_first_not_of(v, p, pos), {i \in In(FALSE) : i >= pos})
            /\ v.len > 0 \/ pos = npos =>
                /\ IsLast(find_last_of(v, p, pos), {i \in In(TRUE) : i <= pos})
                /\ IsLast(find_last_not_of(v, p, pos), {i \in In(FALSE) : i <= pos})
                /\ p.len > 0 => IsLast(rfind(v, p, pos), {i \in Matches(v, p) : i <= pos})
            /\ whole /\ pos # npos => IsFirst(find_view(v, p, pos), {i \in Matches(v, p) : i >= pos})
            /\ \A c \in Letter : Chars(p) = {c} =>
                    /\ find_char(v, c, pos) = find_first_of(v, p, pos)
                    /\ rfind_char(v, c, pos) = find_last_of(v, p, pos)
        /\ starts_with(v, p) <=> 0 \in Matches(v, p)
        /\ ends_with(v, p) <=> v.len - p.len \in Matches(v, p)
        /\ whole => (contains(v, p) <=> Matches(v, p) # {})
        /\ equals(v, p) <=> ~less_than(v, p) /\ ~less_than(p, v)
        /\ ~(less_than(v, p) /\ less_than(p, v))
        /\ whole /\ p.len > 0 =>
            /\ Joined(split(v, p), Seen(p)) = Seen(v)
            /\ \A i \in 1..Len(split(v, p)) : ~contains(string_view(split(v, p)[i]), p)
===============================================================================
