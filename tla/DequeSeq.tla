------------------------------ MODULE DequeSeq ------------------------------
(***************************************************************************)
(* What a double-ended queue promises.  Each deque is a sequence of        *)
(* elements, and an element has a place in memory that it keeps as long as *)
(* it is in a deque: whatever is done at the ends, references to the       *)
(* others stay valid, also when the deques are swapped or moved.           *)
(*                                                                         *)
(* The actions relate s, the elements before a call, to t, those after it. *)
(***************************************************************************)
EXTENDS Integers, Sequences

CONSTANTS Deque, Val, Nil

VARIABLE seq      \* the elements of each deque; Nil when it has been moved from

Init == seq = [d \in Deque |-> Nil]

InUse(s) ==
    UNION {{s[d][i].place : i \in 1..Len(s[d])} : d \in {e \in Deque : s[e] # Nil}}

\* The elements x have taken places that were free, each its own.
Fresh(s, x) ==
    /\ \A i \in 1..Len(x) : x[i].val \in Val /\ x[i].place \notin InUse(s)
    /\ \A i, j \in 1..Len(x) : x[i].place = x[j].place => i = j

Make(s, t, d) ==
    /\ s[d] = Nil /\ t[d] # Nil
    /\ Fresh(s, t[d])
    /\ t = [s EXCEPT ![d] = t[d]]

PushBack(s, t, d) ==
    /\ s[d] # Nil /\ t[d] \notin {Nil, <<>>}
    /\ LET e == t[d][Len(t[d])] IN
       Fresh(s, <<e>>) /\ t = [s EXCEPT ![d] = Append(@, e)]

PushFront(s, t, d) ==
    /\ s[d] # Nil /\ t[d] \notin {Nil, <<>>}
    /\ LET e == t[d][1] IN
       Fresh(s, <<e>>) /\ t = [s EXCEPT ![d] = <<e>> \o @]

PopBack(s, t, d) ==
    s[d] \notin {Nil, <<>>} /\ t = [s EXCEPT ![d] = SubSeq(@, 1, Len(@) - 1)]
PopFront(s, t, d) ==
    s[d] \notin {Nil, <<>>} /\ t = [s EXCEPT ![d] = Tail(@)]

Clear(s, t, d)   == s[d] # Nil /\ t = [s EXCEPT ![d] = <<>>]
Destroy(s, t, d) == s[d] # Nil /\ t = [s EXCEPT ![d] = Nil]
Swap(s, t, d, e) == t = [s EXCEPT ![d] = s[e], ![e] = s[d]]
Move(s, t, d, e) == t = [s EXCEPT ![d] = s[e], ![e] = Nil]

Next ==
    \E s \in {seq}, t \in {seq'} :
        \/ \E d \in Deque :
            \/ Make(s, t, d)
            \/ PushBack(s, t, d)
            \/ PushFront(s, t, d)
            \/ PopBack(s, t, d)
            \/ PopFront(s, t, d)
            \/ Clear(s, t, d)
            \/ Destroy(s, t, d)
        \/ \E d, e \in Deque : Swap(s, t, d, e) \/ Move(s, t, d, e)

Spec == Init /\ [][Next]_seq
=============================================================================
