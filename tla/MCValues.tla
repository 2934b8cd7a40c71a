-------------------------------- MODULE MCValues --------------------------------
(***************************************************************************)
(* The parts of zstl that compute on values, for TLC: type lists and       *)
(* traits, range algorithms, string views and heaps.  They do not call one *)
(* another: each behaviour uses one of them and leaves the others at rest. *)
(***************************************************************************)
EXTENDS TypeList, TypeTraits, Algorithms, StringView, Heap

listvars  == list
typevars  == type
rangevars == <<range, other>>
viewvars  == <<view, pattern>>

NoList   == list = ListOf("Typelist", <<>>)
NoType   == TraitsInit
NoRange  == RangesInit
NoView   == ViewInit
NoHeap   == size = 0 /\ at = "idle"

Init ==
    /\ ListInit /\ TraitsInit /\ RangesInit /\ ViewInit /\ HeapInit
    /\ NoList \/ NoHeap

Next ==
    \/ Write /\ NoType /\ NoRange /\ NoView /\ NoHeap
             /\ UNCHANGED <<typevars, rangevars, viewvars, heapvars>>
    \/ Declare /\ NoList /\ NoRange /\ NoView /\ NoHeap
               /\ UNCHANGED <<listvars, rangevars, viewvars, heapvars>>
    \/ Extend /\ NoList /\ NoType /\ NoView /\ NoHeap
              /\ UNCHANGED <<listvars, typevars, viewvars, heapvars>>
    \/ ViewNext /\ NoList /\ NoType /\ NoRange /\ NoHeap
                /\ UNCHANGED <<listvars, typevars, rangevars, heapvars>>
    \/ HeapNext /\ NoList /\ NoType /\ NoRange /\ NoView
                /\ UNCHANGED <<listvars, typevars, rangevars, viewvars>>

Spec == Init /\ [][Next]_<<listvars, typevars, rangevars, viewvars, heapvars>>

-----------------------------------------------------------------------------
(* A list, a type and two ranges at once, for what comments claim of them. *)

InitTogether ==
    /\ ListInit /\ TraitsInit /\ RangesInit /\ ViewInit /\ HeapInit
    /\ list.kind = "Typelist" /\ NoHeap

NextTogether ==
    /\ UNCHANGED <<viewvars, heapvars>>
    /\ \/ Write   /\ UNCHANGED <<typevars, rangevars>>
       \/ Declare /\ UNCHANGED <<listvars, rangevars>>
       \/ Extend  /\ UNCHANGED <<listvars, typevars>>

TogetherSpec ==
    InitTogether /\ [][NextTogether]_<<listvars, typevars, rangevars, viewvars, heapvars>>

\* Whatever list, type and ranges a program has, one at least of eight comments is
\* true of them: Push_Front and Sorted (typelist.h:250, :733), Is_member_object_pointer
\* and Is_object (type_traits.h:495, :748-752), Decay (tuple.h:182), reverse
\* (reverse.h:2), remove (remove.h:2) and search (search.h:2).  A state that violates
\* this contradicts every one of them.
SomeCommentHolds ==
    \/ PushFrontFirst \/ SortedFirstPoint
    \/ MemberObjectsOnly \/ DecayRemovesCv \/ ObjectsTold
    \/ ReverseReverses \/ RemoveShifts \/ SearchFindsFirst
================================================================================
