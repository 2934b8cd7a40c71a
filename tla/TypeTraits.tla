------------------------------ MODULE TypeTraits ------------------------------
(***************************************************************************)
(* The traits of zstl/type_traits.h, evaluated on the types of C++.        *)
(*                                                                         *)
(* A type is a sequence of layers, the outermost first, that ends in a     *)
(* named type: `int const* volatile` is <<pointer (volatile), int (const)>>.*)
(* An array has no qualifiers of its own, they are those of its elements;  *)
(* a function has a qualifier sequence c, v, ref and may be variadic; a    *)
(* pointer to a member is a layer "member" around the member's type.       *)
(***************************************************************************)
EXTENDS Integers, FiniteSets, Sequences

CONSTANTS
    Named,      \* the named types the program uses, a subset of Name
    MaxLayers   \* bound: layers of a type

VARIABLE type   \* the type the program has written

SignedInt   == {"char", "schar", "short", "int", "long", "llong"}
UnsignedInt == {"uchar", "ushort", "uint", "ulong", "ullong"}
Integral    == SignedInt \cup UnsignedInt \cup {"bool", "wchar", "char16", "char32"}
Floating    == {"float", "double", "ldouble"}
Class       == {"class", "union"}
Name        == Integral \cup Floating \cup Class \cup {"void", "nullptr", "enum"}

ASSUME TraitBounds == Named \subseteq Name /\ "void" \in Named
                      /\ MaxLayers \in Nat

------------------------------------------------------------------------------
(* The types: what the compiler does with a declarator.                    *)

Layer(k) == [k |-> k, c |-> FALSE, v |-> FALSE, n |-> 0, ref |-> "", va |-> FALSE]
Void == <<Layer("void")>>
IllFormed == <<>>

Outer(t) == Head(t)
Inner(t) == Tail(t)
Is(t, k) == Outer(t).k = k
Wrap(k, t) == <<Layer(k)>> \o t

\* A pointer, array or member pointer can only be made to some types.
Qualified(t) == Is(t, "function") /\ (Outer(t).c \/ Outer(t).v \/ Outer(t).ref # "")
Reference(t) == Is(t, "lref") \/ Is(t, "rref")
CanPoint(t)  == ~Reference(t) /\ ~Qualified(t)
CanRefer(t)  == ~Is(t, "void") /\ ~Qualified(t)

\* The layer that carries the qualifiers of t.
RECURSIVE Carrier(_)
Carrier(t) == IF Is(t, "array") THEN 1 + Carrier(Inner(t)) ELSE 1

IsC(t) == ~Reference(t) /\ ~Is(t, "function") /\ t[Carrier(t)].c
IsV(t) == ~Reference(t) /\ ~Is(t, "function") /\ t[Carrier(t)].v

\* `T const`, `T volatile` written of a type T: ignored on references and functions.
Cv(t, c, v) ==
    IF Reference(t) \/ Is(t, "function") THEN t
    ELSE [t EXCEPT ![Carrier(t)].c = c, ![Carrier(t)].v = v]
Const(t)    == Cv(t, TRUE, IsV(t))
Volatile(t) == Cv(t, IsC(t), TRUE)

\* `T&` and `T&&`, which collapse on references.
LRef(t) == IF Reference(t) THEN Wrap("lref", Inner(t)) ELSE Wrap("lref", t)
RRef(t) == IF Reference(t) THEN t ELSE Wrap("rref", t)

------------------------------------------------------------------------------
(* Type modifications.                                                     *)

Remove_const(t)    == IF IsC(t) THEN Cv(t, FALSE, IsV(t)) ELSE t
Remove_volatile(t) == IF IsV(t) THEN Cv(t, IsC(t), FALSE) ELSE t
Remove_cv(t)       == Remove_volatile(Remove_const(t))

\* void alone is specialised, to void.
Add_const(t)    == IF t = Void THEN Void ELSE Const(t)
Add_volatile(t) == IF t = Void THEN Void ELSE Volatile(t)
Add_cv(t)       == IF t = Void THEN Void ELSE Const(Volatile(t))

\* Specialised for T*, T* const, T* volatile and T* const volatile.
Remove_pointer(t) ==
    IF Is(t, "pointer") /\ <<Outer(t).c, Outer(t).v>> \in BOOLEAN \X BOOLEAN THEN Inner(t) ELSE t

Remove_reference(t) == IF Is(t, "lref") \/ Is(t, "rref") THEN Inner(t) ELSE t

\* Where the pointer or the reference would be ill-formed, T itself.
Add_pointer(t) ==
    LET u == Remove_reference(t) IN IF CanPoint(u) THEN Wrap("pointer", u) ELSE t
Add_lvalue_reference(t) == IF CanRefer(t) THEN LRef(t) ELSE t
Add_rvalue_reference(t) == IF CanRefer(t) THEN RRef(t) ELSE t

------------------------------------------------------------------------------
(* Primary categories.                                                     *)

Disjunction(s) == \E i \in DOMAIN s : s[i]
Conjunction(s) == \A i \in DOMAIN s : s[i]
Negation(b) == ~b

IntegralTypes == {<<Layer(k)>> : k \in Integral}
FloatingTypes == {<<Layer(k)>> : k \in Floating}

Is_void(t)           == Remove_cv(t) = Void
Is_integral(t)       == Remove_cv(t) \in IntegralTypes
Is_floating_point(t) == Remove_cv(t) \in FloatingTypes
Is_null_pointer(t)   == Remove_cv(t) = <<Layer("nullptr")>>
Is_array(t)          == Is(Remove_cv(t), "array")
Is_pointer(t)        == LET u == Remove_cv(t) IN Is(u, "pointer") /\ ~Outer(u).c /\ ~Outer(u).v
Is_lvalue_reference(t) == Is(t, "lref")
Is_rvalue_reference(t) == Is(t, "rref")

\* `int T::*` is a type for classes and unions only.
Is_class(t) == Outer(t).k \in Class

\* Specialised for every qualifier sequence, variadic or not.
Specialised == [c : BOOLEAN, v : BOOLEAN, ref : {"", "&", "&&"}, va : BOOLEAN]
Is_function(t) ==
    LET f == Outer(t) IN
    f.k = "function" /\ [c |-> f.c, v |-> f.v, ref |-> f.ref, va |-> f.va] \in Specialised

\* `T C::*` matches a pointer to a member function too.
Is_member_object_pointer(t)   == Is(Remove_cv(t), "member")
Is_member_function_pointer(t) == LET u == Remove_cv(t) IN Is(u, "member") /\ Is_function(Inner(u))

\* Mutant: the functions are not excluded.
Is_enum_or_function(t) ==
    Negation(Disjunction(
        <<Is_void(t), Is_null_pointer(t), Is_integral(t), Is_floating_point(t), Is_array(t),
          Is_pointer(t), Is_class(t), Is_lvalue_reference(t), Is_rvalue_reference(t),
          Is_member_object_pointer(t), Is_member_function_pointer(t)>>))

\* Whatever is nothing else.
Is_enum(t) ==
    Negation(Disjunction(
        <<Is_void(t), Is_null_pointer(t), Is_integral(t), Is_floating_point(t), Is_array(t),
          Is_pointer(t), Is_class(t), Is_lvalue_reference(t), Is_rvalue_reference(t),
          Is_member_object_pointer(t), Is_member_function_pointer(t), Is_function(t)>>))

------------------------------------------------------------------------------
(* Composite categories and properties.                                    *)

Is_arithmetic(t)  == Disjunction(<<Is_integral(t), Is_floating_point(t)>>)
Is_fundamental(t) == Disjunction(<<Is_arithmetic(t), Is_void(t), Is_null_pointer(t)>>)
Is_member_pointer(t) == Disjunction(<<Is_member_object_pointer(t), Is_member_function_pointer(t)>>)
Is_scalar(t) ==
    Disjunction(<<Is_arithmetic(t), Is_pointer(t), Is_member_pointer(t), Is_enum(t),
                  Is_null_pointer(t)>>)
Is_reference(t) == Disjunction(<<Is_lvalue_reference(t), Is_rvalue_reference(t)>>)
Is_compound(t)  == Negation(Is_fundamental(t))

\* The conjunction of three categories no type is in.
Is_object(t) == Negation(Conjunction(<<Is_void(t), Is_reference(t), Is_function(t)>>))

\* Specialised for `T const` and for `T const*`.
PointsAt(t, Q(_)) == Is(t, "pointer") /\ ~Outer(t).c /\ ~Outer(t).v /\ Q(Inner(t))
Is_const(t)    == IsC(t) \/ PointsAt(t, IsC)
Is_volatile(t) == IsV(t) \/ PointsAt(t, IsV)

\* T(-1) < T(0) and T(0) < T(-1)
Is_signed(t)   == Is_arithmetic(t) /\ Outer(t).k \in SignedInt \cup Floating \cup {"wchar"}
Is_unsigned(t) == Is_arithmetic(t) /\ Outer(t).k \notin SignedInt \cup Floating \cup {"wchar"}

Is_bounded_array(t)   == Is(t, "array") /\ Outer(t).n > 0
Is_unbounded_array(t) == Is(t, "array") /\ Outer(t).n = 0

Is_referenceable(t) == t # Void

RECURSIVE Rank(_)
Rank(t) == IF Is(t, "array") THEN 1 + Rank(Inner(t)) ELSE 0

RECURSIVE Extent(_, _)
Extent(t, n) ==
    IF ~Is(t, "array") THEN 0
    ELSE IF n = 0 THEN Outer(t).n
    ELSE Extent(Inner(t), n - 1)

Remove_extent(t) == IF Is(t, "array") THEN Inner(t) ELSE t

RECURSIVE Remove_all_extents(_)
Remove_all_extents(t) == IF Is(t, "array") THEN Remove_all_extents(Inner(t)) ELSE t

\* Only the unqualified types are specialised.
Unsigned == [char |-> "uchar", schar |-> "uchar", short |-> "ushort", int |-> "uint",
             long |-> "ulong", llong |-> "ullong"]
Signed   == [uchar |-> "schar", ushort |-> "short", uint |-> "int", ulong |-> "long",
             ullong |-> "llong"]
Make_signed(t) ==
    IF \E k \in DOMAIN Signed : t = <<Layer(k)>> THEN <<Layer(Signed[Outer(t).k])>> ELSE t
Make_unsigned(t) ==
    IF \E k \in DOMAIN Unsigned : t = <<Layer(k)>> THEN <<Layer(Unsigned[Outer(t).k])>> ELSE t

\* All three candidates are named, so that a qualified function, to which there
\* is no pointer, makes it ill-formed; other types keep their qualifiers.
Decay(t) ==
    LET u == Remove_reference(t) IN
    IF ~CanPoint(Remove_extent(u)) THEN IllFormed
    ELSE IF Is_array(u) THEN Wrap("pointer", Remove_extent(u))
    ELSE IF Is_function(u) THEN Add_pointer(u)
    ELSE Remove_reference(u)

------------------------------------------------------------------------------
(* The types a program writes, one declarator at a time.                   *)

TraitsInit == type = Void

Use == type = Void /\ type' \in {<<Layer(k)>> : k \in Named}

Qualify ==
    /\ ~Reference(type) /\ ~Is(type, "function") /\ ~Is(type, "array")
    /\ \/ ~IsC(type) /\ type' = Const(type)
       \/ ~IsV(type) /\ type' = Volatile(type)

Point == CanPoint(type) /\ type' = Wrap("pointer", type)

Refer ==
    /\ CanRefer(type) /\ ~Reference(type)
    /\ type' \in {LRef(type), RRef(type)}

Arrange ==
    /\ ~Reference(type) /\ Outer(type).k \notin {"void", "function"}
    /\ ~Is_unbounded_array(type)
    /\ \E n \in {0, 2, 3} : type' = [Wrap("array", type) EXCEPT ![1].n = n]

\* bound: const and volatile come together in a function's qualifiers
Return ==
    /\ Outer(type).k \notin {"array", "function"}
    /\ \E cv, va \in BOOLEAN, ref \in {"", "&", "&&"} :
        type' = [Wrap("function", type) EXCEPT
                    ![1].c = cv, ![1].v = cv, ![1].va = va, ![1].ref = ref]

Member == ~Reference(type) /\ ~Is(type, "void") /\ type' = Wrap("member", type)

Declare ==
    \/ Use \/ Qualify
    \/ Len(type) < MaxLayers /\ (Point \/ Refer \/ Arrange \/ Return \/ Member)
------------------------------------------------------------------------------
(* Properties.                                                             *)

\* Which of the primary categories (type_traits.h:711-721) a type is in.
Categories(t) ==
    LET holds == <<Is_void(t), Is_null_pointer(t), Is_integral(t), Is_floating_point(t),
                   Is_array(t), Is_pointer(t), Is_class(t), Is_lvalue_reference(t),
                   Is_rvalue_reference(t), Is_member_object_pointer(t),
                   Is_member_function_pointer(t), Is_function(t), Is_enum(t)>>
    IN  {i \in DOMAIN holds : holds[i]}

\* Every type a program can write, however deep, is in one primary category, but
\* for a pointer to a member function, which is in two: it is a pointer to a member
\* object for the code as well.  Is_enum, only the negation of the others
\* (type_traits.h:710-721), holds of the enumerations because none of them is too
\* narrow; what Is_scalar and Is_compound combine is what the language calls so.
\* A type without qualifiers is const only by Is_const's second specialisation,
\* as a pointer to const is; a type made const, unless void, is const.
OneCategory ==
    LET k == Outer(type).k  bare == Remove_cv(type) IN
    /\ Cardinality(Categories(type)) = IF Is_member_function_pointer(type) THEN 2 ELSE 1
    /\ Is_member_function_pointer(type) <=> k = "member" /\ Is(Inner(type), "function")
    /\ Is_enum(type) <=> k = "enum"
    /\ Is_scalar(type) <=>
            k \in Integral \cup Floating \cup {"enum", "pointer", "member", "nullptr"}
    /\ Is_compound(type) <=> k \notin Integral \cup Floating \cup {"void", "nullptr"}
    /\ Is_arithmetic(type) => (Is_signed(type) <=> ~Is_unsigned(type))
    /\ Is_const(bare) => Is_pointer(type) /\ IsC(Remove_pointer(type))
    /\ ~Is_reference(type) /\ ~Is_function(type) /\ type # Void => Is_const(Add_const(type))

\* A type built from another by one declarator is taken apart again by the trait
\* that undoes it, through any qualifiers; what cannot be built is left alone; the
\* extents of an array are counted from the outside and all removed.
Modifies ==
    LET bare == Remove_cv(type)  referred == Remove_reference(type) IN
    /\ ~IsC(bare) /\ ~IsV(bare) /\ Remove_const(Remove_volatile(type)) = bare
    /\ Remove_const(Add_const(bare)) = bare /\ Remove_volatile(Add_volatile(bare)) = bare
    /\ Remove_cv(Add_cv(type)) = IF Reference(type) \/ Is(type, "function") THEN type ELSE bare
    /\ IF CanPoint(referred)
       THEN \A p \in {Add_pointer(type), Const(Add_pointer(type)), Volatile(Add_pointer(type))} :
                Is_pointer(p) /\ Remove_pointer(p) = referred
       ELSE Add_pointer(type) = type
    /\ Add_lvalue_reference(Add_rvalue_reference(type)) = Add_lvalue_reference(type)
    /\ Add_rvalue_reference(Add_lvalue_reference(type)) = Add_lvalue_reference(type)
    /\ CanRefer(type) => Remove_reference(Add_rvalue_reference(type)) = referred
    /\ ~Is_array(Remove_all_extents(type))
    /\ Is_array(type) =>
            /\ Rank(type) = 1 + Rank(Remove_extent(type))
            /\ Extent(type, 0) > 0 <=> Is_bounded_array(type)
            /\ \A n \in 0..Rank(type) : Extent(type, n + 1) = Extent(Remove_extent(type), n)
    /\ Make_unsigned(Make_signed(type)) = Make_unsigned(type)

\* What is decayed is never an array, a function or a reference, whatever it was
\* a reference to, and decaying it again changes nothing (type_traits.h:1755-1768).
\* Qualifiers stay.
Decays ==
    LET d == Decay(type) IN
    d # IllFormed => /\ ~Is_array(d) /\ ~Is_function(d) /\ ~Is_reference(d)
                     /\ Decay(d) = d
                     /\ Decay(Add_lvalue_reference(type)) = d

\* Types are put in categories, taken apart and built again, and decayed without
\* contradiction; where the code departs from its comments the property says what
\* the code does, and the claims below what the comments say.
TraitsRight == OneCategory /\ Modifies /\ Decays

------------------------------------------------------------------------------
(* What comments say of every type, and the code does not do.  The types   *)
(* are the one written and those it is built from.                         *)

Parts(t) == {SubSeq(t, i, Len(t)) : i \in 1..Len(t)}

\* Is_member_object_pointer tells the pointers to member objects
\* (type_traits.h:495) from those to member functions (:523).
MemberObjectsOnly ==
    \A t \in Parts(type) : ~(Is_member_object_pointer(t) /\ Is_member_function_pointer(t))

\* Decay removes const, volatile and references (tuple.h:182).
DecayRemovesCv ==
    \A t \in Parts(type) : LET d == Decay(t) IN
        d # IllFormed => ~Is_reference(d) /\ Remove_cv(d) = d

\* Is_object stands for the disjunction of scalars, arrays and classes
\* (type_traits.h:748-752).
ObjectsTold ==
    \A t \in Parts(type) :
        Is_object(t) <=> Disjunction(<<Is_scalar(t), Is_array(t), Is_class(t)>>)

===============================================================================
