---------------------------- MODULE AttrIterator ---------------------------
(***************************************************************************)
(* The iterator over the attributes of a CPS object, or over those inside  *)
(* an attribute (cps_api_object_attr.h): the current attribute and the     *)
(* length of what it starts.                                               *)
(***************************************************************************)
EXTENDS Tlv

cps_api_object_it_t == [attr : Nat, len : Nat]

(* cps_api_object_it_begin()                                               *)
ItBegin(b) == At(1, Len(b))

ItValid(b, it)     == Valid(b, it)
ItFind(b, it, tag) == FindNext(b, it, tag).attr

(* cps_api_object_it_inside()                                              *)
ItInside(b, it) == Inside(b, it.attr)

(* cps_api_object_it_next(): the iterator after it, and what it returns.   *)
ItNext(b, it) ==
    LET next == NextTlv(b, it)
    IN  [it |-> next, more |-> next.attr # NULL /\ next.len # 0]

-----------------------------------------------------------------------------
(* The tags a walk meets: while the iterator is valid, visit and advance.  *)
(* The other way of writing it, advancing until it_next() returns false,   *)
(* needs a first attribute.                                                *)
TagsAt(b, at, count) == [ k \in 1 .. count |-> Tag(b, at[k - 1].attr) ]

Walk(b, it) ==
    LET at == Turns(b, it, {})
    IN  TagsAt(b, at, CHOOSE n \in 0 .. it.len :
                         ~ItValid(b, at[n]) /\ \A m \in 0 .. n - 1 : ItValid(b, at[m]))

WalkUntilLast(b, it) ==
    LET at == Turns(b, it, {})
    IN  TagsAt(b, at, CHOOSE n \in 1 .. it.len :
                         /\ ~ItNext(b, at[n - 1]).more
                         /\ \A m \in 1 .. n - 1 : ItNext(b, at[m - 1]).more)
=============================================================================
