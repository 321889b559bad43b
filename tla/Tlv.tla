-------------------------------- MODULE Tlv --------------------------------
(***************************************************************************)
(* The tag-length-value encoding of the attributes of a CPS object         *)
(* (std_tlv.h, std_tlv_internal.h).  A buffer is a sequence of units: the  *)
(* tag and the length of a TLV take a unit each, where the code has 8      *)
(* bytes, and its data as many units as its length says.  A number of 32   *)
(* bits is one unit of data, and one of 64 bits two, the lower half first. *)
(*                                                                         *)
(* The code passes a pointer to a TLV and the length of what follows, in   *)
(* two variables that it advances together; here they are one record.      *)
(*                                                                         *)
(* The walk reads the header of a TLV before it knows that there is room   *)
(* for one, so that it stays inside a buffer only if the buffer ends where *)
(* a TLV ends; module CpsObject shows that an object's does.               *)
(***************************************************************************)
EXTENDS Integers, Sequences

STD_TLV_TAG_POS  == 0
STD_TLV_LEN_POS  == 1
STD_TLV_HDR_LEN  == 2
STD_TLV_DATA_POS == STD_TLV_HDR_LEN

NULL == 0       \* no position

At(p, n)  == [attr |-> p, len |-> n]
Nowhere   == At(NULL, 0)

TagAt(p)  == p + STD_TLV_TAG_POS
LenAt(p)  == p + STD_TLV_LEN_POS
DataAt(p) == p + STD_TLV_DATA_POS

Tag(data, p)      == data[TagAt(p)]
LenOf(data, p)    == data[LenAt(p)]
TotalLen(data, p) == LenOf(data, p) + STD_TLV_HDR_LEN
DataOf(data, p)   == SubSeq(data, DataAt(p), p + TotalLen(data, p) - 1)

(* What the accessors of numbers read, whatever the length says; a unit    *)
(* has base values.                                                        *)
DataU32(data, p)       == data[DataAt(p)]
DataU64(data, p, base) == DataU32(data, p) + base * data[DataAt(p) + 1]

(* Wrong: a TLV that ends where the buffer does is not valid.               *)
ValidStrict(data, it) == it.attr # NULL /\ it.len # 0 /\ it.len > TotalLen(data, it.attr)

(* std_tlv_valid()                                                         *)
Valid(data, it) == it.attr # NULL /\ it.len # 0 /\ it.len >= TotalLen(data, it.attr)

(* std_tlv_next(): the length stays as it was when there is no next.       *)
NextTlv(data, it) ==
    IF it.attr = NULL \/ it.len < TotalLen(data, it.attr)
    THEN At(NULL, it.len)
    ELSE At(it.attr + TotalLen(data, it.attr), it.len - TotalLen(data, it.attr))

(* Where a loop stands after n turns that goes from a TLV to the next as   *)
(* long as there is one, and stops at the first with one of the tags.      *)
Turns(data, it, tags) ==
    LET at[n \in Nat] ==
            IF n = 0 THEN it
            ELSE LET i == at[n - 1]
                 IN  IF ~Valid(data, i) \/ Tag(data, i.attr) \in tags
                     THEN i ELSE NextTlv(data, i)
    IN  at

(* std_tlv_find_next(): the first TLV with the tag, from the given one on; *)
(* there are no more turns than headers fit into the buffer.               *)
FindNext(data, it, tag) ==
    LET last == Turns(data, it, {tag})[it.len \div STD_TLV_HDR_LEN]
    IN  IF Valid(data, last) THEN last ELSE At(NULL, last.len)

(* The TLVs inside a TLV.                                                  *)
Inside(data, p) == At(DataAt(p), LenOf(data, p))

(* Wrong: on the way into a TLV the length of the outer buffer is kept.    *)
FindBeyond(data, it, tags) ==
    LET into[i \in 1 .. Len(tags)] ==
            LET found == FindNext(data, IF i = 1 THEN it ELSE into[i - 1], tags[i])
            IN  IF found.attr = NULL THEN Nowhere
                ELSE IF i = Len(tags) THEN found
                ELSE At(DataAt(found.attr), found.len - STD_TLV_HDR_LEN)
    IN  into[Len(tags)]

(* std_tlv_efind(): each tag but the last is found and entered.            *)
EFind(data, it, tags) ==
    LET into[i \in 1 .. Len(tags)] ==
            LET found == FindNext(data, IF i = 1 THEN it ELSE into[i - 1], tags[i])
            IN  IF found.attr = NULL THEN Nowhere
                ELSE IF i = Len(tags) THEN found
                ELSE Inside(data, found.attr)
    IN  into[Len(tags)]

(* Wrong: the header is forgotten.                                         *)
FitsData(room, content) == room >= Len(content)

(* std_tlv_add(): is there room, and what is written.                      *)
Fits(room, content)  == room >= Len(content) + STD_TLV_HDR_LEN
Header(tag, content) == <<tag, Len(content)>>
Encode(tag, content) == Header(tag, content) \o content

(* Wrong: most significant unit first.                                     *)
Be64(n, base) == <<n \div base, n % base>>

(* The content of a number, least significant unit first.                  *)
Le32(n)       == <<n>>
Le64(n, base) == <<n % base, n \div base>>
=============================================================================
