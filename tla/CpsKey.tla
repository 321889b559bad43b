------------------------------- MODULE CpsKey -------------------------------
(***************************************************************************)
(* The key of a CPS object (cps_key_internals.h, cps_api_key.h and the     *)
(* accessors of cps_api_operation.h): an array of 32-bit little-endian     *)
(* words, the number of elements first, then the attributes of the key,    *)
(* then the elements: the qualifier, and the path of the class.  Words     *)
(* behind the last element are there, but they are not part of the key.    *)
(*                                                                         *)
(* The key is the head of the message a publisher sends, and what the      *)
(* subscribers of the socket transports hand to the library as a filter:   *)
(* the library delivers the messages that begin with the bytes of it.      *)
(***************************************************************************)
EXTENDS Integers, Sequences

CPS_OBJ_KEY_BYTE_MAX_LEN == 256
CPS_OBJ_KEY_ELEM_SIZE    == 4           \* bytes of a word
CPS_OBJ_KEY_LEN_POS      == 0
CPS_OBJ_KEY_ATTR_POS     == 1
CPS_OBJ_KEY_ELEM_START   == CPS_OBJ_KEY_ATTR_POS + 1
CPS_OBJ_KEY_HEADER_SIZE  == CPS_OBJ_KEY_ELEM_START * CPS_OBJ_KEY_ELEM_SIZE

KeyWords == CPS_OBJ_KEY_BYTE_MAX_LEN \div CPS_OBJ_KEY_ELEM_SIZE

CPS_OBJ_MAX_KEY_LEN == KeyWords - CPS_OBJ_KEY_ELEM_START

(* The elements every key has.                                             *)
CPS_OBJ_KEY_INST_POS   == 0
CPS_OBJ_KEY_CAT_POS    == 1
CPS_OBJ_KEY_SUBCAT_POS == 2

cps_api_qualifier_TARGET == 1

Byte   == 0 .. 255
Word   == { w \in Nat : w \div 16777216 \in Byte }
Stored == [1 .. 4 -> Byte]

cps_api_key_t == [0 .. KeyWords - 1 -> Stored]

-----------------------------------------------------------------------------
(* A word as it is stored, and as it is read.                              *)
HostToKeye(w) ==
    <<w % 256, (w \div 256) % 256, (w \div 65536) % 256, w \div 16777216>>
KeyeToHost(b) == b[1] + 256 * b[2] + 65536 * b[3] + 16777216 * b[4]

RawGet(key, offset)        == KeyeToHost(key[offset])
RawSet(key, offset, field) == [key EXCEPT ![offset] = HostToKeye(field)]

GetLen(key)        == RawGet(key, CPS_OBJ_KEY_LEN_POS)
GetLenInBytes(key) == RawGet(key, CPS_OBJ_KEY_LEN_POS) * CPS_OBJ_KEY_ELEM_SIZE

(* What set_len() and set() assert of their argument, and what they do.    *)
Assertion(n) == n < CPS_OBJ_MAX_KEY_LEN

SetLen(key, len)        == RawSet(key, CPS_OBJ_KEY_LEN_POS, len)
Set(key, offset, field) == RawSet(key, offset + CPS_OBJ_KEY_ELEM_START, field)

ValidOffset(key, offset) == offset < GetLen(key)
ElementAt(key, offset)   == RawGet(key, CPS_OBJ_KEY_ELEM_START + offset)

GetAttr(key)       == RawGet(key, CPS_OBJ_KEY_ATTR_POS)
SetAttr(key, attr) == RawSet(key, CPS_OBJ_KEY_ATTR_POS, attr)

GetQual(key)   == ElementAt(key, CPS_OBJ_KEY_INST_POS)
GetCat(key)    == ElementAt(key, CPS_OBJ_KEY_CAT_POS)
GetSubcat(key) == ElementAt(key, CPS_OBJ_KEY_SUBCAT_POS)

(* init_from_array(): memcpy() of the elements, which on a little-endian   *)
(* host are stored as the key stores them, then set_len().                 *)
ElemStart == CPS_OBJ_KEY_ELEM_START

InitFromArray(key, elems) ==
    SetLen([ i \in 0 .. KeyWords - 1 |->
               IF i - ElemStart + 1 \in 1 .. Len(elems)
               THEN HostToKeye(elems[i - ElemStart + 1]) ELSE key[i] ],
           Len(elems))

(* The bytes of a key that count, which are those copy() copies.           *)
ByteAt(key, i) == key[i \div CPS_OBJ_KEY_ELEM_SIZE][(i % CPS_OBJ_KEY_ELEM_SIZE) + 1]

Wire(key) ==
    [ i \in 1 .. CPS_OBJ_KEY_HEADER_SIZE + GetLenInBytes(key) |-> ByteAt(key, i - 1) ]

Copy(dest, src) ==
    [ i \in 0 .. KeyWords - 1 |->
        IF i * CPS_OBJ_KEY_ELEM_SIZE < GetLenInBytes(src) + CPS_OBJ_KEY_HEADER_SIZE
        THEN src[i] ELSE dest[i] ]

-----------------------------------------------------------------------------
(* cps_api_key_from_attr_with_qual(), which is external: the qualifier in  *)
(* front of the path of the class.  It leaves the attributes of the key as *)
(* they are; those of subscription_c::key_m are whatever was in memory.    *)
KeyFromAttrWithQual(key, path, qual) == InitFromArray(key, <<qual>> \o path)

Unset == [ i \in 0 .. KeyWords - 1 |-> <<90, 165, 165, 90>> ]

(* The key a message begins with, and the rest, as the external            *)
(* cps_api_array_to_object() takes them apart.                             *)
FromWire(message) ==
    LET len   == KeyeToHost(SubSeq(message, 1, CPS_OBJ_KEY_ELEM_SIZE))
        bytes == CPS_OBJ_KEY_HEADER_SIZE + len * CPS_OBJ_KEY_ELEM_SIZE
    IN  [ key  |-> [ i \in 0 .. KeyWords - 1 |->
                       IF i * CPS_OBJ_KEY_ELEM_SIZE < bytes
                       THEN SubSeq(message, 4 * i + 1, 4 * i + 4) ELSE Unset[i] ],
          rest |-> SubSeq(message, bytes + 1, Len(message)) ]

(* cps_class_string_from_key(key, 1), which is external: the path, without *)
(* the qualifier.                                                          *)
ClassPath(key) == [ i \in 1 .. GetLen(key) - 1 |-> ElementAt(key, i) ]

(* setsockopt(SUBSCRIBE, &key_m, get_len(&key_m)): the filter.             *)
Filter(key) == SubSeq(Wire(key), 1, GetLen(key))

(* What the library lets through: the messages that begin with the filter. *)
Passes(filter, message) ==
    Len(filter) <= Len(message) /\ SubSeq(message, 1, Len(filter)) = filter
=============================================================================
