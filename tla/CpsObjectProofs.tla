-------------------------- MODULE CpsObjectProofs --------------------------
(***************************************************************************)
(* What the operations on keys do, for every key, whatever stood in its    *)
(* memory before, as long as the assertions of the code hold; and what the *)
(* setters of an object do to the TLVs in its buffer, for every class,     *)
(* every capacity and every value.                                         *)
(***************************************************************************)
EXTENDS CpsObject, SequenceTheorems, WellFoundedInduction, TLAPS

-----------------------------------------------------------------------------
(* Keys.                                                                   *)

(* A word is read as it was stored: CPS_API_KEYE_TO_HOST undoes            *)
(* CPS_API_HOST_TO_KEYE.                                                   *)
LEMMA WordRoundTrip ==
    ASSUME NEW w \in Word
    PROVE  HostToKeye(w) \in Stored /\ KeyeToHost(HostToKeye(w)) = w
<1>1. w \in Nat /\ w \div 16777216 \in 0 .. 255
  BY DEF Word, Byte
<1>2. /\ w % 256 \in 0 .. 255
      /\ (w \div 256) % 256 \in 0 .. 255
      /\ (w \div 65536) % 256 \in 0 .. 255
  BY <1>1
<1>3. (w % 256) + 256 * ((w \div 256) % 256) + 65536 * ((w \div 65536) % 256)
         + 16777216 * (w \div 16777216) = w
  BY <1>1
<1> QED
  BY <1>1, <1>2, <1>3 DEF HostToKeye, KeyeToHost, Stored, Byte

(* A number of a low byte and of what is above it, which it determines.    *)
Digit(x, rest) == x + 256 * rest

LEMMA LowDigit ==
    ASSUME NEW x \in Byte, NEW y \in Byte, NEW g \in Nat, NEW h \in Nat,
           Digit(x, g) = Digit(y, h)
    PROVE  x = y /\ g = h
<1>1. x \in 0 .. 255 /\ y \in 0 .. 255 /\ x + 256 * g = y + 256 * h
  BY DEF Byte, Digit
<1> QED
  BY <1>1

LEMMA DigitNat ==
    ASSUME NEW x \in Byte, NEW g \in Nat
    PROVE  Digit(x, g) \in Nat
BY DEF Byte, Digit

LEMMA HostIsDigits ==
    ASSUME NEW c \in Stored
    PROVE  KeyeToHost(c) = Digit(c[1], Digit(c[2], Digit(c[3], c[4])))
<1>1. c[1] \in Nat /\ c[2] \in Nat /\ c[3] \in Nat /\ c[4] \in Nat
  BY DEF Stored, Byte
<1>2. \A p, q, r, t \in Nat :
        p + 256 * q + 65536 * r + 16777216 * t = Digit(p, Digit(q, Digit(r, t)))
  BY DEF Digit
<1>3. PICK p \in Nat, q \in Nat, r \in Nat, t \in Nat :
        c[1] = p /\ c[2] = q /\ c[3] = r /\ c[4] = t
  BY <1>1
<1>4. KeyeToHost(c) = p + 256 * q + 65536 * r + 16777216 * t
  BY <1>3 DEF KeyeToHost
<1> QED
  BY <1>2, <1>3, <1>4

(* Two words that are read alike are stored alike.                         *)
LEMMA StoredOnce ==
    ASSUME NEW a \in Stored, NEW b \in Stored, KeyeToHost(a) = KeyeToHost(b)
    PROVE  a = b
<1> DEFINE Top(c)  == Digit(c[3], c[4])
           Rest(c) == Digit(c[2], Top(c))
<1>1. /\ a[1] \in Byte /\ a[2] \in Byte /\ a[3] \in Byte /\ a[4] \in Byte
      /\ b[1] \in Byte /\ b[2] \in Byte /\ b[3] \in Byte /\ b[4] \in Byte
  BY DEF Stored
<1>2. a[4] \in Nat /\ b[4] \in Nat
  BY <1>1 DEF Byte
<1>3. Top(a) \in Nat /\ Top(b) \in Nat
  BY <1>1, <1>2, DigitNat
<1>4. Rest(a) \in Nat /\ Rest(b) \in Nat
  BY <1>1, <1>3, DigitNat
<1>5. KeyeToHost(a) = Digit(a[1], Rest(a)) /\ KeyeToHost(b) = Digit(b[1], Rest(b))
  BY HostIsDigits
<1>6. a[1] = b[1] /\ Rest(a) = Rest(b)
  <2>1. Digit(a[1], Rest(a)) = Digit(b[1], Rest(b))
    BY <1>5
  <2> HIDE DEF Rest
  <2> QED
    BY <1>1, <1>4, <2>1, LowDigit
<1>7. a[2] = b[2] /\ Top(a) = Top(b)
  <2> HIDE DEF Top
  <2> QED
    BY <1>1, <1>3, <1>6, LowDigit
<1>8. a[3] = b[3] /\ a[4] = b[4]
  BY <1>1, <1>2, <1>7, LowDigit
<1> QED
  BY <1>6, <1>7, <1>8 DEF Stored

LEMMA RawRoundTrip ==
    ASSUME NEW key \in cps_api_key_t, NEW n \in 0 .. KeyWords - 1, NEW w \in Word
    PROVE  /\ RawSet(key, n, w) \in cps_api_key_t
           /\ RawGet(RawSet(key, n, w), n) = w
           /\ \A m \in 0 .. KeyWords - 1 :
                 m # n => RawGet(RawSet(key, n, w), m) = RawGet(key, m)
<1>1. HostToKeye(w) \in Stored /\ KeyeToHost(HostToKeye(w)) = w
  BY WordRoundTrip
<1> QED
  BY <1>1 DEF RawSet, RawGet, cps_api_key_t

LEMMA Sizes ==
    KeyWords = 64 /\ CPS_OBJ_MAX_KEY_LEN = 62 /\ CPS_OBJ_KEY_HEADER_SIZE = 8
BY DEF KeyWords, CPS_OBJ_MAX_KEY_LEN, CPS_OBJ_KEY_HEADER_SIZE, CPS_OBJ_KEY_BYTE_MAX_LEN,
       CPS_OBJ_KEY_ELEM_SIZE, CPS_OBJ_KEY_ELEM_START, CPS_OBJ_KEY_ATTR_POS

(* A number that passes the assertions is a word.                          *)
LEMMA LengthIsWord ==
    ASSUME NEW n \in Nat, Assertion(n)
    PROVE  n \in Word
<1>1. n < 62
  BY Sizes DEF Assertion
<1> QED
  BY <1>1 DEF Word, Byte

(* cps_api_key_set() changes the element at its offset, which              *)
(* cps_api_key_element_at() then returns, and nothing else: neither        *)
(* another element nor the length nor the attributes of the key.           *)
THEOREM SetChangesOneElement ==
    ASSUME NEW key \in cps_api_key_t, NEW offset \in Nat, Assertion(offset),
           NEW field \in Word
    PROVE  LET new == Set(key, offset, field)
           IN  /\ new \in cps_api_key_t
               /\ ElementAt(new, offset) = field
               /\ \A o \in 0 .. CPS_OBJ_MAX_KEY_LEN - 1 :
                     o # offset => ElementAt(new, o) = ElementAt(key, o)
               /\ GetLen(new) = GetLen(key)
               /\ GetAttr(new) = GetAttr(key)
<1>1. offset + 2 \in 0 .. KeyWords - 1
  BY Sizes DEF Assertion
<1>2. \A o \in 0 .. CPS_OBJ_MAX_KEY_LEN - 1 : o + 2 \in 0 .. KeyWords - 1 /\ 2 + o = o + 2
  BY Sizes
<1>3. 0 \in 0 .. KeyWords - 1 /\ 1 \in 0 .. KeyWords - 1
  BY Sizes
<1>4. Set(key, offset, field) = RawSet(key, offset + 2, field)
  BY DEF Set, CPS_OBJ_KEY_ELEM_START, CPS_OBJ_KEY_ATTR_POS
<1>5. \A o \in 0 .. CPS_OBJ_MAX_KEY_LEN - 1 : o # offset => o + 2 # offset + 2
  OBVIOUS
<1> QED
  BY <1>1, <1>2, <1>3, <1>4, <1>5, RawRoundTrip
     DEF ElementAt, GetLen, GetAttr, CPS_OBJ_KEY_ELEM_START, CPS_OBJ_KEY_ATTR_POS,
         CPS_OBJ_KEY_LEN_POS

(* cps_api_key_init_from_array() makes a key of exactly the elements it is *)
(* given, and leaves the attributes of the key alone, whatever stood in    *)
(* the memory.                                                             *)
THEOREM InitFromArrayElements ==
    ASSUME NEW key \in cps_api_key_t, NEW elems \in Seq(Word), Assertion(Len(elems))
    PROVE  LET new == InitFromArray(key, elems)
           IN  /\ new \in cps_api_key_t
               /\ GetLen(new) = Len(elems)
               /\ \A o \in 0 .. Len(elems) - 1 :
                     ValidOffset(new, o) /\ ElementAt(new, o) = elems[o + 1]
               /\ GetAttr(new) = GetAttr(key)
<1> DEFINE copied == [ i \in 0 .. KeyWords - 1 |->
                         IF i - ElemStart + 1 \in 1 .. Len(elems)
                         THEN HostToKeye(elems[i - ElemStart + 1]) ELSE key[i] ]
<1>1. Len(elems) \in Nat /\ Len(elems) < 62 /\ Len(elems) \in Word
  BY LengthIsWord, Sizes DEF Assertion
<1>2. ElemStart = 2
  BY DEF ElemStart, CPS_OBJ_KEY_ELEM_START, CPS_OBJ_KEY_ATTR_POS
<1>3. \A i \in 1 .. Len(elems) : /\ HostToKeye(elems[i]) \in Stored
                                 /\ KeyeToHost(HostToKeye(elems[i])) = elems[i]
  BY WordRoundTrip
<1>4. copied \in cps_api_key_t
  BY <1>1, <1>2, <1>3 DEF cps_api_key_t
<1>5. \A o \in 0 .. Len(elems) - 1 : RawGet(copied, o + 2) = elems[o + 1]
  <2> SUFFICES ASSUME NEW o \in 0 .. Len(elems) - 1
               PROVE  RawGet(copied, o + 2) = elems[o + 1]
    OBVIOUS
  <2>1. o + 2 \in 0 .. KeyWords - 1 /\ (o + 2) - 2 + 1 = o + 1 /\ o + 1 \in 1 .. Len(elems)
    BY <1>1, Sizes
  <2>2. copied[o + 2] = HostToKeye(elems[o + 1])
    BY <2>1, <1>2
  <2> QED
    BY <2>1, <2>2, <1>3 DEF RawGet
<1>6. RawGet(copied, 1) = RawGet(key, 1)
  BY <1>1, <1>2, Sizes DEF RawGet
<1>7. InitFromArray(key, elems) = RawSet(copied, 0, Len(elems))
  BY DEF InitFromArray, SetLen, CPS_OBJ_KEY_LEN_POS
<1> HIDE DEF copied
<1>8. /\ RawSet(copied, 0, Len(elems)) \in cps_api_key_t
      /\ RawGet(RawSet(copied, 0, Len(elems)), 0) = Len(elems)
      /\ \A m \in 0 .. KeyWords - 1 :
            m # 0 => RawGet(RawSet(copied, 0, Len(elems)), m) = RawGet(copied, m)
  <2>1. 0 \in 0 .. KeyWords - 1
    BY Sizes
  <2> QED
    BY <1>1, <1>4, <2>1, RawRoundTrip
<1>9. \A o \in 0 .. Len(elems) - 1 :
        /\ o + 2 \in 0 .. KeyWords - 1 /\ o + 2 # 0 /\ 2 + o = o + 2
        /\ o < Len(elems)
  BY <1>1, Sizes
<1>10. 1 \in 0 .. KeyWords - 1
  BY Sizes
<1> QED
  BY <1>5, <1>6, <1>7, <1>8, <1>9, <1>10
     DEF GetLen, GetAttr, ValidOffset, ElementAt, CPS_OBJ_KEY_LEN_POS,
         CPS_OBJ_KEY_ATTR_POS, CPS_OBJ_KEY_ELEM_START

(* The key of a class: its qualifier, its category and sub-category, which *)
(* the accessors of cps_api_operation.h return, and its path.              *)
THEOREM KeyFields ==
    ASSUME NEW key \in cps_api_key_t, NEW cat \in Word, NEW subcat \in Word,
           NEW qual \in Word
    PROVE  LET new == KeyFromAttrWithQual(key, <<cat, subcat>>, qual)
           IN  /\ new \in cps_api_key_t
               /\ GetLen(new) = 3
               /\ GetQual(new) = qual /\ GetCat(new) = cat /\ GetSubcat(new) = subcat
               /\ ClassPath(new) = <<cat, subcat>>
<1> DEFINE elems == <<qual>> \o <<cat, subcat>>
           new   == KeyFromAttrWithQual(key, <<cat, subcat>>, qual)
<1>1. elems[1] = qual /\ elems[2] = cat /\ elems[3] = subcat
  OBVIOUS
<1>2. elems \in Seq(Word) /\ Len(elems) = 3
  OBVIOUS
<1>3. Assertion(Len(elems))
  BY <1>2, Sizes DEF Assertion
<1>4. new = InitFromArray(key, elems)
  BY DEF KeyFromAttrWithQual
<1>5. /\ new \in cps_api_key_t
      /\ GetLen(new) = 3
      /\ \A o \in 0 .. 2 : ElementAt(new, o) = elems[o + 1]
  <2> HIDE DEF elems, new
  <2>1. /\ new \in cps_api_key_t
        /\ GetLen(new) = Len(elems)
        /\ \A o \in 0 .. Len(elems) - 1 : ElementAt(new, o) = elems[o + 1]
    BY <1>2, <1>3, <1>4, InitFromArrayElements
  <2> QED
    BY <1>2, <2>1
<1>6. ElementAt(new, 0) = qual /\ ElementAt(new, 1) = cat /\ ElementAt(new, 2) = subcat
  <2> HIDE DEF new
  <2>1. ElementAt(new, 0) = elems[1] /\ ElementAt(new, 1) = elems[2]
        /\ ElementAt(new, 2) = elems[3]
    BY <1>5
  <2> QED
    BY <2>1, <1>1
<1> HIDE DEF elems, new
<1>7. ClassPath(new) = <<cat, subcat>>
  <2>1. ClassPath(new) = [i \in 1 .. 2 |-> ElementAt(new, i)]
    BY <1>5 DEF ClassPath
  <2> QED
    BY <2>1, <1>6
<1> QED
  BY <1>5, <1>6, <1>7
     DEF new, GetQual, GetCat, GetSubcat, CPS_OBJ_KEY_INST_POS, CPS_OBJ_KEY_CAT_POS,
         CPS_OBJ_KEY_SUBCAT_POS

(* cps_api_key_copy() copies a key whole: the copy has the bytes of the    *)
(* original, and what stood in the memory before does not show.            *)
THEOREM CopyIsWhole ==
    ASSUME NEW dest \in cps_api_key_t, NEW src \in cps_api_key_t,
           GetLen(src) \in 0 .. CPS_OBJ_MAX_KEY_LEN
    PROVE  Copy(dest, src) \in cps_api_key_t /\ Wire(Copy(dest, src)) = Wire(src)
<1> DEFINE bytes == CPS_OBJ_KEY_HEADER_SIZE + GetLenInBytes(src)
<1>1. GetLenInBytes(src) = 4 * GetLen(src) /\ bytes = 8 + 4 * GetLen(src)
  BY Sizes DEF GetLenInBytes, GetLen, CPS_OBJ_KEY_ELEM_SIZE
<1>2. bytes \in 8 .. 256
  BY <1>1, Sizes
<1>3. Copy(dest, src) \in cps_api_key_t
  BY DEF Copy, cps_api_key_t
<1>4. \A i \in 1 .. bytes : ByteAt(Copy(dest, src), i - 1) = ByteAt(src, i - 1)
  <2> SUFFICES ASSUME NEW i \in 1 .. bytes
               PROVE  ByteAt(Copy(dest, src), i - 1) = ByteAt(src, i - 1)
    OBVIOUS
  <2>1. (i - 1) \div 4 \in 0 .. 63 /\ ((i - 1) \div 4) * 4 < 8 + 4 * GetLen(src)
    BY <1>1, <1>2
  <2>2. Copy(dest, src)[(i - 1) \div 4] = src[(i - 1) \div 4]
    BY <2>1, <1>1, Sizes DEF Copy, CPS_OBJ_KEY_ELEM_SIZE
  <2> QED
    BY <2>2 DEF ByteAt, CPS_OBJ_KEY_ELEM_SIZE
<1>5. GetLenInBytes(Copy(dest, src)) = GetLenInBytes(src)
  <2>1. Copy(dest, src)[0] = src[0]
    BY <1>1, Sizes DEF Copy, CPS_OBJ_KEY_ELEM_SIZE
  <2> QED
    BY <2>1 DEF GetLenInBytes, RawGet, CPS_OBJ_KEY_LEN_POS
<1> QED
  BY <1>3, <1>4, <1>5 DEF Wire

(* The filter of a key of no more than four elements is the first bytes of *)
(* its length: GetLen() counts elements, and the length of a filter is in  *)
(* bytes.  Whatever the category, and whatever stood in the memory of the  *)
(* key before, it lets pass the messages of every key as long.             *)
THEOREM ShortFilterSeesLength ==
    ASSUME NEW key \in cps_api_key_t, NEW other \in cps_api_key_t,
           GetLen(key) \in 0 .. 4, GetLen(other) = GetLen(key)
    PROVE  Passes(Filter(key), Wire(other))
<1> DEFINE n == GetLen(key)
<1>1. n \in 0 .. 4
  OBVIOUS
<1>2. \A k \in {key, other} :
        /\ Wire(k) \in Seq(Byte)
        /\ Len(Wire(k)) = 8 + 4 * n
        /\ \A i \in 1 .. 4 : Wire(k)[i] = k[0][i]
  <2> SUFFICES ASSUME NEW k \in {key, other}
               PROVE  /\ Wire(k) \in Seq(Byte)
                      /\ Len(Wire(k)) = 8 + 4 * n
                      /\ \A i \in 1 .. 4 : Wire(k)[i] = k[0][i]
    OBVIOUS
  <2>1. CPS_OBJ_KEY_HEADER_SIZE + GetLenInBytes(k) = 8 + 4 * n
    BY <1>1, Sizes DEF GetLenInBytes, GetLen, CPS_OBJ_KEY_ELEM_SIZE
  <2>2. Wire(k) = [i \in 1 .. 8 + 4 * n |-> ByteAt(k, i - 1)]
    BY <2>1 DEF Wire
  <2>3. \A i \in 1 .. 8 + 4 * n : ByteAt(k, i - 1) \in Byte
    <3> SUFFICES ASSUME NEW i \in 1 .. 8 + 4 * n
                 PROVE  ByteAt(k, i - 1) \in Byte
      OBVIOUS
    <3>1. (i - 1) \div 4 \in 0 .. KeyWords - 1 /\ ((i - 1) % 4) + 1 \in 1 .. 4
      BY <1>1, Sizes
    <3>2. k[(i - 1) \div 4] \in Stored
      BY <3>1 DEF cps_api_key_t
    <3>3. \A b \in Stored : \A j \in 1 .. 4 : b[j] \in Byte
      BY DEF Stored
    <3> QED
      BY <3>1, <3>2, <3>3 DEF ByteAt, CPS_OBJ_KEY_ELEM_SIZE
  <2>4. \A i \in 1 .. 4 : ByteAt(k, i - 1) = k[0][i]
    <3>1. \A i \in 1 .. 4 : (i - 1) \div 4 = 0 /\ ((i - 1) % 4) + 1 = i
      OBVIOUS
    <3> QED
      BY <3>1 DEF ByteAt, CPS_OBJ_KEY_ELEM_SIZE
  <2>5. \A i \in 1 .. 4 : i \in 1 .. 8 + 4 * n
    BY <1>1
  <2> QED
    BY <1>1, <2>2, <2>3, <2>4, <2>5
<1>3. key[0] = other[0]
  <2>1. KeyeToHost(key[0]) = KeyeToHost(other[0])
    BY DEF GetLen, RawGet, CPS_OBJ_KEY_LEN_POS
  <2>2. key[0] \in Stored /\ other[0] \in Stored
    BY Sizes DEF cps_api_key_t
  <2> QED
    BY <2>1, <2>2, StoredOnce
<1>4. Filter(key) = SubSeq(Wire(key), 1, n) /\ n <= Len(Wire(key)) /\ n <= Len(Wire(other))
  BY <1>1, <1>2 DEF Filter
<1>5. Len(Filter(key)) = n /\ \A i \in 1 .. n : Filter(key)[i] = key[0][i]
  BY <1>1, <1>2, <1>4
<1>6. /\ Len(SubSeq(Wire(other), 1, n)) = n
      /\ \A i \in 1 .. n : SubSeq(Wire(other), 1, n)[i] = other[0][i]
  BY <1>1, <1>2, <1>4
<1>7. SubSeq(Wire(other), 1, n) = Filter(key)
  <2>1. SubSeq(Wire(other), 1, n) \in Seq(Byte) /\ Filter(key) \in Seq(Byte)
    BY <1>1, <1>2, <1>4
  <2> QED
    BY <1>3, <1>5, <1>6, <2>1
<1> QED
  BY <1>4, <1>5, <1>7 DEF Passes

-----------------------------------------------------------------------------
(* The walk from a TLV to the next.                                        *)

(* A set of numbers that is not empty has a smallest one.                  *)
LEMMA SmallestNat ==
    ASSUME NEW T \in SUBSET Nat, T # {}
    PROVE  \E n \in T : \A m \in T : n <= m
<1>1. PICK n \in T : \A m \in T : ~(<<m, n>> \in OpToRel(<, Nat))
  BY NatLessThanWellFounded, WFMin
<1>2. \A m \in T : ~(m < n)
  BY <1>1 DEF OpToRel
<1> QED
  BY <1>2

(* One turn of the loop of std_tlv_find_next().                            *)
Turn(data, tags, i) ==
    IF ~Valid(data, i) \/ Tag(data, i.attr) \in tags THEN i ELSE NextTlv(data, i)

(* The loop is at f if f is at its start and makes its turns.              *)
LEMMA TurnsAre ==
    ASSUME NEW data, NEW it, NEW tags, NEW f,
           f = [n \in Nat |-> IF n = 0 THEN it ELSE Turn(data, tags, f[n - 1])]
    PROVE  Turns(data, it, tags) = f
<1> DEFINE g == Turns(data, it, tags)
<1>1. g = [n \in Nat |-> IF n = 0 THEN it ELSE Turn(data, tags, g[n - 1])]
  <2>1. g = CHOOSE at : at = [n \in Nat |-> IF n = 0 THEN it ELSE Turn(data, tags, at[n - 1])]
    BY DEF Turns, Turn
  <2> HIDE DEF g
  <2> QED
    BY <2>1
<1> HIDE DEF g
<1> DEFINE Bad == { n \in Nat : g[n] # f[n] }
<1>2. SUFFICES ASSUME Bad # {}
               PROVE  FALSE
  <2>1. \A n \in Nat : g[n] = f[n]
    BY <1>2
  <2> QED
    BY <1>1, <2>1 DEF g
<1>3. PICK n \in Bad : \A m \in Bad : n <= m
  <2>1. Bad \in SUBSET Nat
    OBVIOUS
  <2> HIDE DEF Bad
  <2> QED
    BY <1>2, <2>1, SmallestNat
<1>4. n \in Nat /\ g[n] # f[n]
  BY <1>3
<1>5. n # 0
  BY <1>1, <1>4
<1>6. n - 1 \in Nat /\ g[n - 1] = f[n - 1]
  BY <1>3, <1>4, <1>5
<1> QED
  BY <1>1, <1>4, <1>5, <1>6

(* n TLVs, the k-th at p[k], fill data from s up to e.                     *)
Laid(data, s, e, n, p) ==
    /\ n \in Nat /\ s \in Nat \ {0} /\ e \in Nat
    /\ p \in [0 .. n -> Nat] /\ p[0] = s /\ p[n] = e
    /\ \A k \in 0 .. n - 1 :
          LenOf(data, p[k]) \in Nat /\ p[k + 1] = p[k] + LenOf(data, p[k]) + 2

(* Each of them takes the room of a header at least.                       *)
LEMMA LaidGrows ==
    ASSUME NEW data, NEW s, NEW e, NEW n, NEW p, Laid(data, s, e, n, p)
    PROVE  \A j, k \in 0 .. n : j <= k => p[j] + 2 * (k - j) <= p[k]
<1>1. n \in Nat /\ \A k \in 0 .. n : p[k] \in Nat
  BY DEF Laid
<1> SUFFICES ASSUME NEW j \in 0 .. n
             PROVE  \A k \in 0 .. n : j <= k => p[j] + 2 * (k - j) <= p[k]
  OBVIOUS
<1> DEFINE Bad == { k \in 0 .. n : j <= k /\ ~(p[j] + 2 * (k - j) <= p[k]) }
<1>2. SUFFICES ASSUME Bad # {}
               PROVE  FALSE
  BY <1>2
<1>3. PICK k \in Bad : \A m \in Bad : k <= m
  <2>1. Bad \in SUBSET Nat
    BY <1>1
  <2> HIDE DEF Bad
  <2> QED
    BY <1>2, <2>1, SmallestNat
<1>4. k \in 0 .. n /\ j <= k /\ ~(p[j] + 2 * (k - j) <= p[k])
  BY <1>3
<1>5. k # j
  BY <1>1, <1>4
<1>6. k - 1 \in 0 .. n - 1 /\ j <= k - 1 /\ (k - 1) + 1 = k
  BY <1>1, <1>4, <1>5
<1>7. p[j] + 2 * ((k - 1) - j) <= p[k - 1]
  <2>1. k - 1 \notin Bad
    BY <1>1, <1>3, <1>4
  <2> QED
    BY <1>1, <1>6, <2>1
<1>8. p[k] = p[k - 1] + LenOf(data, p[k - 1]) + 2 /\ LenOf(data, p[k - 1]) \in Nat
  BY <1>6 DEF Laid
<1> QED
  BY <1>1, <1>4, <1>6, <1>7, <1>8

LEMMA LaidPlaces ==
    ASSUME NEW data, NEW s, NEW e, NEW n, NEW p, Laid(data, s, e, n, p)
    PROVE  /\ n \in Nat /\ s \in Nat \ {0} /\ e \in Nat /\ s + 2 * n <= e
           /\ \A k \in 0 .. n :
                 p[k] \in Nat \ {0} /\ s + 2 * k <= p[k] /\ p[k] + 2 * (n - k) <= e
           /\ \A j, k \in 0 .. n : j < k => p[j] < p[k]
<1>1. n \in Nat /\ s \in Nat \ {0} /\ e \in Nat /\ p[0] = s /\ p[n] = e
      /\ \A k \in 0 .. n : p[k] \in Nat
  BY DEF Laid
<1>2. \A j, k \in 0 .. n : j <= k => p[j] + 2 * (k - j) <= p[k]
  BY LaidGrows
<1>3. \A k \in 0 .. n : s + 2 * k <= p[k] /\ p[k] + 2 * (n - k) <= e
  <2> SUFFICES ASSUME NEW k \in 0 .. n
               PROVE  s + 2 * k <= p[k] /\ p[k] + 2 * (n - k) <= e
    OBVIOUS
  <2>1. 0 \in 0 .. n /\ n \in 0 .. n /\ 0 <= k /\ k <= n
    BY <1>1
  <2>2. p[0] + 2 * (k - 0) <= p[k] /\ p[k] + 2 * (n - k) <= p[n]
    BY <1>2, <2>1
  <2> QED
    BY <1>1, <2>2
<1>4. s + 2 * n <= e
  <2>1. n \in 0 .. n
    BY <1>1
  <2> QED
    BY <1>1, <1>3, <2>1
<1>5. \A k \in 0 .. n : p[k] # 0
  <2> SUFFICES ASSUME NEW k \in 0 .. n
               PROVE  p[k] # 0
    OBVIOUS
  <2> QED
    BY <1>1, <1>3
<1>6. \A j, k \in 0 .. n : j < k => p[j] < p[k]
  <2> SUFFICES ASSUME NEW j \in 0 .. n, NEW k \in 0 .. n, j < k
               PROVE  p[j] < p[k]
    OBVIOUS
  <2>1. p[j] + 2 * (k - j) <= p[k]
    BY <1>1, <1>2
  <2> QED
    BY <1>1, <2>1
<1> QED
  BY <1>1, <1>3, <1>4, <1>5, <1>6

(* The iterator at the k-th TLV is valid, and goes to the next one; the    *)
(* one behind the last TLV is not.                                         *)
LEMMA LaidValid ==
    ASSUME NEW data, NEW s, NEW e, NEW n, NEW p, Laid(data, s, e, n, p)
    PROVE  /\ \A k \in 0 .. n - 1 :
                 /\ Valid(data, At(p[k], e - p[k]))
                 /\ NextTlv(data, At(p[k], e - p[k])) = At(p[k + 1], e - p[k + 1])
           /\ ~Valid(data, At(p[n], e - p[n]))
<1>1. /\ n \in Nat /\ e \in Nat /\ p[n] = e
      /\ \A k \in 0 .. n : p[k] \in Nat \ {0} /\ p[k] + 2 * (n - k) <= e
  BY LaidPlaces DEF Laid
<1>2. ASSUME NEW k \in 0 .. n - 1
      PROVE  /\ Valid(data, At(p[k], e - p[k]))
             /\ NextTlv(data, At(p[k], e - p[k])) = At(p[k + 1], e - p[k + 1])
  <2>1. k \in 0 .. n /\ k + 1 \in 0 .. n /\ n - (k + 1) \in Nat
    BY <1>1
  <2>2. LenOf(data, p[k]) \in Nat /\ p[k + 1] = p[k] + LenOf(data, p[k]) + 2
    BY DEF Laid
  <2>3. TotalLen(data, p[k]) = LenOf(data, p[k]) + 2
    BY DEF TotalLen, STD_TLV_HDR_LEN
  <2>4. p[k] \in Nat \ {0} /\ p[k + 1] \in Nat /\ p[k + 1] <= e
    BY <1>1, <2>1
  <2>5. PICK x \in Nat, y \in Nat, l \in Nat :
          x = p[k] /\ y = p[k + 1] /\ l = LenOf(data, p[k])
    BY <2>2, <2>4
  <2>6. x # 0 /\ y = x + l + 2 /\ y <= e
    BY <2>2, <2>4, <2>5
  <2>7. e - x # 0 /\ e - x >= l + 2 /\ ~(e - x < l + 2)
        /\ x + (l + 2) = y /\ e - x - (l + 2) = e - y
    BY <1>1, <2>6
  <2> QED
    BY <2>3, <2>5, <2>6, <2>7 DEF Valid, NextTlv, At, NULL
<1>3. ~Valid(data, At(p[n], e - p[n]))
  BY <1>1 DEF Valid, At
<1> QED
  BY <1>2, <1>3

(* A loop over TLVs stops at the first that it looks for, or behind them.  *)
LEMMA TurnsLaid ==
    ASSUME NEW data, NEW s, NEW e, NEW n, NEW p, Laid(data, s, e, n, p),
           NEW tags, NEW q \in 0 .. n,
           q = n \/ Tag(data, p[q]) \in tags,
           \A j \in 0 .. q - 1 : Tag(data, p[j]) \notin tags
    PROVE  \A m \in Nat :
              Turns(data, At(s, e - s), tags)[m] =
                 IF m < q THEN At(p[m], e - p[m]) ELSE At(p[q], e - p[q])
<1> DEFINE f == [m \in Nat |-> IF m < q THEN At(p[m], e - p[m]) ELSE At(p[q], e - p[q])]
<1>1. n \in Nat /\ p[0] = s /\ q \in Nat
  BY LaidPlaces DEF Laid
<1>2. f[0] = At(s, e - s)
  BY <1>1
<1>3. ASSUME NEW m \in Nat, m # 0
      PROVE  f[m] = Turn(data, tags, f[m - 1])
  <2>1. CASE m - 1 < q
    <3>1. m - 1 \in 0 .. n - 1 /\ m - 1 \in 0 .. q - 1 /\ m - 1 \in Nat /\ (m - 1) + 1 = m
      BY <1>1, <1>3, <2>1
    <3>2. f[m - 1] = At(p[m - 1], e - p[m - 1])
      BY <2>1, <3>1
    <3>3. /\ Valid(data, At(p[m - 1], e - p[m - 1]))
          /\ NextTlv(data, At(p[m - 1], e - p[m - 1])) = At(p[m], e - p[m])
      BY <3>1, LaidValid
    <3>4. Tag(data, At(p[m - 1], e - p[m - 1]).attr) \notin tags
      BY <3>1 DEF At
    <3>5. f[m] = At(p[m], e - p[m])
      BY <1>1, <2>1
    <3> HIDE DEF f
    <3> QED
      BY <3>2, <3>3, <3>4, <3>5 DEF Turn
  <2>2. CASE ~(m - 1 < q)
    <3>1. m - 1 \in Nat /\ ~(m < q)
      BY <1>1, <1>3, <2>2
    <3>2. f[m - 1] = At(p[q], e - p[q]) /\ f[m] = At(p[q], e - p[q])
      BY <2>2, <3>1
    <3>3. ~Valid(data, At(p[q], e - p[q])) \/ Tag(data, At(p[q], e - p[q]).attr) \in tags
      BY LaidValid DEF At
    <3> HIDE DEF f
    <3> QED
      BY <3>2, <3>3 DEF Turn
  <2> QED
    BY <2>1, <2>2
<1>4. f = [m \in Nat |-> IF m = 0 THEN At(s, e - s) ELSE Turn(data, tags, f[m - 1])]
  <2>1. \A m \in Nat : f[m] = IF m = 0 THEN At(s, e - s) ELSE Turn(data, tags, f[m - 1])
    <3> HIDE DEF f
    <3> QED
      BY <1>2, <1>3
  <2> QED
    BY <2>1
<1>5. Turns(data, At(s, e - s), tags) = f
  <2> HIDE DEF f
  <2> QED
    BY <1>4, TurnsAre
<1> QED
  BY <1>5

(* std_tlv_find_next() finds the first TLV with the tag.                   *)
LEMMA FindLaid ==
    ASSUME NEW data, NEW s, NEW e, NEW n, NEW p, Laid(data, s, e, n, p),
           NEW tag, NEW k \in 0 .. n - 1, Tag(data, p[k]) = tag,
           \A j \in 0 .. k - 1 : Tag(data, p[j]) # tag
    PROVE  FindNext(data, At(s, e - s), tag) = At(p[k], e - p[k])
<1>1. n \in Nat /\ s \in Nat \ {0} /\ e \in Nat /\ s + 2 * n <= e
  BY LaidPlaces
<1>2. k \in 0 .. n
  BY <1>1
<1> DEFINE last == (e - s) \div 2
<1>3. last \in Nat /\ ~(last < k)
  BY <1>1, <1>2
<1>4. At(s, e - s).len \div STD_TLV_HDR_LEN = last
  BY DEF At, STD_TLV_HDR_LEN
<1>5. Turns(data, At(s, e - s), {tag})[last] = At(p[k], e - p[k])
  <2> HIDE DEF last
  <2>1. \A m \in Nat : Turns(data, At(s, e - s), {tag})[m] =
                          IF m < k THEN At(p[m], e - p[m]) ELSE At(p[k], e - p[k])
    BY <1>2, TurnsLaid
  <2> QED
    BY <1>3, <2>1
<1>6. Valid(data, At(p[k], e - p[k]))
  BY LaidValid
<1> QED
  BY <1>4, <1>5, <1>6 DEF FindNext

(* It finds nothing if there is none.                                      *)
LEMMA FindNothing ==
    ASSUME NEW data, NEW s, NEW e, NEW n, NEW p, Laid(data, s, e, n, p),
           NEW tag, \A j \in 0 .. n - 1 : Tag(data, p[j]) # tag
    PROVE  FindNext(data, At(s, e - s), tag).attr = NULL
<1>1. n \in Nat /\ s \in Nat \ {0} /\ e \in Nat /\ s + 2 * n <= e
  BY LaidPlaces
<1>2. n \in 0 .. n
  BY <1>1
<1> DEFINE last == (e - s) \div 2
<1>3. last \in Nat /\ ~(last < n)
  BY <1>1
<1>4. At(s, e - s).len \div STD_TLV_HDR_LEN = last
  BY DEF At, STD_TLV_HDR_LEN
<1>5. Turns(data, At(s, e - s), {tag})[last] = At(p[n], e - p[n])
  <2> HIDE DEF last
  <2>1. \A m \in Nat : Turns(data, At(s, e - s), {tag})[m] =
                          IF m < n THEN At(p[m], e - p[m]) ELSE At(p[n], e - p[n])
    BY <1>2, TurnsLaid
  <2> QED
    BY <1>3, <2>1
<1>6. ~Valid(data, At(p[n], e - p[n]))
  BY LaidValid
<1> QED
  BY <1>4, <1>5, <1>6 DEF FindNext, At

(* The iterator meets the TLVs in the order in which they lie.             *)
LEMMA WalkLaid ==
    ASSUME NEW data, NEW s, NEW e, NEW n, NEW p, Laid(data, s, e, n, p)
    PROVE  Walk(data, At(s, e - s)) = [k \in 1 .. n |-> Tag(data, p[k - 1])]
<1> DEFINE it == At(s, e - s)
           at == Turns(data, it, {})
           Stop(m) == ~ItValid(data, at[m]) /\ \A j \in 0 .. m - 1 : ItValid(data, at[j])
<1>1. n \in Nat /\ s \in Nat \ {0} /\ e \in Nat /\ s + 2 * n <= e
  BY LaidPlaces
<1>2. \A m \in 0 .. n : at[m] = At(p[m], e - p[m])
  <2>1. n \in 0 .. n /\ 0 .. n \subseteq Nat
    BY <1>1
  <2>2. \A m \in Nat : at[m] = IF m < n THEN At(p[m], e - p[m]) ELSE At(p[n], e - p[n])
    BY <2>1, TurnsLaid
  <2> HIDE DEF at
  <2> QED
    BY <1>1, <2>1, <2>2
<1>3. \A m \in 0 .. n - 1 : ItValid(data, at[m])
  <2> HIDE DEF at
  <2>1. \A m \in 0 .. n - 1 : m \in 0 .. n
    BY <1>1
  <2> QED
    BY <1>2, <2>1, LaidValid DEF ItValid
<1>4. ~ItValid(data, at[n])
  <2> HIDE DEF at
  <2> QED
    BY <1>1, <1>2, LaidValid DEF ItValid
<1>5. (CHOOSE m \in 0 .. it.len : Stop(m)) = n
  <2>1. it.len = e - s /\ n \in 0 .. e - s
    BY <1>1 DEF At
  <2>2. Stop(n)
    BY <1>3, <1>4
  <2>3. \A m \in 0 .. e - s : Stop(m) => m = n
    <3> HIDE DEF at
    <3> SUFFICES ASSUME NEW m \in 0 .. e - s, Stop(m)
                 PROVE  m = n
      OBVIOUS
    <3>1. ~(m < n)
      <4>1. m < n => m \in 0 .. n - 1
        BY <1>1
      <4> QED
        BY <1>3, <4>1
    <3>2. ~(n < m)
      <4>1. n < m => n \in 0 .. m - 1
        BY <1>1
      <4> QED
        BY <1>4, <4>1
    <3> QED
      BY <1>1, <3>1, <3>2
  <2> HIDE DEF Stop, it
  <2> QED
    BY <2>1, <2>2, <2>3
<1>6. Walk(data, it) = TagsAt(data, at, n)
  <2>1. Walk(data, it) = TagsAt(data, at, CHOOSE m \in 0 .. it.len : Stop(m))
    BY DEF Walk
  <2> HIDE DEF at, it, Stop
  <2> QED
    BY <1>5, <2>1
<1>7. TagsAt(data, at, n) = [k \in 1 .. n |-> Tag(data, p[k - 1])]
  <2> HIDE DEF at
  <2>1. \A k \in 1 .. n : k - 1 \in 0 .. n
    BY <1>1
  <2>2. ASSUME NEW k \in 1 .. n
        PROVE  at[k - 1].attr = p[k - 1]
    <3>1. at[k - 1] = At(p[k - 1], e - p[k - 1])
      BY <1>2, <2>1
    <3> QED
      BY <3>1 DEF At
  <2>3. \A k \in 1 .. n : Tag(data, at[k - 1].attr) = Tag(data, p[k - 1])
    BY <2>2
  <2> QED
    BY <2>3 DEF TagsAt
<1> QED
  BY <1>6, <1>7

(* Advancing until it_next() returns false, from a first TLV on, meets the *)
(* same.                                                                   *)
LEMMA WalkUntilLastLaid ==
    ASSUME NEW data, NEW s, NEW e, NEW n, NEW p, Laid(data, s, e, n, p), n # 0
    PROVE  WalkUntilLast(data, At(s, e - s)) = [k \in 1 .. n |-> Tag(data, p[k - 1])]
<1> DEFINE it == At(s, e - s)
           at == Turns(data, it, {})
           Stop(m) == /\ ~ItNext(data, at[m - 1]).more
                      /\ \A j \in 1 .. m - 1 : ItNext(data, at[j - 1]).more
<1>1. n \in Nat /\ s \in Nat \ {0} /\ e \in Nat /\ s + 2 * n <= e /\ p[n] = e
  BY LaidPlaces DEF Laid
<1>2. \A m \in 0 .. n : at[m] = At(p[m], e - p[m])
  <2>1. n \in 0 .. n /\ 0 .. n \subseteq Nat
    BY <1>1
  <2>2. \A m \in Nat : at[m] = IF m < n THEN At(p[m], e - p[m]) ELSE At(p[n], e - p[n])
    BY <2>1, TurnsLaid
  <2> HIDE DEF at
  <2> QED
    BY <1>1, <2>1, <2>2
<1>3. \A m \in 1 .. n : ItNext(data, at[m - 1]).more <=> m # n
  <2> HIDE DEF at
  <2> SUFFICES ASSUME NEW m \in 1 .. n
               PROVE  ItNext(data, at[m - 1]).more <=> m # n
    OBVIOUS
  <2>1. m - 1 \in 0 .. n /\ m - 1 \in 0 .. n - 1 /\ m \in 0 .. n /\ (m - 1) + 1 = m
    BY <1>1
  <2>2. NextTlv(data, at[m - 1]) = At(p[m], e - p[m])
    BY <1>2, <2>1, LaidValid
  <2>3. p[m] \in Nat \ {0} /\ (m # n => p[m] + 2 * (n - m) <= e)
    BY <2>1, LaidPlaces
  <2>4. p[m] # 0 /\ (e - p[m] # 0 <=> m # n)
    BY <1>1, <2>1, <2>3
  <2> DEFINE next == At(p[m], e - p[m])
  <2>5. next.attr = p[m] /\ next.len = e - p[m]
    BY DEF At
  <2>6. ItNext(data, at[m - 1]).more <=> next.attr # NULL /\ next.len # 0
    <3>1. NextTlv(data, at[m - 1]) = next
      BY <2>2
    <3> HIDE DEF next
    <3> QED
      BY <3>1 DEF ItNext
  <2> QED
    BY <2>4, <2>5, <2>6 DEF NULL
<1>4. (CHOOSE m \in 1 .. it.len : Stop(m)) = n
  <2>1. it.len = e - s /\ n \in 1 .. e - s /\ n \in 1 .. n
    BY <1>1 DEF At
  <2>2. Stop(n)
    <3> HIDE DEF at
    <3>1. \A j \in 1 .. n - 1 : j \in 1 .. n /\ j # n
      BY <1>1
    <3> QED
      BY <1>3, <2>1, <3>1
  <2>3. \A m \in 1 .. e - s : Stop(m) => m = n
    <3> HIDE DEF at
    <3> SUFFICES ASSUME NEW m \in 1 .. e - s, Stop(m)
                 PROVE  m = n
      OBVIOUS
    <3>1. ~(m < n)
      <4>1. m < n => m \in 1 .. n /\ m # n
        BY <1>1
      <4> QED
        BY <1>3, <4>1
    <3>2. ~(n < m)
      <4>1. n < m => n \in 1 .. m - 1
        BY <1>1, <2>1
      <4> QED
        BY <1>3, <2>1, <4>1
    <3> QED
      BY <1>1, <3>1, <3>2
  <2> HIDE DEF Stop, it
  <2> QED
    BY <2>1, <2>2, <2>3
<1>5. WalkUntilLast(data, it) = TagsAt(data, at, n)
  <2>1. WalkUntilLast(data, it) = TagsAt(data, at, CHOOSE m \in 1 .. it.len : Stop(m))
    BY DEF WalkUntilLast
  <2> HIDE DEF at, it, Stop
  <2> QED
    BY <1>4, <2>1
<1>6. TagsAt(data, at, n) = [k \in 1 .. n |-> Tag(data, p[k - 1])]
  <2> HIDE DEF at
  <2>1. \A k \in 1 .. n : k - 1 \in 0 .. n
    BY <1>1
  <2>2. ASSUME NEW k \in 1 .. n
        PROVE  at[k - 1].attr = p[k - 1]
    <3>1. at[k - 1] = At(p[k - 1], e - p[k - 1])
      BY <1>2, <2>1
    <3> QED
      BY <3>1 DEF At
  <2>3. \A k \in 1 .. n : Tag(data, at[k - 1].attr) = Tag(data, p[k - 1])
    BY <2>2
  <2> QED
    BY <2>3 DEF TagsAt
<1> QED
  BY <1>5, <1>6

-----------------------------------------------------------------------------
(* The buffer of an object as an encoding of its attributes.               *)

(* The TLV at p has the content c.                                         *)
HoldsAt(data, p, c) ==
    LenOf(data, p) = Len(c) /\ \A i \in 1 .. Len(c) : data[p + 1 + i] = c[i]

(* b is the TLVs at p[0] to p[n - 1], one for each attribute of f.         *)
EncodedBy(b, f, n, p) ==
    /\ b \in Seq(Nat)
    /\ Laid(b, 1, Len(b) + 1, n, p)
    /\ \A k \in 0 .. n - 1 :
          Tag(b, p[k]) \in DOMAIN f /\ HoldsAt(b, p[k], f[Tag(b, p[k])])
    /\ \A j, k \in 0 .. n - 1 : Tag(b, p[j]) = Tag(b, p[k]) => j = k
    /\ \A a \in DOMAIN f : \E k \in 0 .. n - 1 : Tag(b, p[k]) = a

Encodes(b, f) == \E n, p : EncodedBy(b, f, n, p)

(* A TLV that is somewhere else is the same TLV.                           *)
LEMMA SameTlv ==
    ASSUME NEW b, NEW d, NEW p \in Nat, NEW q \in Nat, LenOf(b, p) \in Nat,
           \A i \in 0 .. LenOf(b, p) + 1 : d[q + i] = b[p + i]
    PROVE  /\ Tag(d, q) = Tag(b, p) /\ LenOf(d, q) = LenOf(b, p)
           /\ \A c : HoldsAt(b, p, c) => HoldsAt(d, q, c)
<1> PICK l \in Nat : l = LenOf(b, p)
  OBVIOUS
<1>1. 0 \in 0 .. l + 1 /\ 1 \in 0 .. l + 1
  OBVIOUS
<1>2. d[q + 0] = b[p + 0] /\ d[q + 1] = b[p + 1]
  BY <1>1
<1>3. Tag(d, q) = Tag(b, p) /\ LenOf(d, q) = LenOf(b, p)
  BY <1>2 DEF Tag, LenOf, TagAt, LenAt, STD_TLV_TAG_POS, STD_TLV_LEN_POS
<1>4. ASSUME NEW c, HoldsAt(b, p, c)
      PROVE  HoldsAt(d, q, c)
  <2>1. Len(c) = l
    BY <1>4 DEF HoldsAt
  <2>2. ASSUME NEW i \in 1 .. l
        PROVE  d[q + 1 + i] = c[i]
    <3>1. 1 + i \in 0 .. l + 1 /\ q + (1 + i) = q + 1 + i /\ p + (1 + i) = p + 1 + i
      OBVIOUS
    <3>2. d[q + (1 + i)] = b[p + (1 + i)]
      BY <3>1
    <3>3. b[p + 1 + i] = c[i]
      BY <1>4, <2>1 DEF HoldsAt
    <3> QED
      BY <3>1, <3>2, <3>3
  <2> QED
    BY <1>3, <2>1, <2>2 DEF HoldsAt
<1> QED
  BY <1>3, <1>4

(* What each TLV of an encoding is.                                        *)
LEMMA EncodedPlaces ==
    ASSUME NEW b, NEW f, NEW n, NEW p, EncodedBy(b, f, n, p)
    PROVE  /\ b \in Seq(Nat) /\ Len(b) \in Nat /\ n \in Nat /\ 2 * n <= Len(b)
           /\ p[0] = 1 /\ p[n] = Len(b) + 1
           /\ \A k \in 0 .. n : p[k] \in 1 .. Len(b) + 1
           /\ \A j, k \in 0 .. n : j < k => p[j] < p[k]
           /\ \A k \in 0 .. n - 1 :
                 /\ LenOf(b, p[k]) \in Nat
                 /\ p[k + 1] = p[k] + LenOf(b, p[k]) + 2
                 /\ p[k + 1] <= Len(b) + 1
<1>1. b \in Seq(Nat) /\ Laid(b, 1, Len(b) + 1, n, p)
  BY DEF EncodedBy
<1>2. Len(b) \in Nat
  BY <1>1
<1>3. PICK e \in Nat : e = Len(b) + 1
  BY <1>2
<1>4. /\ n \in Nat /\ 1 + 2 * n <= e /\ p[0] = 1 /\ p[n] = e
      /\ \A k \in 0 .. n : p[k] \in Nat \ {0} /\ p[k] + 2 * (n - k) <= e
      /\ \A j, k \in 0 .. n : j < k => p[j] < p[k]
  <2>1. Laid(b, 1, e, n, p)
    BY <1>1, <1>3
  <2>2. p[0] = 1 /\ p[n] = e
    BY <2>1 DEF Laid
  <2> QED
    BY <2>1, <2>2, LaidPlaces
<1>5. \A k \in 0 .. n : p[k] \in 1 .. e
  BY <1>3, <1>4
<1>6. \A k \in 0 .. n - 1 : LenOf(b, p[k]) \in Nat /\ p[k + 1] = p[k] + LenOf(b, p[k]) + 2
  BY <1>1 DEF Laid
<1>7. \A k \in 0 .. n - 1 : k + 1 \in 0 .. n
  BY <1>4
<1>8. \A k \in 0 .. n - 1 : p[k + 1] <= e
  BY <1>5, <1>7
<1>9. 2 * n <= Len(b)
  BY <1>2, <1>3, <1>4
<1> QED
  BY <1>1, <1>2, <1>3, <1>4, <1>5, <1>6, <1>8, <1>9

(* The getters find each attribute that there is, and no other.            *)
LEMMA FindEncoded ==
    ASSUME NEW b, NEW f, NEW n, NEW p, EncodedBy(b, f, n, p)
    PROVE  /\ \A k \in 0 .. n - 1 : Find(b, Tag(b, p[k])) = p[k]
           /\ \A a : a \notin DOMAIN f => Find(b, a) = NULL
<1>1. Laid(b, 1, Len(b) + 1, n, p)
  BY DEF EncodedBy
<1>2. n \in Nat /\ Len(b) \in Nat
  BY EncodedPlaces
<1>3. ItBegin(b) = At(1, (Len(b) + 1) - 1)
  BY <1>2 DEF ItBegin
<1> PICK e : e = Len(b) + 1
  OBVIOUS
<1>4. ASSUME NEW k \in 0 .. n - 1
      PROVE  Find(b, Tag(b, p[k])) = p[k]
  <2>1. \A j \in 0 .. k - 1 : j \in 0 .. n - 1 /\ j # k
    BY <1>2
  <2>2. \A j \in 0 .. k - 1 : Tag(b, p[j]) # Tag(b, p[k])
    BY <2>1 DEF EncodedBy
  <2>3. FindNext(b, At(1, e - 1), Tag(b, p[k])) = At(p[k], e - p[k])
    BY <1>1, <2>2, FindLaid
  <2> QED
    BY <1>3, <2>3 DEF Find, ItFind, At
<1>5. ASSUME NEW a, a \notin DOMAIN f
      PROVE  Find(b, a) = NULL
  <2>1. \A j \in 0 .. n - 1 : Tag(b, p[j]) # a
    BY <1>5 DEF EncodedBy
  <2>2. FindNext(b, At(1, e - 1), a).attr = NULL
    BY <1>1, <2>1, FindNothing
  <2> QED
    BY <1>3, <2>2 DEF Find, ItFind
<1> QED
  BY <1>4, <1>5

LEMMA EmptyEncodes ==
    ASSUME NEW f, DOMAIN f = {}
    PROVE  Encodes(<<>>, f)
<1> DEFINE p == [k \in 0 .. 0 |-> 1]
<1>1. Len(<<>>) = 0 /\ <<>> \in Seq(Nat) /\ 0 .. 0 - 1 = {}
  OBVIOUS
<1>2. Laid(<<>>, 1, Len(<<>>) + 1, 0, p)
  BY <1>1 DEF Laid
<1> HIDE DEF p
<1>3. EncodedBy(<<>>, f, 0, p)
  BY <1>1, <1>2 DEF EncodedBy
<1> QED
  BY <1>3 DEF Encodes

(* The contents without one attribute, and with one.                       *)
Without(f, a)  == [x \in DOMAIN f \ {a} |-> f[x]]
With(f, a, c)  == [x \in DOMAIN f \cup {a} |-> IF x = a THEN c ELSE f[x]]

(* Taking T units out of a buffer at P closes the gap.                     *)
IsCut(d, b, P, T, L) ==
    /\ d \in Seq(Nat) /\ Len(d) = L - T
    /\ \A i \in 1 .. P - 1 : d[i] = b[i]
    /\ \A i \in P .. L - T : d[i] = b[i + T]

LEMMA CutOut ==
    ASSUME NEW b \in Seq(Nat), NEW P \in Nat \ {0}, NEW T \in Nat, NEW L \in Nat,
           L = Len(b), P + T <= L + 1,
           NEW d, d = SubSeq(b, 1, P - 1) \o SubSeq(b, P + T, L)
    PROVE  IsCut(d, b, P, T, L)
<1> DEFINE low  == SubSeq(b, 1, P - 1)
           high == SubSeq(b, P + T, L)
<1>1. \A i \in 1 .. L : b[i] \in Nat
  BY ElementOfSeq
<1>2. low \in Seq(Nat) /\ Len(low) = P - 1 /\ \A i \in 1 .. P - 1 : low[i] = b[i]
  <2>1. 1 \in Int /\ P - 1 \in Int /\ \A i \in 1 .. P - 1 : b[i] \in Nat
    BY <1>1
  <2>2. /\ low \in Seq(Nat) /\ Len(low) = IF 1 <= P - 1 THEN (P - 1) - 1 + 1 ELSE 0
        /\ \A i \in 1 .. (P - 1) - 1 + 1 : low[i] = b[1 + i - 1]
    BY <2>1, SubSeqProperties
  <2>3. (P - 1) - 1 + 1 = P - 1 /\ \A i \in 1 .. P - 1 : 1 + i - 1 = i
    OBVIOUS
  <2> HIDE DEF low
  <2> QED
    BY <2>2, <2>3
<1>3. high \in Seq(Nat) /\ Len(high) = L - T - (P - 1)
      /\ \A i \in 1 .. L - T - (P - 1) : high[i] = b[i + (P - 1) + T]
  <2>1. P + T \in Int /\ L \in Int /\ \A i \in P + T .. L : b[i] \in Nat
    BY <1>1
  <2>2. /\ high \in Seq(Nat) /\ Len(high) = IF P + T <= L THEN L - (P + T) + 1 ELSE 0
        /\ \A i \in 1 .. L - (P + T) + 1 : high[i] = b[P + T + i - 1]
    BY <2>1, SubSeqProperties
  <2>3. L - (P + T) + 1 = L - T - (P - 1) /\ (~(P + T <= L) => L - T - (P - 1) = 0)
        /\ \A i \in Int : P + T + i - 1 = i + (P - 1) + T
    OBVIOUS
  <2> HIDE DEF high
  <2> QED
    BY <2>2, <2>3
<1> HIDE DEF low, high
<1>4. /\ d \in Seq(Nat) /\ Len(d) = Len(low) + Len(high)
      /\ \A i \in 1 .. Len(low) + Len(high) :
            d[i] = IF i <= Len(low) THEN low[i] ELSE high[i - Len(low)]
  <2>1. d = low \o high
    BY DEF low, high
  <2>2. /\ low \o high \in Seq(Nat) /\ Len(low \o high) = Len(low) + Len(high)
        /\ \A i \in 1 .. Len(low) + Len(high) :
              (low \o high)[i] = IF i <= Len(low) THEN low[i] ELSE high[i - Len(low)]
    BY <1>2, <1>3, ConcatProperties
  <2> QED
    BY <1>2, <1>3, <2>1, <2>2
<1>5. Len(low) + Len(high) = L - T
  BY <1>2, <1>3
<1>6. \A i \in 1 .. P - 1 : d[i] = b[i]
  <2>1. \A i \in 1 .. P - 1 : i \in 1 .. L - T /\ i <= P - 1
    OBVIOUS
  <2> QED
    BY <1>2, <1>4, <1>5, <2>1
<1>7. ASSUME NEW i \in P .. L - T
      PROVE  d[i] = b[i + T]
  <2>1. /\ i \in 1 .. L - T /\ ~(i <= P - 1) /\ i - (P - 1) \in 1 .. L - T - (P - 1)
        /\ (i - (P - 1)) + (P - 1) + T = i + T
    OBVIOUS
  <2>2. d[i] = high[i - (P - 1)]
    BY <1>2, <1>4, <1>5, <2>1
  <2>3. high[i - (P - 1)] = b[(i - (P - 1)) + (P - 1) + T]
    BY <1>3, <2>1
  <2> QED
    BY <2>1, <2>2, <2>3
<1> QED
  BY <1>4, <1>5, <1>6, <1>7 DEF IsCut

(* Where the TLVs lie when the k-th, of T units, is taken out, and which   *)
(* of the TLVs before each is.                                             *)
CutPlace(p, k, T, j) == IF j < k THEN p[j] ELSE p[j + 1] - T
CutOld(k, j)         == IF j < k THEN j ELSE j + 1

GapClosed(p, k, T, n, len) ==
    /\ p[k] + T <= p[n] /\ n - 1 \in Nat
    /\ CutPlace(p, k, T, 0) = p[0] /\ CutPlace(p, k, T, n - 1) = p[n] - T
    /\ \A j \in 0 .. n - 1 : CutPlace(p, k, T, j) \in Nat
    /\ \A j \in 0 .. (n - 1) - 1 :
          LET q == CutPlace(p, k, T, j)
              o == CutOld(k, j)
          IN  /\ o \in 0 .. n - 1 /\ o # k
              /\ CutPlace(p, k, T, j + 1) = q + len[o] + 2
              /\ \/ q = p[o] /\ q + len[o] + 2 <= p[k]
                 \/ q + T = p[o] /\ p[k] <= q /\ p[o] + len[o] + 2 <= p[n]

LEMMA CutPlaces ==
    ASSUME NEW n \in Nat, NEW k \in 0 .. n - 1, NEW p \in [0 .. n -> Nat],
           NEW len \in [0 .. n - 1 -> Nat], NEW T \in Nat, T = len[k] + 2,
           \A j \in 0 .. n - 1 : p[j + 1] = p[j] + len[j] + 2,
           \A j, m \in 0 .. n : j < m => p[j] < p[m]
    PROVE  GapClosed(p, k, T, n, len)
<1>1. k \in Nat /\ k < n /\ n # 0 /\ k \in 0 .. n /\ k + 1 \in 0 .. n /\ n \in 0 .. n
      /\ n - 1 \in Nat /\ 0 \in 0 .. n /\ ~(n - 1 < k) /\ (n - 1) + 1 = n
  OBVIOUS
<1>2. p[k] \in Nat /\ p[k + 1] = p[k] + T /\ p[k + 1] \in Nat /\ p[n] \in Nat
  <2>1. p[k] \in Nat /\ p[k + 1] \in Nat /\ p[n] \in Nat /\ len[k] \in Nat
    BY <1>1
  <2>2. p[k + 1] = p[k] + len[k] + 2
    OBVIOUS
  <2> QED
    BY <2>1, <2>2
<1>3. \A j, m \in 0 .. n : j <= m => p[j] <= p[m]
  <2> SUFFICES ASSUME NEW j \in 0 .. n, NEW m \in 0 .. n, j <= m
               PROVE  p[j] <= p[m]
    OBVIOUS
  <2>1. PICK x \in Nat, y \in Nat : x = p[j] /\ y = p[m]
    OBVIOUS
  <2>2. x = y \/ x < y
    <3>1. j = m \/ j < m
      OBVIOUS
    <3> QED
      BY <2>1, <3>1
  <2>3. x <= y
    BY <2>2
  <2> QED
    BY <2>1, <2>3
<1>4. p[k + 1] <= p[n]
  BY <1>1, <1>3
<1>5. CutPlace(p, k, T, n - 1) = p[n] - T
  BY <1>1 DEF CutPlace
<1>6. CutPlace(p, k, T, 0) = p[0]
  <2>1. CASE k = 0
    <3>1. CutPlace(p, k, T, 0) = p[1] - T /\ p[1] = p[0] + T
      BY <1>2, <2>1 DEF CutPlace
    <3> QED
      BY <1>2, <2>1, <3>1
  <2>2. CASE k # 0
    BY <1>1, <2>2 DEF CutPlace
  <2> QED
    BY <2>1, <2>2
<1>7. ASSUME NEW j \in 0 .. n - 1
      PROVE  CutPlace(p, k, T, j) \in Nat
  <2>1. CASE j < k
    <3>1. j \in 0 .. n
      BY <1>1
    <3> QED
      BY <2>1, <3>1 DEF CutPlace
  <2>2. CASE ~(j < k)
    <3>1. j + 1 \in 0 .. n /\ k + 1 <= j + 1
      BY <1>1, <2>2
    <3>2. p[j + 1] \in Nat /\ p[k + 1] <= p[j + 1]
      BY <1>1, <1>3, <3>1
    <3>3. p[j + 1] - T \in Nat
      <4>1. PICK x \in Nat, y \in Nat : x = p[k] /\ y = p[j + 1]
        BY <1>2, <3>2
      <4>2. x + T <= y
        BY <1>2, <3>2, <4>1
      <4>3. y - T \in Nat
        BY <4>2
      <4> QED
        BY <4>1, <4>3
    <3> QED
      BY <2>2, <3>3 DEF CutPlace
  <2> QED
    BY <2>1, <2>2
<1>8. ASSUME NEW j \in 0 .. (n - 1) - 1
      PROVE  LET q == CutPlace(p, k, T, j)
                 o == CutOld(k, j)
             IN  /\ o \in 0 .. n - 1 /\ o # k
                 /\ CutPlace(p, k, T, j + 1) = q + len[o] + 2
                 /\ \/ q = p[o] /\ q + len[o] + 2 <= p[k]
                    \/ q + T = p[o] /\ p[k] <= q /\ p[o] + len[o] + 2 <= p[n]
  <2>1. /\ j \in 0 .. n - 1 /\ j + 1 \in 0 .. n - 1 /\ j \in 0 .. n /\ j + 1 \in 0 .. n
        /\ (j + 1) + 1 \in 0 .. n
    BY <1>1
  <2>2. /\ p[j] \in Nat /\ p[j + 1] \in Nat /\ p[(j + 1) + 1] \in Nat
        /\ len[j] \in Nat /\ len[j + 1] \in Nat
    BY <2>1
  <2>3. p[j + 1] = p[j] + len[j] + 2 /\ p[(j + 1) + 1] = p[j + 1] + len[j + 1] + 2
    BY <2>1
  <2>4. CASE j < k
    <3>1. CutPlace(p, k, T, j) = p[j] /\ CutOld(k, j) = j /\ j # k
      BY <2>4 DEF CutPlace, CutOld
    <3>2. p[j + 1] <= p[k]
      <4>1. j + 1 <= k
        BY <1>1, <2>4
      <4> QED
        BY <1>1, <1>3, <2>1, <4>1
    <3>3. CutPlace(p, k, T, j + 1) = p[j + 1]
      <4>1. CASE j + 1 < k
        BY <4>1 DEF CutPlace
      <4>2. CASE j + 1 = k
        <5>1. CutPlace(p, k, T, j + 1) = p[k + 1] - T
          BY <1>1, <4>2 DEF CutPlace
        <5> QED
          BY <1>2, <4>2, <5>1
      <4> QED
        BY <1>1, <2>4, <4>1, <4>2
    <3> QED
      BY <2>1, <2>2, <2>3, <3>1, <3>2, <3>3
  <2>5. CASE ~(j < k)
    <3>1. CutPlace(p, k, T, j) = p[j + 1] - T /\ CutOld(k, j) = j + 1
      BY <2>5 DEF CutPlace, CutOld
    <3>2. j + 1 # k /\ ~(j + 1 < k) /\ k + 1 <= j + 1
      BY <1>1, <2>5
    <3>3. CutPlace(p, k, T, j + 1) = p[(j + 1) + 1] - T
      BY <3>2 DEF CutPlace
    <3>4. p[k + 1] <= p[j + 1] /\ p[(j + 1) + 1] <= p[n]
      <4>1. (j + 1) + 1 <= n
        BY <2>1
      <4> QED
        BY <1>1, <1>3, <2>1, <3>2, <4>1
    <3>5. /\ (p[j + 1] - T) + T = p[j + 1] /\ p[k] <= p[j + 1] - T
          /\ p[(j + 1) + 1] - T = (p[j + 1] - T) + len[j + 1] + 2
      <4>1. PICK x \in Nat, y \in Nat, z \in Nat, l \in Nat :
              x = p[k] /\ y = p[j + 1] /\ z = p[(j + 1) + 1] /\ l = len[j + 1]
        BY <1>2, <2>2
      <4>2. x + T <= y /\ z = y + l + 2
        BY <1>2, <2>3, <3>4, <4>1
      <4>3. (y - T) + T = y
        BY <4>2
      <4>4. x <= y - T
        BY <4>2
      <4>5. z - T = (y - T) + l + 2
        BY <4>2
      <4> QED
        BY <4>1, <4>3, <4>4, <4>5, Zenon
    <3> QED
      BY <2>1, <2>3, <3>1, <3>2, <3>3, <3>4, <3>5
  <2> QED
    BY <2>4, <2>5
<1> QED
  BY <1>1, <1>2, <1>4, <1>5, <1>6, <1>7, <1>8 DEF GapClosed

(* cps_api_object_attr_delete() takes an attribute out and leaves the      *)
(* others.                                                                 *)
LEMMA DeleteAbsent ==
    ASSUME NEW b, NEW f, Encodes(b, f), NEW a, a \notin DOMAIN f
    PROVE  Delete(b, a) = b /\ Encodes(b, Without(f, a))
<1>1. PICK n, p : EncodedBy(b, f, n, p)
  BY DEF Encodes
<1>2. Delete(b, a) = b
  BY <1>1, FindEncoded DEF Delete
<1> DEFINE g == Without(f, a)
<1>3. DOMAIN g = DOMAIN f /\ \A x \in DOMAIN g : g[x] = f[x]
  BY DEF Without
<1> HIDE DEF g
<1>4. EncodedBy(b, g, n, p)
  BY <1>1, <1>3 DEF EncodedBy
<1> QED
  BY <1>2, <1>4 DEF Encodes, g

LEMMA DeletePresent ==
    ASSUME NEW b, NEW f, Encodes(b, f), NEW a \in DOMAIN f
    PROVE  /\ Encodes(Delete(b, a), Without(f, a))
           /\ Len(f[a]) \in Nat /\ Len(Delete(b, a)) + Len(f[a]) + 2 = Len(b)
<1>1. PICK n, p : EncodedBy(b, f, n, p)
  BY DEF Encodes
<1>2. PICK k \in 0 .. n - 1 : Tag(b, p[k]) = a
  BY <1>1 DEF EncodedBy
<1>3. /\ b \in Seq(Nat) /\ Len(b) \in Nat /\ n \in Nat
      /\ p[0] = 1 /\ p[n] = Len(b) + 1
      /\ \A j \in 0 .. n : p[j] \in 1 .. Len(b) + 1
      /\ \A j, m \in 0 .. n : j < m => p[j] < p[m]
      /\ \A j \in 0 .. n - 1 :
            LenOf(b, p[j]) \in Nat /\ p[j + 1] = p[j] + LenOf(b, p[j]) + 2
  BY <1>1, EncodedPlaces
<1>4. p \in [0 .. n -> Nat]
  BY <1>1 DEF EncodedBy, Laid
<1> DEFINE len == [j \in 0 .. n - 1 |-> LenOf(b, p[j])]
           T   == len[k] + 2
           q   == [j \in 0 .. n - 1 |-> CutPlace(p, k, T, j)]
           d   == Delete(b, a)
           g   == Without(f, a)
<1>5. /\ len \in [0 .. n - 1 -> Nat]
      /\ \A j \in 0 .. n - 1 : len[j] = LenOf(b, p[j]) /\ p[j + 1] = p[j] + len[j] + 2
  BY <1>3
<1>6. DOMAIN g = DOMAIN f \ {a} /\ \A x \in DOMAIN g : g[x] = f[x]
  BY DEF Without
<1> HIDE DEF len, g
<1>7. T \in Nat /\ len[k] \in Nat
  BY <1>5
<1>8. T = len[k] + 2
  OBVIOUS
<1> HIDE DEF T
<1>9. /\ p[k] + T <= p[n] /\ n - 1 \in Nat
      /\ CutPlace(p, k, T, 0) = p[0] /\ CutPlace(p, k, T, n - 1) = p[n] - T
      /\ \A j \in 0 .. n - 1 : CutPlace(p, k, T, j) \in Nat
      /\ \A j \in 0 .. (n - 1) - 1 :
            /\ CutOld(k, j) \in 0 .. n - 1 /\ CutOld(k, j) # k
            /\ CutPlace(p, k, T, j + 1) = CutPlace(p, k, T, j) + len[CutOld(k, j)] + 2
            /\ \/ /\ CutPlace(p, k, T, j) = p[CutOld(k, j)]
                  /\ CutPlace(p, k, T, j) + len[CutOld(k, j)] + 2 <= p[k]
               \/ /\ CutPlace(p, k, T, j) + T = p[CutOld(k, j)]
                  /\ p[k] <= CutPlace(p, k, T, j)
                  /\ p[CutOld(k, j)] + len[CutOld(k, j)] + 2 <= p[n]
  <2>1. \A j \in 0 .. n - 1 : p[j + 1] = p[j] + len[j] + 2
    BY <1>5
  <2>2. \A j, m \in 0 .. n : j < m => p[j] < p[m]
    BY <1>3
  <2>3. n \in Nat /\ len \in [0 .. n - 1 -> Nat] /\ T \in Nat
    BY <1>3, <1>5, <1>7
  <2>4. GapClosed(p, k, T, n, len)
    BY <1>4, <1>8, <2>1, <2>2, <2>3, CutPlaces
  <2> QED
    BY <2>4 DEF GapClosed
<1>10. \A j \in 0 .. (n - 1) - 1 : j \in 0 .. n - 1 /\ j + 1 \in 0 .. n - 1
  BY <1>3
<1>11. PICK P \in Nat \ {0}, L \in Nat : P = p[k] /\ L = Len(b) /\ p[n] = L + 1
  <2>1. k \in 0 .. n
    BY <1>3
  <2>2. p[k] \in 1 .. Len(b) + 1
    BY <1>3, <2>1
  <2>3. p[k] \in Nat \ {0}
    BY <1>3, <2>2
  <2> QED
    BY <1>3, <2>3
<1>12. P + T <= L + 1
  BY <1>9, <1>11
<1>13. d = SubSeq(b, 1, P - 1) \o SubSeq(b, P + T, Len(b))
  <2>1. Find(b, a) = P
    BY <1>1, <1>2, <1>11, FindEncoded
  <2>2. TotalLen(b, P) = T
    BY <1>5, <1>8, <1>11 DEF TotalLen, STD_TLV_HDR_LEN
  <2> QED
    BY <1>11, <2>1, <2>2 DEF Delete, NULL
<1> HIDE DEF d
<1>14. /\ d \in Seq(Nat) /\ Len(d) = L - T
       /\ \A i \in 1 .. P - 1 : d[i] = b[i]
       /\ \A i \in P .. L - T : d[i] = b[i + T]
  <2>1. L = Len(b) /\ b \in Seq(Nat) /\ T \in Nat
    BY <1>3, <1>7, <1>11
  <2>2. d = SubSeq(b, 1, P - 1) \o SubSeq(b, P + T, L)
    BY <1>13, <2>1
  <2>3. IsCut(d, b, P, T, L)
    BY <1>12, <2>1, <2>2, CutOut
  <2> QED
    BY <2>3 DEF IsCut
<1> DEFINE old(j) == CutOld(k, j)
<1>15. q \in [0 .. n - 1 -> Nat] /\ q[0] = 1 /\ q[n - 1] = Len(d) + 1
  <2>1. 0 \in 0 .. n - 1 /\ n - 1 \in 0 .. n - 1
    BY <1>9
  <2>2. q[0] = p[0] /\ q[n - 1] = (L + 1) - T
    BY <1>9, <1>11, <2>1
  <2>3. (L + 1) - T = L - T + 1
    BY <1>7
  <2>4. q \in [0 .. n - 1 -> Nat]
    BY <1>9
  <2> HIDE DEF q
  <2> QED
    BY <1>3, <1>14, <2>2, <2>3, <2>4
<1>16. ASSUME NEW j \in 0 .. (n - 1) - 1
       PROVE  /\ old(j) \in 0 .. n - 1 /\ old(j) # k
              /\ LenOf(b, p[old(j)]) \in Nat
              /\ q[j + 1] = q[j] + LenOf(b, p[old(j)]) + 2
              /\ Tag(d, q[j]) = Tag(b, p[old(j)])
              /\ LenOf(d, q[j]) = LenOf(b, p[old(j)])
              /\ \A c : HoldsAt(b, p[old(j)], c) => HoldsAt(d, q[j], c)
  <2>1. /\ old(j) \in 0 .. n - 1 /\ old(j) # k
        /\ q[j] \in Nat /\ q[j + 1] = q[j] + len[old(j)] + 2
        /\ \/ q[j] = p[old(j)] /\ q[j] + len[old(j)] + 2 <= p[k]
           \/ q[j] + T = p[old(j)] /\ p[k] <= q[j] /\ p[old(j)] + len[old(j)] + 2 <= p[n]
    BY <1>9, <1>10
  <2> HIDE DEF q, old
  <2>2. PICK x \in Nat, l \in Nat, y \in Nat :
          x = q[j] /\ l = len[old(j)] /\ y = p[old(j)] /\ l = LenOf(b, y) /\ y # 0
    <3>1. old(j) \in 0 .. n
      BY <1>3, <2>1
    <3>2. p[old(j)] \in 1 .. L + 1
      BY <1>3, <1>11, <3>1
    <3>3. p[old(j)] \in Nat /\ p[old(j)] # 0
      BY <3>2
    <3>4. len[old(j)] \in Nat /\ len[old(j)] = LenOf(b, p[old(j)])
      BY <1>5, <2>1
    <3> QED
      BY <2>1, <3>3, <3>4
  <2>3. \/ x = y /\ x + l + 2 <= P
        \/ x + T = y /\ P <= x /\ y + l + 2 <= L + 1
    BY <1>11, <2>1, <2>2
  <2>4. \A i \in 0 .. l + 1 : d[x + i] = b[y + i]
    <3>1. CASE x = y /\ x + l + 2 <= P
      <4>1. \A i \in 0 .. l + 1 : x + i \in 1 .. P - 1
        BY <2>2, <3>1
      <4> QED
        BY <1>14, <3>1, <4>1
    <3>2. CASE x + T = y /\ P <= x /\ y + l + 2 <= L + 1
      <4>1. \A i \in 0 .. l + 1 : x + i \in P .. L - T /\ (x + i) + T = y + i
        BY <1>7, <3>2
      <4>2. ASSUME NEW i \in 0 .. l + 1
            PROVE  d[x + i] = b[y + i]
        <5>1. d[x + i] = b[(x + i) + T]
          BY <1>14, <4>1
        <5> QED
          BY <4>1, <5>1
      <4> QED
        BY <4>2
    <3> QED
      BY <2>3, <3>1, <3>2
  <2>5. /\ Tag(d, x) = Tag(b, y) /\ LenOf(d, x) = LenOf(b, y)
        /\ \A c : HoldsAt(b, y, c) => HoldsAt(d, x, c)
    <3>1. LenOf(b, y) \in Nat /\ \A i \in 0 .. LenOf(b, y) + 1 : d[x + i] = b[y + i]
      BY <2>2, <2>4
    <3> QED
      BY <3>1, SameTlv
  <2> QED
    BY <2>1, <2>2, <2>5
<1> HIDE DEF q, old
<1>17. Laid(d, 1, Len(d) + 1, n - 1, q)
  <2>1. Len(d) \in Nat
    BY <1>14
  <2>2. Len(d) + 1 \in Nat /\ 1 \in Nat \ {0}
    BY <2>1
  <2>3. \A j \in 0 .. (n - 1) - 1 :
          LenOf(d, q[j]) \in Nat /\ q[j + 1] = q[j] + LenOf(d, q[j]) + 2
    BY <1>16
  <2> QED
    BY <1>9, <1>15, <2>2, <2>3 DEF Laid
<1>18. ASSUME NEW j \in 0 .. (n - 1) - 1
       PROVE  Tag(d, q[j]) \in DOMAIN g /\ HoldsAt(d, q[j], g[Tag(d, q[j])])
  <2>1. /\ Tag(b, p[old(j)]) \in DOMAIN f
        /\ HoldsAt(b, p[old(j)], f[Tag(b, p[old(j)])])
        /\ Tag(b, p[old(j)]) # a
    <3>1. old(j) \in 0 .. n - 1 /\ old(j) # k
      BY <1>16
    <3> QED
      BY <1>1, <1>2, <3>1 DEF EncodedBy
  <2>2. /\ Tag(d, q[j]) = Tag(b, p[old(j)])
        /\ HoldsAt(d, q[j], f[Tag(b, p[old(j)])])
    BY <1>16, <2>1
  <2> QED
    BY <1>6, <2>1, <2>2
<1>19. ASSUME NEW i \in 0 .. (n - 1) - 1, NEW j \in 0 .. (n - 1) - 1,
              Tag(d, q[i]) = Tag(d, q[j])
       PROVE  i = j
  <2>1. /\ old(i) \in 0 .. n - 1 /\ old(j) \in 0 .. n - 1
        /\ Tag(b, p[old(i)]) = Tag(b, p[old(j)])
    BY <1>16, <1>19
  <2>2. old(i) = old(j)
    BY <1>1, <2>1 DEF EncodedBy
  <2>3. i \in Int /\ j \in Int /\ k \in Int
    OBVIOUS
  <2> QED
    BY <2>2, <2>3 DEF old, CutOld
<1>20. ASSUME NEW x \in DOMAIN g
       PROVE  \E j \in 0 .. (n - 1) - 1 : Tag(d, q[j]) = x
  <2>1. x \in DOMAIN f /\ x # a
    BY <1>6
  <2>2. PICK m \in 0 .. n - 1 : Tag(b, p[m]) = x
    BY <1>1, <2>1 DEF EncodedBy
  <2>3. m # k
    BY <1>2, <2>1, <2>2
  <2> DEFINE j == IF m < k THEN m ELSE m - 1
  <2>4. j \in 0 .. (n - 1) - 1 /\ old(j) = m
    BY <1>3, <2>3 DEF old, CutOld
  <2> HIDE DEF j
  <2>5. Tag(d, q[j]) = Tag(b, p[old(j)])
    BY <1>16, <2>4
  <2> QED
    BY <2>2, <2>4, <2>5
<1>21. EncodedBy(d, g, n - 1, q)
  BY <1>14, <1>17, <1>18, <1>19, <1>20 DEF EncodedBy
<1>22. Len(f[a]) \in Nat /\ Len(d) + Len(f[a]) + 2 = Len(b)
  <2>1. HoldsAt(b, p[k], f[Tag(b, p[k])])
    BY <1>1 DEF EncodedBy
  <2>2. Len(f[a]) = len[k]
    BY <1>2, <1>5, <2>1 DEF HoldsAt
  <2>3. PICK l \in Nat : l = len[k]
    BY <1>7
  <2>4. T = l + 2 /\ Len(b) = L /\ Len(d) = L - T
    BY <1>8, <1>11, <1>14, <2>3
  <2> QED
    BY <2>2, <2>3, <2>4
<1> QED
  BY <1>21, <1>22 DEF Encodes, d, g

(* cps_api_object_attr_add() puts a TLV behind the others.                 *)
IsExtended(d, b, L, a, c, l) ==
    /\ d \in Seq(Nat) /\ Len(d) = L + l + 2
    /\ \A i \in 1 .. L : d[i] = b[i]
    /\ d[L + 1] = a /\ d[L + 2] = l
    /\ \A i \in 1 .. l : d[L + 1 + 1 + i] = c[i]

LEMMA EncodePlaces ==
    ASSUME NEW b \in Seq(Nat), NEW L \in Nat, L = Len(b),
           NEW a \in Nat, NEW c \in Seq(Nat), NEW l \in Nat, l = Len(c)
    PROVE  IsExtended(b \o Encode(a, c), b, L, a, c, l)
<1> DEFINE h == <<a, l>>
           t == h \o c
           d == b \o t
<1>1. h \in Seq(Nat) /\ Len(h) = 2 /\ h[1] = a /\ h[2] = l
  OBVIOUS
<1>2. Encode(a, c) = t
  BY DEF Encode, Header
<1> HIDE DEF h
<1>3. /\ t \in Seq(Nat) /\ Len(t) = Len(h) + Len(c)
      /\ \A i \in 1 .. Len(h) + Len(c) : t[i] = IF i <= Len(h) THEN h[i] ELSE c[i - Len(h)]
  BY <1>1, ConcatProperties
<1> HIDE DEF t
<1>4. /\ d \in Seq(Nat) /\ Len(d) = Len(b) + Len(t)
      /\ \A i \in 1 .. Len(b) + Len(t) : d[i] = IF i <= Len(b) THEN b[i] ELSE t[i - Len(b)]
  <2>1. t \in Seq(Nat)
    BY <1>3
  <2> QED
    BY <2>1, ConcatProperties
<1> HIDE DEF d
<1>5. Len(t) = l + 2 /\ t[1] = a /\ t[2] = l
  <2>1. Len(h) + Len(c) = l + 2 /\ 1 \in 1 .. l + 2 /\ 2 \in 1 .. l + 2
    BY <1>1
  <2> QED
    BY <1>1, <1>3, <2>1
<1>6. \A i \in 1 .. l : t[2 + i] = c[i]
  <2>1. \A i \in 1 .. l : 2 + i \in 1 .. l + 2 /\ ~(2 + i <= 2) /\ (2 + i) - 2 = i
    OBVIOUS
  <2>2. \A i \in 1 .. l + 2 : t[i] = IF i <= 2 THEN h[i] ELSE c[i - 2]
    BY <1>1, <1>3
  <2> QED
    BY <2>1, <2>2
<1>7. /\ Len(d) = L + l + 2
      /\ \A i \in 1 .. L + l + 2 : d[i] = IF i <= L THEN b[i] ELSE t[i - L]
  <2>1. Len(b) + Len(t) = L + l + 2
    BY <1>5
  <2> QED
    BY <1>4, <2>1
<1>8. \A i \in 1 .. L : d[i] = b[i]
  <2>1. \A i \in 1 .. L : i \in 1 .. L + l + 2 /\ i <= L
    OBVIOUS
  <2> QED
    BY <1>7, <2>1
<1>9. \A i \in 1 .. l + 2 : d[L + i] = t[i]
  <2>1. \A i \in 1 .. l + 2 : L + i \in 1 .. L + l + 2 /\ ~(L + i <= L) /\ (L + i) - L = i
    OBVIOUS
  <2> QED
    BY <1>7, <2>1
<1>10. d[L + 1] = a /\ d[L + 2] = l
  <2>1. 1 \in 1 .. l + 2 /\ 2 \in 1 .. l + 2
    OBVIOUS
  <2> QED
    BY <1>5, <1>9, <2>1
<1>11. ASSUME NEW i \in 1 .. l
       PROVE  d[L + 1 + 1 + i] = c[i]
  <2>1. 2 + i \in 1 .. l + 2 /\ L + (2 + i) = L + 1 + 1 + i
    OBVIOUS
  <2>2. d[L + (2 + i)] = t[2 + i]
    BY <1>9, <2>1
  <2> QED
    BY <1>6, <2>1, <2>2
<1>12. b \o Encode(a, c) = d
  BY <1>2 DEF d
<1>13. IsExtended(d, b, L, a, c, l)
  BY <1>4, <1>7, <1>8, <1>10, <1>11 DEF IsExtended
<1> QED
  BY <1>12, <1>13

LEMMA AddEncoded ==
    ASSUME NEW b, NEW f, Encodes(b, f), NEW a \in Nat, a \notin DOMAIN f,
           NEW c \in Seq(Nat)
    PROVE  Encodes(b \o Encode(a, c), With(f, a, c))
<1>1. PICK n, p : EncodedBy(b, f, n, p)
  BY DEF Encodes
<1>2. /\ b \in Seq(Nat) /\ Len(b) \in Nat /\ n \in Nat
      /\ p[0] = 1 /\ p[n] = Len(b) + 1
      /\ \A k \in 0 .. n : p[k] \in 1 .. Len(b) + 1
      /\ \A k \in 0 .. n - 1 : /\ LenOf(b, p[k]) \in Nat
                               /\ p[k + 1] = p[k] + LenOf(b, p[k]) + 2
                               /\ p[k + 1] <= Len(b) + 1
  BY <1>1, EncodedPlaces
<1>3. PICK L \in Nat, l \in Nat : L = Len(b) /\ l = Len(c)
  BY <1>2
<1> DEFINE d == b \o Encode(a, c)
           g == With(f, a, c)
           q == [k \in 0 .. n + 1 |-> IF k = n + 1 THEN L + l + 2 + 1 ELSE p[k]]
<1>4. /\ d \in Seq(Nat) /\ Len(d) = L + l + 2
      /\ \A i \in 1 .. L : d[i] = b[i]
      /\ d[L + 1] = a /\ d[L + 2] = l
      /\ \A i \in 1 .. l : d[L + 1 + 1 + i] = c[i]
  <2>1. IsExtended(d, b, L, a, c, l)
    BY <1>2, <1>3, EncodePlaces
  <2> HIDE DEF d
  <2> QED
    BY <2>1 DEF IsExtended
<1>5. /\ DOMAIN g = DOMAIN f \cup {a} /\ g[a] = c
      /\ \A x \in DOMAIN f : g[x] = f[x]
  BY DEF With
<1> HIDE DEF d, g
<1>6. /\ n + 1 \in Nat /\ n \in 0 .. n + 1 /\ n + 1 \in 0 .. n + 1 /\ n # n + 1
      /\ \A k \in 0 .. n - 1 : k \in 0 .. n + 1 /\ k # n + 1 /\ k \in 0 .. n
                               /\ k + 1 \in 0 .. n + 1 /\ k + 1 # n + 1 /\ k # n
      /\ \A k \in 0 .. (n + 1) - 1 : k \in 0 .. n - 1 \/ k = n
  BY <1>2
<1>7. /\ q[n] = L + 1 /\ q[n + 1] = L + l + 2 + 1
      /\ \A k \in 0 .. n - 1 : q[k] = p[k] /\ q[k + 1] = p[k + 1]
  BY <1>2, <1>3, <1>6
<1>8. q \in [0 .. n + 1 -> Nat] /\ q[0] = 1
  <2>1. ASSUME NEW k \in 0 .. n + 1
        PROVE  (IF k = n + 1 THEN L + l + 2 + 1 ELSE p[k]) \in Nat
    <3>1. CASE k = n + 1
      BY <3>1
    <3>2. CASE k # n + 1
      <4>1. k \in 0 .. n
        BY <1>2, <3>2
      <4>2. p[k] \in 1 .. L + 1
        BY <1>2, <1>3, <4>1
      <4> QED
        BY <3>2, <4>2
    <3> QED
      BY <3>1, <3>2
  <2>2. 0 \in 0 .. n + 1 /\ 0 # n + 1
    BY <1>2
  <2> QED
    BY <1>2, <2>1, <2>2
<1> HIDE DEF q
<1>9. ASSUME NEW k \in 0 .. n - 1
      PROVE  /\ Tag(d, q[k]) = Tag(b, p[k]) /\ LenOf(d, q[k]) = LenOf(b, p[k])
             /\ \A x : HoldsAt(b, p[k], x) => HoldsAt(d, q[k], x)
  <2>1. PICK P \in Nat \ {0}, m \in Nat : P = p[k] /\ m = LenOf(b, p[k])
    <3>1. p[k] \in 1 .. L + 1 /\ LenOf(b, p[k]) \in Nat
      BY <1>2, <1>3, <1>6
    <3>2. p[k] \in Nat \ {0}
      BY <3>1
    <3> QED
      BY <3>1, <3>2
  <2>2. P + m + 2 <= L + 1
    BY <1>2, <1>3, <2>1
  <2>3. \A i \in 0 .. m + 1 : P + i \in 1 .. L
    BY <2>2
  <2>4. LenOf(b, P) \in Nat /\ \A i \in 0 .. LenOf(b, P) + 1 : d[P + i] = b[P + i]
    BY <1>4, <2>1, <2>3
  <2>5. /\ Tag(d, P) = Tag(b, P) /\ LenOf(d, P) = LenOf(b, P)
        /\ \A x : HoldsAt(b, P, x) => HoldsAt(d, P, x)
    BY <2>4, SameTlv
  <2> QED
    BY <1>7, <2>1, <2>5
<1>10. Tag(d, q[n]) = a /\ LenOf(d, q[n]) = l /\ HoldsAt(d, q[n], c)
  <2>1. Tag(d, L + 1) = a /\ LenOf(d, L + 1) = l
    <3>1. L + 1 + 0 = L + 1 /\ L + 1 + 1 = L + 2
      OBVIOUS
    <3> QED
      BY <1>4, <3>1 DEF Tag, LenOf, TagAt, LenAt, STD_TLV_TAG_POS, STD_TLV_LEN_POS
  <2>2. HoldsAt(d, L + 1, c)
    BY <1>3, <1>4, <2>1 DEF HoldsAt
  <2> QED
    BY <1>7, <2>1, <2>2
<1>11. Laid(d, 1, Len(d) + 1, n + 1, q)
  <2>1. ASSUME NEW k \in 0 .. (n + 1) - 1
        PROVE  LenOf(d, q[k]) \in Nat /\ q[k + 1] = q[k] + LenOf(d, q[k]) + 2
    <3>1. CASE k \in 0 .. n - 1
      BY <1>2, <1>7, <1>9, <3>1
    <3>2. CASE k = n
      <4>1. L + l + 2 + 1 = (L + 1) + l + 2
        OBVIOUS
      <4> QED
        BY <1>7, <1>10, <3>2, <4>1
    <3> QED
      BY <1>6, <3>1, <3>2
  <2>2. 1 \in Nat \ {0} /\ Len(d) + 1 \in Nat /\ Len(d) + 1 = L + l + 2 + 1
    BY <1>4
  <2> QED
    BY <1>6, <1>7, <1>8, <2>1, <2>2 DEF Laid
<1>12. \A k \in 0 .. n - 1 : /\ Tag(b, p[k]) \in DOMAIN f
                             /\ HoldsAt(b, p[k], f[Tag(b, p[k])])
  BY <1>1 DEF EncodedBy
<1>13. ASSUME NEW k \in 0 .. (n + 1) - 1
       PROVE  Tag(d, q[k]) \in DOMAIN g /\ HoldsAt(d, q[k], g[Tag(d, q[k])])
  <2>1. CASE k \in 0 .. n - 1
    BY <1>5, <1>9, <1>12, <2>1
  <2>2. CASE k = n
    BY <1>5, <1>10, <2>2
  <2> QED
    BY <1>6, <2>1, <2>2
<1>14. ASSUME NEW j \in 0 .. (n + 1) - 1, NEW k \in 0 .. (n + 1) - 1,
              Tag(d, q[j]) = Tag(d, q[k])
       PROVE  j = k
  <2>1. \A i \in 0 .. n - 1 : Tag(d, q[i]) # Tag(d, q[n])
    BY <1>9, <1>10, <1>12
  <2>2. CASE j \in 0 .. n - 1 /\ k \in 0 .. n - 1
    <3>1. Tag(b, p[j]) = Tag(b, p[k])
      BY <1>9, <1>14, <2>2
    <3> QED
      BY <1>1, <2>2, <3>1 DEF EncodedBy
  <2> QED
    BY <1>6, <1>14, <2>1, <2>2
<1>15. ASSUME NEW x \in DOMAIN g
       PROVE  \E k \in 0 .. (n + 1) - 1 : Tag(d, q[k]) = x
  <2>1. CASE x = a
    <3>1. n \in 0 .. (n + 1) - 1
      BY <1>2
    <3> QED
      BY <1>10, <2>1, <3>1
  <2>2. CASE x # a
    <3>1. PICK k \in 0 .. n - 1 : Tag(b, p[k]) = x
      BY <1>1, <1>5, <2>2 DEF EncodedBy
    <3>2. k \in 0 .. (n + 1) - 1
      BY <1>2
    <3> QED
      BY <1>9, <3>1, <3>2
  <2> QED
    BY <2>1, <2>2
<1>16. EncodedBy(d, g, n + 1, q)
  BY <1>4, <1>11, <1>13, <1>14, <1>15 DEF EncodedBy
<1> QED
  BY <1>16 DEF Encodes, d, g

(* attr_set(): the attribute has the new content, if there is room for it  *)
(* when the old one is gone, and is absent otherwise.                      *)
LEMMA SetEncoded ==
    ASSUME NEW b, NEW f, Encodes(b, f), NEW a \in Nat, NEW c \in Seq(Nat),
           NEW room \in Nat, Len(b) <= room
    PROVE  LET set == AttrSet(b, a, c, room)
           IN  /\ set.ok \in BOOLEAN
               /\ Encodes(set.buf, IF set.ok THEN With(Without(f, a), a, c)
                                             ELSE Without(f, a))
               /\ set.buf \in Seq(Nat) /\ Len(set.buf) <= room
               /\ a \in DOMAIN f /\ ~set.ok => Len(c) > Len(f[a])
<1> DEFINE rest == Delete(b, a)
           g    == Without(f, a)
           set  == AttrSet(b, a, c, room)
<1>1. PICK n, p : EncodedBy(b, f, n, p)
  BY DEF Encodes
<1>2. b \in Seq(Nat) /\ Len(b) \in Nat /\ Len(c) \in Nat
  BY <1>1, EncodedPlaces
<1>3. Encodes(rest, g) /\ a \notin DOMAIN g
  BY DeleteAbsent, DeletePresent DEF Without
<1>4. PICK r \in Nat, l \in Nat : r = Len(rest) /\ l = Len(c)
  <2>1. PICK m, q : EncodedBy(rest, g, m, q)
    BY <1>3 DEF Encodes
  <2>2. Len(rest) \in Nat
    <3> HIDE DEF rest, g
    <3> QED
      BY <2>1, EncodedPlaces
  <2> QED
    BY <1>2, <2>2
<1>5. r <= room /\ (a \in DOMAIN f => Len(f[a]) \in Nat /\ r + Len(f[a]) + 2 <= room)
  <2>1. CASE a \in DOMAIN f
    <3>1. Len(f[a]) \in Nat /\ r + Len(f[a]) + 2 = Len(b)
      BY <1>4, <2>1, DeletePresent
    <3>2. PICK m \in Nat, o \in Nat : m = Len(f[a]) /\ o = Len(b)
      BY <1>2, <3>1
    <3> QED
      BY <3>1, <3>2
  <2>2. CASE a \notin DOMAIN f
    BY <1>4, <2>2, DeleteAbsent
  <2> QED
    BY <2>1, <2>2
<1>6. rest \in Seq(Nat)
  BY <1>3 DEF Encodes, EncodedBy
<1> HIDE DEF rest, g
<1>7. set.ok = (room - r >= l + 2) /\ set.buf = Add(rest, a, c, room)
  BY <1>4 DEF AttrSet, Added, Fits, STD_TLV_HDR_LEN, rest
<1>8. set.buf = IF set.ok THEN rest \o Encode(a, c) ELSE rest
  BY <1>4, <1>7 DEF Add, Fits, STD_TLV_HDR_LEN
<1> HIDE DEF set
<1>9. CASE set.ok
  <2>1. set.buf = rest \o Encode(a, c)
    BY <1>8, <1>9
  <2>2. Encodes(set.buf, With(g, a, c))
    BY <1>3, <2>1, AddEncoded
  <2>3. set.buf \in Seq(Nat) /\ Len(set.buf) = r + l + 2
    <3>1. IsExtended(rest \o Encode(a, c), rest, r, a, c, l)
      BY <1>4, <1>6, EncodePlaces
    <3> QED
      BY <2>1, <3>1 DEF IsExtended
  <2>4. Len(set.buf) <= room
    <3>1. room - r >= l + 2
      BY <1>7, <1>9
    <3> QED
      BY <2>3, <3>1
  <2> QED
    BY <1>7, <1>9, <2>2, <2>3, <2>4 DEF g, set
<1>10. CASE ~set.ok
  <2>1. set.buf = rest
    BY <1>8, <1>10
  <2>2. a \in DOMAIN f => l > Len(f[a])
    <3> SUFFICES ASSUME a \in DOMAIN f
                 PROVE  l > Len(f[a])
      OBVIOUS
    <3>1. PICK m \in Nat : m = Len(f[a])
      BY <1>5
    <3>2. r + m + 2 <= room /\ ~(room - r >= l + 2)
      BY <1>5, <1>7, <1>10, <3>1
    <3> QED
      BY <3>1, <3>2
  <2> QED
    BY <1>3, <1>4, <1>5, <1>6, <1>7, <1>10, <2>1, <2>2 DEF g, set
<1> QED
  BY <1>9, <1>10

-----------------------------------------------------------------------------
(* The attributes of an object and their values.                           *)

(* The ids of a class, and what its constructor sets its strings to.       *)
LEMMA ClassIds ==
    ASSUME NEW c \in Classes
    PROVE  \E k \in 1 .. 5 :
              /\ OBJ(c) = 10 * k /\ SEQ_NO(c) = 10 * k + 1 /\ LAST_SEQ_NO(c) = 10 * k + 2
              /\ TIMESTAMP_NS(c) = 10 * k + 3 /\ NAME(c) = 10 * k + 4
              /\ DOMAIN StringsOf[c] = IF c = "telemetry" THEN {TEMPERATURE, VOLTAGE}
                                                         ELSE {NAME(c)}
              /\ c = "telemetry" => k = 3 /\ TEMPERATURE = 34 /\ VOLTAGE = 35
              /\ k = ClassNo[c]
              /\ \A a \in DOMAIN StringsOf[c] :
                    StringsOf[c][a] \in { <<>>, << 0 >>, <<0, 0>> }
<1>1. c \in {"alarm", "connection", "telemetry", "vlan", "weather"}
  BY CpsObjectAssumption DEF ClassNo
<1> DEFINE k == ClassNo[c]
<1>2. k \in 1 .. 5 /\ (c = "telemetry" => k = 3) /\ ClassNo["telemetry"] = 3
  BY <1>1 DEF ClassNo
<1>3. /\ OBJ(c) = 10 * k + 0 /\ SEQ_NO(c) = 10 * k + 1 /\ LAST_SEQ_NO(c) = 10 * k + 2
      /\ TIMESTAMP_NS(c) = 10 * k + 3 /\ NAME(c) = 10 * k + 4
  BY DEF OBJ, SEQ_NO, LAST_SEQ_NO, TIMESTAMP_NS, NAME, PUBSUB
<1>4. TEMPERATURE = 34 /\ VOLTAGE = 35
  BY <1>2 DEF TEMPERATURE, VOLTAGE, PUBSUB
<1>5. \/ c = "alarm" /\ StringsOf[c] = Alarm
      \/ c = "connection" /\ StringsOf[c] = Connection
      \/ c = "telemetry" /\ StringsOf[c] = Telemetry
      \/ c = "vlan" /\ StringsOf[c] = Vlan
      \/ c = "weather" /\ StringsOf[c] = Weather
  BY <1>1 DEF StringsOf
<1>6. /\ DOMAIN StringsOf[c] = IF c = "telemetry" THEN {TEMPERATURE, VOLTAGE} ELSE {NAME(c)}
      /\ \A a \in DOMAIN StringsOf[c] : StringsOf[c][a] \in { <<>>, << 0 >>, <<0, 0>> }
  <2>1. CASE c = "alarm" /\ StringsOf[c] = Alarm
    BY <2>1 DEF Alarm
  <2>2. CASE c = "connection" /\ StringsOf[c] = Connection
    BY <2>2 DEF Connection
  <2>3. CASE c = "telemetry" /\ StringsOf[c] = Telemetry
    BY <2>3 DEF Telemetry
  <2>4. CASE c = "vlan" /\ StringsOf[c] = Vlan
    BY <2>4 DEF Vlan
  <2>5. CASE c = "weather" /\ StringsOf[c] = Weather
    BY <2>5 DEF Weather
  <2> QED
    BY <1>5, <2>1, <2>2, <2>3, <2>4, <2>5
<1>7. 10 * k + 0 = 10 * k
  BY <1>2
<1> HIDE DEF k
<1>8. k \in 1 .. 5 /\ k = ClassNo[c]
  BY <1>2 DEF k
<1> QED
  BY <1>2, <1>3, <1>4, <1>6, <1>7, <1>8

LEMMA AttrsAreNumbers ==
    ASSUME NEW c \in Classes
    PROVE  /\ \A a \in Attrs(c) : a \in Nat /\ a > 10
           /\ TIMESTAMP_NS(c) \notin {SEQ_NO(c), LAST_SEQ_NO(c)}
           /\ SEQ_NO(c) # LAST_SEQ_NO(c)
           /\ \A a \in DOMAIN StringsOf[c] :
                 a \notin {SEQ_NO(c), LAST_SEQ_NO(c), TIMESTAMP_NS(c)}
<1>1. PICK k \in 1 .. 5 :
        /\ SEQ_NO(c) = 10 * k + 1 /\ LAST_SEQ_NO(c) = 10 * k + 2
        /\ TIMESTAMP_NS(c) = 10 * k + 3 /\ NAME(c) = 10 * k + 4
        /\ DOMAIN StringsOf[c] = IF c = "telemetry" THEN {TEMPERATURE, VOLTAGE} ELSE {NAME(c)}
        /\ c = "telemetry" => k = 3 /\ TEMPERATURE = 34 /\ VOLTAGE = 35
  BY ClassIds
<1>2. \A a \in DOMAIN StringsOf[c] : a = 10 * k + 4 \/ a = 10 * k + 5
  BY <1>1
<1> QED
  BY <1>1, <1>2 DEF Attrs

(* What the setter and the getter of an attribute do with it.              *)
LEMMA Kinds ==
    ASSUME NEW c \in Classes, NEW a
    PROVE  /\ a \in {SEQ_NO(c), LAST_SEQ_NO(c)} =>
                 /\ ValueOf(c, a) = UInt32
                 /\ \A v : Content(c, a, v) = Le32(v[1])
                 /\ \A b : Get(c, b, a) = GetU32(b, a)
           /\ a = TIMESTAMP_NS(c) =>
                 /\ ValueOf(c, a) = UInt64
                 /\ \A v : Content(c, a, v) = Le64(v[1], Base)
                 /\ \A b : Get(c, b, a) = GetU64(b, a)
           /\ a \notin {SEQ_NO(c), LAST_SEQ_NO(c), TIMESTAMP_NS(c)} =>
                 /\ ValueOf(c, a) = String
                 /\ \A v : Content(c, a, v) = v
                 /\ \A b : Get(c, b, a) = GetBin(b, a)
<1>1. TIMESTAMP_NS(c) \notin {SEQ_NO(c), LAST_SEQ_NO(c)}
  BY AttrsAreNumbers
<1>2. ASSUME a \in {SEQ_NO(c), LAST_SEQ_NO(c)}
      PROVE  /\ ValueOf(c, a) = UInt32
             /\ \A v : Content(c, a, v) = Le32(v[1])
             /\ \A b : Get(c, b, a) = GetU32(b, a)
  <2>1. a # TIMESTAMP_NS(c)
    BY <1>1, <1>2
  <2> QED
    BY <1>2, <2>1 DEF ValueOf, Content, Get
<1>3. ASSUME a = TIMESTAMP_NS(c)
      PROVE  /\ ValueOf(c, a) = UInt64
             /\ \A v : Content(c, a, v) = Le64(v[1], Base)
             /\ \A b : Get(c, b, a) = GetU64(b, a)
  BY <1>1, <1>3 DEF ValueOf, Content, Get
<1>4. ASSUME a \notin {SEQ_NO(c), LAST_SEQ_NO(c), TIMESTAMP_NS(c)}
      PROVE  /\ ValueOf(c, a) = String
             /\ \A v : Content(c, a, v) = v
             /\ \A b : Get(c, b, a) = GetBin(b, a)
  <2>1. a \notin {SEQ_NO(c), LAST_SEQ_NO(c)} /\ a # TIMESTAMP_NS(c)
    BY <1>4
  <2> QED
    BY <2>1 DEF ValueOf, Content, Get
<1> QED
  BY <1>2, <1>3, <1>4

(* A unit of a number of base values.                                      *)
LEMMA TwoUnits ==
    ASSUME NEW n \in Nat
    PROVE  n % Base \in Nat /\ n \div Base \in Nat /\ (n % Base) + Base * (n \div Base) = n
BY CpsObjectAssumption

LEMMA ContentType ==
    ASSUME NEW c \in Classes, NEW a, NEW v \in ValueOf(c, a)
    PROVE  /\ Content(c, a, v) \in Seq(Nat) /\ Len(Content(c, a, v)) \in 0 .. MaxUnits
           /\ v # None
<1>0. Base \in Nat \ {0} /\ MaxUnits \in Nat \ {0, 1}
  BY CpsObjectAssumption
<1>1. CASE a \in {SEQ_NO(c), LAST_SEQ_NO(c)}
  <2>1. PICK n \in 0 .. Base - 1 : v = <<n>>
    BY <1>1, Kinds DEF UInt32
  <2>2. Content(c, a, v) = <<n>>
    BY <1>1, <2>1, Kinds DEF Le32
  <2>3. n \in Nat /\ <<n>> \in Seq(Nat) /\ Len(<<n>>) = 1 /\ 1 \in 0 .. MaxUnits
    BY <1>0
  <2>4. <<n>>[1] # None[1]
    BY <2>3 DEF None
  <2> QED
    BY <2>1, <2>2, <2>3, <2>4
<1>2. CASE a = TIMESTAMP_NS(c)
  <2>1. PICK n \in 0 .. Base * Base - 1 : v = <<n>>
    BY <1>2, Kinds DEF UInt64
  <2>2. Content(c, a, v) = <<n % Base, n \div Base>>
    BY <1>2, <2>1, Kinds DEF Le64
  <2>3. n \in Nat
    OBVIOUS
  <2>4. n % Base \in Nat /\ n \div Base \in Nat
    BY <2>3, TwoUnits
  <2>5. <<n>>[1] # None[1]
    BY <2>3 DEF None
  <2>6. 2 \in 0 .. MaxUnits
    BY <1>0
  <2>7. Len(Content(c, a, v)) = 2 /\ Content(c, a, v) \in Seq(Nat)
    <3> DEFINE x == n % Base
               y == n \div Base
    <3>1. x \in Nat /\ y \in Nat /\ Content(c, a, v) = <<x, y>>
      BY <2>2, <2>4
    <3> HIDE DEF x, y
    <3> QED
      BY <3>1
  <2> QED
    BY <2>1, <2>5, <2>6, <2>7
<1>3. CASE a \notin {SEQ_NO(c), LAST_SEQ_NO(c), TIMESTAMP_NS(c)}
  <2>1. PICK m \in 0 .. MaxUnits : v \in [1 .. m -> Units]
    BY <1>3, Kinds DEF String
  <2>2. Content(c, a, v) = v
    BY <1>3, Kinds
  <2>3. m \in Nat /\ \A i \in 1 .. m : v[i] \in Nat
    BY <1>0, <2>1 DEF Units
  <2>4. v \in [1 .. m -> Nat]
    BY <2>1, <2>3
  <2>5. v \in Seq(Nat) /\ Len(v) = m
    BY <2>3, <2>4
  <2>6. v # None
    <3>1. CASE m = 1
      <4>1. v[1] \in Nat
        BY <2>3, <3>1
      <4> QED
        BY <4>1 DEF None
    <3>2. CASE m # 1
      <4>1. Len(None) = 1
        BY DEF None
      <4> QED
        BY <2>5, <3>2, <4>1
    <3> QED
      BY <3>1, <3>2
  <2> QED
    BY <2>1, <2>2, <2>5, <2>6
<1> QED
  BY <1>1, <1>2, <1>3

(* The getter of an attribute returns the value that its content encodes.  *)
LEMMA ReadEncoded ==
    ASSUME NEW c \in Classes, NEW b, NEW A, NEW v,
           \A x \in A : v[x] \in ValueOf(c, x),
           Encodes(b, [x \in A |-> Content(c, x, v[x])]),
           NEW a
    PROVE  Get(c, b, a) = IF a \in A THEN v[a] ELSE None
<1> DEFINE f == [x \in A |-> Content(c, x, v[x])]
<1>1. PICK n, p : EncodedBy(b, f, n, p)
  BY DEF Encodes
<1>2. CASE a \notin A
  <2>1. Find(b, a) = NULL
    <3>1. a \notin DOMAIN f
      BY <1>2
    <3> HIDE DEF f
    <3> QED
      BY <1>1, <3>1, FindEncoded
  <2>2. GetU32(b, a) = None /\ GetU64(b, a) = None /\ GetBin(b, a) = None
    BY <2>1 DEF GetU32, GetU64, GetBin
  <2> QED
    BY <1>2, <2>2, Kinds
<1>3. CASE a \in A
  <2>1. DOMAIN f = A /\ f[a] = Content(c, a, v[a])
    BY <1>3
  <2>2. v[a] \in ValueOf(c, a)
    BY <1>3
  <2> HIDE DEF f
  <2>3. PICK k \in 0 .. n - 1 : Tag(b, p[k]) = a
    BY <1>1, <1>3, <2>1 DEF EncodedBy
  <2> DEFINE P == p[k]
             C == Content(c, a, v[a])
  <2>4. Find(b, a) = P
    BY <1>1, <2>3, FindEncoded
  <2>5. HoldsAt(b, P, C)
    BY <1>1, <2>1, <2>3 DEF EncodedBy
  <2>6. /\ b \in Seq(Nat) /\ Len(b) \in Nat
        /\ P \in 1 .. Len(b) + 1
        /\ LenOf(b, P) \in Nat /\ P + LenOf(b, P) + 2 <= Len(b) + 1
    <3>1. k \in 0 .. n
      BY <1>1, EncodedPlaces
    <3> QED
      BY <1>1, <3>1, EncodedPlaces
  <2>7. C \in Seq(Nat) /\ Len(C) \in Nat
    BY <2>2, ContentType
  <2> HIDE DEF P
  <2>8. P \in Nat \ {0}
    BY <2>6
  <2>9. DataAt(P) = P + 2 /\ NULL = 0
    BY DEF DataAt, STD_TLV_DATA_POS, STD_TLV_HDR_LEN, NULL
  <2>10. \A i \in 1 .. Len(C) : b[P + 1 + i] = C[i]
    BY <2>5 DEF HoldsAt
  <2>11. CASE a \in {SEQ_NO(c), LAST_SEQ_NO(c)}
    <3>1. PICK m \in 0 .. Base - 1 : v[a] = <<m>>
      BY <2>2, <2>11, Kinds DEF UInt32
    <3>2. C = <<m>>
      <4>1. C = Le32(v[a][1]) /\ v[a][1] = m
        BY <2>11, <3>1, Kinds
      <4> QED
        BY <4>1 DEF Le32
    <3>3. Len(C) = 1 /\ C[1] = m
      BY <3>2
    <3> HIDE DEF C
    <3>4. b[P + 1 + 1] = m
      BY <2>10, <3>3
    <3>5. P + 1 + 1 = P + 2
      BY <2>8
    <3>6. GetU32(b, a) = <<m>>
      BY <2>4, <2>8, <2>9, <3>4, <3>5 DEF GetU32, DataU32
    <3> QED
      BY <1>3, <2>11, <3>1, <3>6, Kinds
  <2>12. CASE a = TIMESTAMP_NS(c)
    <3>1. PICK m \in 0 .. Base * Base - 1 : v[a] = <<m>>
      BY <2>2, <2>12, Kinds DEF UInt64
    <3>2. C = <<m % Base, m \div Base>>
      BY <2>12, <3>1, Kinds DEF Le64
    <3>3. Len(C) = 2 /\ C[1] = m % Base /\ C[2] = m \div Base
      BY <3>2
    <3> HIDE DEF C
    <3>4. b[P + 1 + 1] = m % Base /\ b[P + 1 + 2] = m \div Base
      BY <2>10, <3>3
    <3>5. P + 1 + 1 = P + 2 /\ P + 1 + 2 = P + 2 + 1
      BY <2>8
    <3>6. (m % Base) + Base * (m \div Base) = m
      BY TwoUnits
    <3>7. DataU64(b, P, Base) = m
      BY <2>9, <3>4, <3>5, <3>6 DEF DataU64, DataU32
    <3>8. GetU64(b, a) = <<m>>
      BY <2>4, <2>8, <2>9, <3>7 DEF GetU64
    <3> QED
      BY <1>3, <2>12, <3>1, <3>8, Kinds
  <2>13. CASE a \notin {SEQ_NO(c), LAST_SEQ_NO(c), TIMESTAMP_NS(c)}
    <3>1. C = v[a]
      BY <2>13, Kinds
    <3>2. DataOf(b, P) = C
      <4>1. PICK l \in Nat, L \in Nat : l = Len(C) /\ l = LenOf(b, P) /\ L = Len(b)
        BY <2>5, <2>6, <2>7 DEF HoldsAt
      <4> DEFINE e == P + (l + 2) - 1
                 s == SubSeq(b, P + 2, e)
      <4>2. DataOf(b, P) = s
        BY <2>9, <4>1 DEF DataOf, TotalLen, STD_TLV_HDR_LEN
      <4>3. P + 2 \in Int /\ e \in Int /\ \A i \in P + 2 .. e : b[i] \in Nat
        <5>1. P + l + 2 <= L + 1
          BY <2>6, <4>1
        <5>2. \A i \in P + 2 .. e : i \in 1 .. L
          BY <2>8, <5>1
        <5>3. \A i \in 1 .. L : b[i] \in Nat
          BY <2>6, <4>1, ElementOfSeq
        <5>4. P + 2 \in Int /\ e \in Int
          BY <2>8
        <5> QED
          BY <5>2, <5>3, <5>4
      <4> HIDE DEF e
      <4>4. /\ s \in Seq(Nat) /\ Len(s) = IF P + 2 <= e THEN e - (P + 2) + 1 ELSE 0
            /\ \A i \in 1 .. e - (P + 2) + 1 : s[i] = b[P + 2 + i - 1]
        BY <4>3, SubSeqProperties
      <4> HIDE DEF s, C
      <4>5. e - (P + 2) + 1 = l /\ (~(P + 2 <= e) => l = 0)
        BY <2>8 DEF e
      <4>6. ASSUME NEW i \in 1 .. l
            PROVE  s[i] = C[i]
        <5>1. P + 2 + i - 1 = P + 1 + i
          BY <2>8
        <5>2. b[P + 1 + i] = C[i]
          BY <2>10, <4>1
        <5> QED
          BY <4>4, <4>5, <5>1, <5>2
      <4>7. s \in Seq(Nat) /\ Len(s) = l
        BY <4>4, <4>5
      <4>8. s = C
        BY <2>7, <4>1, <4>6, <4>7, SeqEqual
      <4> QED
        BY <4>2, <4>8
    <3>3. GetBin(b, a) = v[a]
      BY <2>4, <2>8, <2>9, <3>1, <3>2 DEF GetBin
    <3> QED
      BY <1>3, <2>13, <3>3, Kinds
  <2> QED
    BY <2>11, <2>12, <2>13
<1> QED
  BY <1>2, <1>3

-----------------------------------------------------------------------------
(* The object.                                                             *)

(* The attributes that are present, with what their values encode to.      *)
Contents(c, w) ==
    [a \in { x \in Attrs(c) : w[x] # None } |-> Content(c, a, w[a])]

(* The inductive invariant: the buffer is the encoding of what was set.    *)
(* Neither what can be read of it nor that it fits its capacity would do:  *)
(* where a TLV starts depends on all that lie before it.                   *)
IInv ==
    /\ TypeOK
    /\ want = [a \in Attrs(class) |-> want[a]]
    /\ Encodes(buf, Contents(class, want))

LEMMA EncodesSame ==
    ASSUME NEW b, NEW f, NEW g, Encodes(b, f), DOMAIN g = DOMAIN f,
           \A x \in DOMAIN f : g[x] = f[x]
    PROVE  Encodes(b, g)
<1>1. PICK n, p : EncodedBy(b, f, n, p)
  BY DEF Encodes
<1>2. EncodedBy(b, g, n, p)
  BY <1>1 DEF EncodedBy
<1> QED
  BY <1>2 DEF Encodes

LEMMA ConstantStrings ==
    <<>> \in String /\ << 0 >> \in String /\ <<0, 0>> \in String
<1>1. Base \in Nat \ {0} /\ MaxUnits \in Nat \ {0, 1}
  BY CpsObjectAssumption
<1>2. 0 \in Units
  BY <1>1 DEF Units
<1>3. \A n \in 0 .. 2 : n \in 0 .. MaxUnits
  BY <1>1
<1>4. <<>> \in [1 .. 0 -> Units] /\ << 0 >> \in [1 .. 1 -> Units]
      /\ <<0, 0>> \in [1 .. 2 -> Units]
  BY <1>2
<1>5. 0 \in 0 .. MaxUnits /\ 1 \in 0 .. MaxUnits /\ 2 \in 0 .. MaxUnits
  BY <1>3
<1> QED
  BY <1>4, <1>5 DEF String

(* What the constructor of a class sets, and that it has the right type.   *)
SetFirst(c)      == {SEQ_NO(c)} \cup DOMAIN StringsOf[c]
FirstValue(c, a) == IF a = SEQ_NO(c) THEN << 0 >> ELSE StringsOf[c][a]

LEMMA FirstValueType ==
    ASSUME NEW c \in Classes, NEW a \in SetFirst(c)
    PROVE  /\ FirstValue(c, a) \in ValueOf(c, a) /\ a \in Attrs(c)
           /\ a = SEQ_NO(c) => Content(c, a, FirstValue(c, a)) = Le32(0)
           /\ a # SEQ_NO(c) => Content(c, a, FirstValue(c, a)) = StringsOf[c][a]
<1>1. a \in Attrs(c)
  BY DEF SetFirst, Attrs
<1>2. CASE a = SEQ_NO(c)
  <2>1. ValueOf(c, a) = UInt32 /\ Content(c, a, << 0 >>) = Le32(<< 0 >>[1])
    BY <1>2, Kinds
  <2>2. 0 \in 0 .. Base - 1 /\ << 0 >>[1] = 0
    BY CpsObjectAssumption
  <2> QED
    BY <1>1, <1>2, <2>1, <2>2 DEF FirstValue, UInt32
<1>3. CASE a # SEQ_NO(c)
  <2>1. a \in DOMAIN StringsOf[c]
    BY <1>3 DEF SetFirst
  <2>2. StringsOf[c][a] \in { <<>>, << 0 >>, <<0, 0>> }
    BY <2>1, ClassIds
  <2>3. a \notin {SEQ_NO(c), LAST_SEQ_NO(c), TIMESTAMP_NS(c)}
    BY <2>1, AttrsAreNumbers
  <2>4. StringsOf[c][a] \in String
    BY <2>2, ConstantStrings
  <2>5. ValueOf(c, a) = String /\ Content(c, a, StringsOf[c][a]) = StringsOf[c][a]
    BY <2>3, Kinds
  <2> QED
    BY <1>1, <1>3, <2>4, <2>5 DEF FirstValue
<1> QED
  BY <1>2, <1>3

(* A buffer of the constructor: some of what it sets, which fits.          *)
Half(c, b, room) ==
    /\ b \in Seq(Nat) /\ Len(b) <= room
    /\ \E A \in SUBSET SetFirst(c) : Encodes(b, [a \in A |-> Content(c, a, FirstValue(c, a))])

LEMMA HalfStep ==
    ASSUME NEW c \in Classes, NEW b, NEW room \in Nat, Half(c, b, room),
           NEW a \in SetFirst(c), NEW v, v = Content(c, a, FirstValue(c, a))
    PROVE  Half(c, AttrSet(b, a, v, room).buf, room)
<1>1. PICK A \in SUBSET SetFirst(c) :
        Encodes(b, [x \in A |-> Content(c, x, FirstValue(c, x))])
  BY DEF Half
<1> DEFINE f   == [x \in A |-> Content(c, x, FirstValue(c, x))]
           set == AttrSet(b, a, v, room)
           B   == IF set.ok THEN A \cup {a} ELSE A \ {a}
           g   == IF set.ok THEN With(Without(f, a), a, v) ELSE Without(f, a)
           h   == [x \in B |-> Content(c, x, FirstValue(c, x))]
<1>2. a \in Nat /\ v \in Seq(Nat)
  BY FirstValueType, AttrsAreNumbers, ContentType
<1>3. /\ set.ok \in BOOLEAN /\ Encodes(set.buf, g)
      /\ set.buf \in Seq(Nat) /\ Len(set.buf) <= room
  <2>1. Encodes(b, f) /\ Len(b) <= room
    BY <1>1 DEF Half
  <2> HIDE DEF f
  <2> QED
    BY <1>2, <2>1, SetEncoded
<1>4. DOMAIN h = DOMAIN g /\ \A x \in DOMAIN g : h[x] = g[x]
  <2> HIDE DEF set
  <2>1. CASE set.ok
    BY <2>1 DEF With, Without
  <2>2. CASE ~set.ok
    BY <2>2 DEF Without
  <2> QED
    BY <2>1, <2>2
<1>5. Encodes(set.buf, h)
  <2> HIDE DEF g, h, set
  <2> QED
    BY <1>3, <1>4, EncodesSame
<1>6. B \in SUBSET SetFirst(c)
  OBVIOUS
<1> HIDE DEF B, set
<1> QED
  BY <1>3, <1>5, <1>6 DEF Half, set

LEMMA HalfBuilt ==
    ASSUME NEW c \in Classes, NEW room \in Nat
    PROVE  Half(c, Built(c, room), room)
<1> DEFINE first == AttrSet(<<>>, SEQ_NO(c), Le32(0), room).buf
           Name(b, a) == AttrSet(b, a, StringsOf[c][a], room).buf
<1>1. Half(c, <<>>, room)
  <2>1. Encodes(<<>>, [a \in {} |-> Content(c, a, FirstValue(c, a))])
    BY EmptyEncodes
  <2>2. <<>> \in Seq(Nat) /\ Len(<<>>) <= room
    OBVIOUS
  <2> QED
    BY <2>1, <2>2 DEF Half
<1>2. Half(c, first, room)
  <2>1. SEQ_NO(c) \in SetFirst(c)
    BY DEF SetFirst
  <2>2. Le32(0) = Content(c, SEQ_NO(c), FirstValue(c, SEQ_NO(c)))
    BY <2>1, FirstValueType
  <2> QED
    BY <1>1, <2>1, <2>2, HalfStep
<1>3. ASSUME NEW b, Half(c, b, room), NEW a \in DOMAIN StringsOf[c]
      PROVE  Half(c, Name(b, a), room)
  <2>1. a \in SetFirst(c) /\ a # SEQ_NO(c)
    BY AttrsAreNumbers DEF SetFirst
  <2>2. StringsOf[c][a] = Content(c, a, FirstValue(c, a))
    BY <2>1, FirstValueType
  <2> QED
    BY <1>3, <2>1, <2>2, HalfStep
<1>4. DOMAIN StringsOf[c] = IF c = "telemetry" THEN {TEMPERATURE, VOLTAGE} ELSE {NAME(c)}
  BY ClassIds
<1>5. Built(c, room) = IF c = "telemetry" THEN Name(Name(first, TEMPERATURE), VOLTAGE)
                                          ELSE Name(first, NAME(c))
  BY DEF Built
<1> HIDE DEF first, Name
<1>6. CASE c = "telemetry"
  <2>1. Half(c, Name(first, TEMPERATURE), room)
    BY <1>2, <1>3, <1>4, <1>6
  <2>2. Half(c, Name(Name(first, TEMPERATURE), VOLTAGE), room)
    BY <1>3, <1>4, <1>6, <2>1
  <2> QED
    BY <1>5, <1>6, <2>2
<1>7. CASE c # "telemetry"
  BY <1>2, <1>3, <1>4, <1>5, <1>7
<1> QED
  BY <1>6, <1>7

LEMMA InitIInv == Init => IInv
<1> SUFFICES ASSUME Init
             PROVE  IInv
  OBVIOUS
<1>1. class \in Classes /\ capacity \in Nat /\ capacity \in Capacities
  BY CpsObjectAssumption DEF Init
<1>2. Half(class, buf, capacity)
  BY <1>1, HalfBuilt DEF Init
<1>3. PICK A \in SUBSET SetFirst(class) :
        Encodes(buf, [a \in A |-> Content(class, a, FirstValue(class, a))])
  BY <1>2 DEF Half
<1> DEFINE v == [a \in A |-> FirstValue(class, a)]
<1>4. \A a \in A : a \in Attrs(class) /\ v[a] \in ValueOf(class, a) /\ v[a] # None
  BY <1>1, FirstValueType, ContentType
<1>5. Encodes(buf, [a \in A |-> Content(class, a, v[a])])
  <2>1. [a \in A |-> Content(class, a, v[a])]
          = [a \in A |-> Content(class, a, FirstValue(class, a))]
    OBVIOUS
  <2> QED
    BY <1>3, <2>1
<1> HIDE DEF v
<1>6. want = [a \in Attrs(class) |-> Get(class, buf, a)]
  BY DEF Init
<1>7. \A a \in Attrs(class) : want[a] = IF a \in A THEN v[a] ELSE None
  <2>1. \A a : Get(class, buf, a) = IF a \in A THEN v[a] ELSE None
    BY <1>1, <1>4, <1>5, ReadEncoded
  <2> QED
    BY <1>6, <2>1
<1>8. want = [a \in Attrs(class) |-> want[a]]
  BY <1>6
<1>9. Encodes(buf, Contents(class, want))
  <2> DEFINE f == [a \in A |-> Content(class, a, v[a])]
             g == Contents(class, want)
  <2>1. DOMAIN g = A
    BY <1>4, <1>7 DEF Contents
  <2>2. \A a \in A : g[a] = f[a]
    BY <1>4, <1>7, <2>1 DEF Contents
  <2>3. DOMAIN f = A
    OBVIOUS
  <2>4. Encodes(buf, f)
    BY <1>5
  <2> HIDE DEF f, g
  <2> QED
    BY <2>1, <2>2, <2>3, <2>4, EncodesSame DEF g
<1>10. TypeOK
  <2>1. given = 0 /\ 0 \in 0 .. MaxUnits
    BY CpsObjectAssumption DEF Init
  <2>2. \A a \in Attrs(class) : want[a] \in ValueOf(class, a) \cup {None}
    BY <1>4, <1>7
  <2> QED
    BY <1>1, <1>2, <2>1, <2>2 DEF TypeOK, Half
<1> QED
  BY <1>8, <1>9, <1>10 DEF IInv

(* A setter keeps the invariant, and fails only if its value is longer     *)
(* than the one before.                                                    *)
LEMMA SetterStep ==
    ASSUME IInv, NEW a \in Attrs(class), NEW v \in ValueOf(class, a), Setter(a, v)
    PROVE  /\ IInv'
           /\ \A x \in Attrs(class) :
                 want[x] # None /\ want'[x] = None
                    => given' > Len(Content(class, x, want[x]))
<1> DEFINE f   == Contents(class, want)
           c   == Content(class, a, v)
           set == AttrSet(buf, a, c, capacity)
           g   == IF set.ok THEN With(Without(f, a), a, c) ELSE Without(f, a)
<1>1. /\ class \in Classes /\ capacity \in Capacities /\ capacity \in Nat
      /\ buf \in Seq(Nat) /\ Len(buf) <= capacity
      /\ \A x \in Attrs(class) : want[x] \in ValueOf(class, x) \cup {None}
      /\ want = [x \in Attrs(class) |-> want[x]]
      /\ Encodes(buf, f)
  BY CpsObjectAssumption DEF IInv, TypeOK
<1>2. a \in Nat /\ c \in Seq(Nat) /\ Len(c) \in 0 .. MaxUnits /\ v # None
  BY <1>1, AttrsAreNumbers, ContentType
<1>3. /\ buf' = set.buf /\ given' = Len(c)
      /\ want' = [want EXCEPT ![a] = IF set.ok THEN v ELSE None]
      /\ class' = class /\ capacity' = capacity
  BY DEF Setter
<1>4. /\ DOMAIN f = { x \in Attrs(class) : want[x] # None }
      /\ \A x \in DOMAIN f : f[x] = Content(class, x, want[x])
  BY DEF Contents
<1>5. /\ set.ok \in BOOLEAN /\ Encodes(set.buf, g)
      /\ set.buf \in Seq(Nat) /\ Len(set.buf) <= capacity
      /\ a \in DOMAIN f /\ ~set.ok => Len(c) > Len(f[a])
  <2> HIDE DEF f, c
  <2> QED
    BY <1>1, <1>2, SetEncoded
<1> HIDE DEF f, c, set
<1>6. /\ \A x \in Attrs(class) :
            want'[x] = IF x = a THEN (IF set.ok THEN v ELSE None) ELSE want[x]
      /\ want' = [x \in Attrs(class) |-> want'[x]]
  BY <1>1, <1>3
<1>7. Contents(class, want') = g
  <2>1. CASE set.ok
    <3>1. { x \in Attrs(class) : want'[x] # None } = DOMAIN f \cup {a}
      BY <1>2, <1>4, <1>6, <2>1
    <3>2. \A x \in DOMAIN f \cup {a} :
            Content(class, x, want'[x]) = IF x = a THEN c ELSE f[x]
      BY <1>4, <1>6, <2>1 DEF c
    <3>3. Contents(class, want') = [x \in DOMAIN f \cup {a} |-> IF x = a THEN c ELSE f[x]]
      BY <3>1, <3>2 DEF Contents
    <3>4. g = [x \in DOMAIN f \cup {a} |-> IF x = a THEN c ELSE f[x]]
      <4>1. DOMAIN Without(f, a) = DOMAIN f \ {a}
            /\ \A x \in DOMAIN f \ {a} : Without(f, a)[x] = f[x]
        BY DEF Without
      <4>2. (DOMAIN f \ {a}) \cup {a} = DOMAIN f \cup {a}
        OBVIOUS
      <4> QED
        BY <2>1, <4>1, <4>2 DEF With
    <3> QED
      BY <3>3, <3>4
  <2>2. CASE ~set.ok
    <3>1. { x \in Attrs(class) : want'[x] # None } = DOMAIN f \ {a}
      BY <1>4, <1>6, <2>2
    <3>2. \A x \in DOMAIN f \ {a} : Content(class, x, want'[x]) = f[x]
      BY <1>4, <1>6, <2>2
    <3>3. Contents(class, want') = [x \in DOMAIN f \ {a} |-> f[x]]
      BY <3>1, <3>2 DEF Contents
    <3> QED
      BY <2>2, <3>3 DEF Without
  <2> QED
    BY <2>1, <2>2
<1>8. TypeOK'
  <2>1. \A x \in Attrs(class) : want'[x] \in ValueOf(class, x) \cup {None}
    BY <1>1, <1>6
  <2>2. buf' \in Seq(Nat) /\ Len(buf') <= capacity
    BY <1>3, <1>5
  <2>3. given' \in 0 .. MaxUnits
    BY <1>2, <1>3
  <2> QED
    BY <1>1, <1>3, <2>1, <2>2, <2>3 DEF TypeOK
<1>9. Encodes(buf', Contents(class, want'))
  BY <1>3, <1>5, <1>7
<1>10. IInv'
  BY <1>3, <1>6, <1>8, <1>9 DEF IInv
<1>11. ASSUME NEW x \in Attrs(class), want[x] # None, want'[x] = None
       PROVE  given' > Len(Content(class, x, want[x]))
  <2>1. x = a /\ ~set.ok
    BY <1>2, <1>6, <1>11
  <2>2. a \in DOMAIN f /\ f[a] = Content(class, x, want[x])
    BY <1>4, <1>11, <2>1
  <2> QED
    BY <1>3, <1>5, <2>1, <2>2
<1> QED
  BY <1>10, <1>11

LEMMA NextIsSetter ==
    ASSUME class \in Classes, Next
    PROVE  \E a \in Attrs(class) : \E v \in ValueOf(class, a) : Setter(a, v)
<1>1. CASE SetSeqNo
  BY <1>1, Kinds DEF SetSeqNo, Attrs
<1>2. CASE SetLastSeqNo
  BY <1>2, Kinds DEF SetLastSeqNo, Attrs
<1>3. CASE SetTimestamp
  BY <1>3, Kinds DEF SetTimestamp, Attrs
<1>4. CASE SetString
  <2>1. PICK a \in DOMAIN StringsOf[class], s \in String : Setter(a, s)
    BY <1>4 DEF SetString
  <2>2. a \in Attrs(class) /\ ValueOf(class, a) = String
    BY AttrsAreNumbers, Kinds DEF Attrs
  <2> QED
    BY <2>1, <2>2
<1> QED
  BY <1>1, <1>2, <1>3, <1>4 DEF Next

LEMMA Invariant == Spec => []IInv
<1>1. Init => IInv
  BY InitIInv
<1>2. IInv /\ [Next]_vars => IInv'
  <2> SUFFICES ASSUME IInv, [Next]_vars
               PROVE  IInv'
    OBVIOUS
  <2>1. CASE Next
    <3>1. class \in Classes
      BY DEF IInv, TypeOK
    <3> QED
      BY <2>1, <3>1, NextIsSetter, SetterStep
  <2>2. CASE UNCHANGED vars
    BY <2>2 DEF IInv, TypeOK, vars
  <2> QED
    BY <2>1, <2>2
<1> QED
  BY <1>1, <1>2, PTL DEF Spec

(* The buffer never exceeds its capacity, whatever is set in whatever      *)
(* order, and every attribute has a value of its type.                     *)
THEOREM ObjectTypeCorrect == Spec => []TypeOK
<1>1. IInv => TypeOK
  BY DEF IInv
<1> QED
  BY <1>1, Invariant, PTL

(* Every attribute reads back as it was set last, and one whose setter     *)
(* failed is absent: the getters of a subscriber return what the setters   *)
(* of the publisher were given.                                            *)
THEOREM WhatWasSetIsRead == Spec => []ReadsBack
<1>1. IInv => ReadsBack
  <2> SUFFICES ASSUME IInv, NEW a \in Attrs(class)
               PROVE  Get(class, buf, a) = want[a]
    BY DEF ReadsBack
  <2> DEFINE A == { x \in Attrs(class) : want[x] # None }
  <2>1. /\ class \in Classes /\ \A x \in A : want[x] \in ValueOf(class, x)
        /\ Encodes(buf, [x \in A |-> Content(class, x, want[x])])
    BY DEF IInv, TypeOK, Contents
  <2>2. Get(class, buf, a) = IF a \in A THEN want[a] ELSE None
    <3> HIDE DEF A
    <3> QED
      BY <2>1, ReadEncoded
  <2> QED
    BY <2>2
<1> QED
  BY <1>1, Invariant, PTL

(* A setter whose value is no longer than the one before never fails:      *)
(* attr_set() frees the room before it needs it.                           *)
THEOREM ReplacingNeverFails == Spec => ReplaceNeverFails
<1> DEFINE Step == \A a \in Attrs(class) :
                      want[a] # None /\ want'[a] = None
                         => given' > Len(Content(class, a, want[a]))
<1>1. IInv /\ [Next]_vars => [Step]_vars
  <2> SUFFICES ASSUME IInv, Next
               PROVE  Step
    OBVIOUS
  <2>1. class \in Classes
    BY DEF IInv, TypeOK
  <2> QED
    BY <2>1, NextIsSetter, SetterStep
<1> QED
  BY <1>1, Invariant, PTL DEF Spec, ReplaceNeverFails

(* The buffer holds each attribute once and nothing else: no update leaves *)
(* anything behind, so that the object does not grow when it is sent again *)
(* and again.                                                              *)
THEOREM NothingIsLeftBehind == Spec => []NoLeak
<1>1. ASSUME IInv
      PROVE  NoLeak
  <2> DEFINE f == Contents(class, want)
             units == UnitsOf
  <2>1. /\ DOMAIN f = Present
        /\ \A a \in Present : f[a] = Content(class, a, want[a])
    BY DEF Contents, Present
  <2>2. PICK n, p : EncodedBy(buf, f, n, p)
    BY <1>1 DEF IInv, Encodes
  <2> HIDE DEF f
  <2>3. /\ Len(buf) \in Nat /\ n \in Nat /\ p[0] = 1 /\ p[n] = Len(buf) + 1
        /\ \A k \in 0 .. n : p[k] \in 1 .. Len(buf) + 1
        /\ \A j, k \in 0 .. n : j < k => p[j] < p[k]
        /\ \A k \in 0 .. n - 1 : /\ LenOf(buf, p[k]) \in Nat
                                 /\ p[k + 1] = p[k] + LenOf(buf, p[k]) + 2
    BY <2>2, EncodedPlaces
  <2>4. \A k \in 0 .. n : p[k] \in Nat
    BY <2>3
  <2>5. ASSUME NEW k \in 0 .. n - 1
        PROVE  Tag(buf, p[k]) \in Present /\ units[Tag(buf, p[k])] = p[k] .. p[k + 1] - 1
    <3> DEFINE a == Tag(buf, p[k])
    <3>1. a \in Present /\ HoldsAt(buf, p[k], f[a])
      BY <2>1, <2>2 DEF EncodedBy
    <3>2. Find(buf, a) = p[k]
      BY <2>2, FindEncoded
    <3>3. Len(Content(class, a, want[a])) = LenOf(buf, p[k])
      BY <2>1, <3>1 DEF HoldsAt
    <3> HIDE DEF a
    <3>4. units[a] = p[k] .. p[k] + 2 + LenOf(buf, p[k]) - 1
      BY <3>1, <3>2, <3>3 DEF UnitsOf, STD_TLV_HDR_LEN
    <3>5. k \in 0 .. n
      BY <2>3
    <3>6. PICK P \in Nat, l \in Nat : P = p[k] /\ l = LenOf(buf, p[k])
      BY <2>3, <2>4, <3>5
    <3>7. P + 2 + l - 1 = (P + l + 2) - 1
      OBVIOUS
    <3>8. p[k + 1] = P + l + 2
      BY <2>3, <3>6
    <3> QED
      BY <3>1, <3>4, <3>6, <3>7, <3>8 DEF a
  <2>6. \A a \in Present : \E k \in 0 .. n - 1 : Tag(buf, p[k]) = a
    BY <2>1, <2>2 DEF EncodedBy
  <2> HIDE DEF units
  <2>7. ASSUME NEW a \in Present, NEW x \in units[a]
        PROVE  x \in 1 .. Len(buf)
    <3>1. PICK k \in 0 .. n - 1 : Tag(buf, p[k]) = a
      BY <2>6
    <3>2. x \in p[k] .. p[k + 1] - 1
      BY <2>5, <3>1
    <3>3. k \in 0 .. n /\ k + 1 \in 0 .. n
      BY <2>3
    <3>4. p[k] \in 1 .. Len(buf) + 1 /\ p[k + 1] \in 1 .. Len(buf) + 1
      BY <2>3, <3>3
    <3>5. PICK L \in Nat : L = Len(buf)
      BY <2>3
    <3>6. PICK P \in 1 .. L + 1, R \in 1 .. L + 1 : P = p[k] /\ R = p[k + 1]
      BY <3>4, <3>5
    <3> QED
      BY <3>2, <3>5, <3>6
  <2>8. ASSUME NEW x \in 1 .. Len(buf)
        PROVE  \E a \in Present : x \in units[a]
    <3> DEFINE Above == { k \in 0 .. n : p[k] > x }
    <3>1. Above \in SUBSET Nat /\ Above # {}
      <4>1. n \in 0 .. n /\ p[n] > x
        <5>1. PICK e \in Nat : e = Len(buf)
          BY <2>3
        <5>2. e + 1 > x /\ p[n] = e + 1
          BY <2>3, <5>1
        <5> QED
          BY <2>3, <5>2
      <4>2. n \in Above
        BY <4>1
      <4>3. Above \subseteq Nat
        BY <2>3
      <4> HIDE DEF Above
      <4> QED
        BY <4>2, <4>3
    <3>2. PICK m \in Above : \A k \in Above : m <= k
      <4> HIDE DEF Above
      <4> QED
        BY <3>1, SmallestNat
    <3>3. m \in 0 .. n /\ p[m] > x /\ m # 0
      BY <2>3, <3>2
    <3>4. m - 1 \in 0 .. n - 1 /\ m - 1 \in 0 .. n /\ (m - 1) + 1 = m
      BY <2>3, <3>3
    <3>5. p[m - 1] <= x
      <4>1. m - 1 \notin Above
        <5> HIDE DEF Above
        <5> QED
          BY <3>2, <3>4
      <4> QED
        BY <2>3, <2>4, <3>4, <4>1
    <3>6. x \in p[m - 1] .. p[m] - 1
      <4>1. PICK P \in Nat, R \in Nat : P = p[m - 1] /\ R = p[m]
        BY <2>4, <3>3, <3>4
      <4>2. P <= x /\ R > x /\ x \in Nat
        BY <2>3, <3>3, <3>5, <4>1
      <4>3. x \in P .. R - 1
        BY <4>2
      <4> QED
        BY <4>1, <4>3
    <3> QED
      BY <2>5, <3>4, <3>6
  <2>9. ASSUME NEW a \in Present, NEW b \in Present, a # b, NEW x \in units[a],
               x \in units[b]
        PROVE  FALSE
    <3>1. PICK j \in 0 .. n - 1 : Tag(buf, p[j]) = a
      BY <2>6
    <3>2. PICK k \in 0 .. n - 1 : Tag(buf, p[k]) = b
      BY <2>6
    <3>3. x \in p[j] .. p[j + 1] - 1 /\ x \in p[k] .. p[k + 1] - 1
      BY <2>5, <2>9, <3>1, <3>2
    <3>4. \A i, m \in 0 .. n : i <= m => p[i] <= p[m]
      <4> SUFFICES ASSUME NEW i \in 0 .. n, NEW m \in 0 .. n, i <= m
                   PROVE  p[i] <= p[m]
        OBVIOUS
      <4>1. PICK y \in Nat, z \in Nat : y = p[i] /\ z = p[m]
        BY <2>4
      <4>2. i = m \/ i < m
        OBVIOUS
      <4>3. y = z \/ y < z
        <5>1. i < m => p[i] < p[m]
          BY <2>3
        <5> QED
          BY <4>1, <4>2, <5>1
      <4> QED
        BY <4>1, <4>3
    <3>5. /\ j \in 0 .. n /\ j + 1 \in 0 .. n /\ k \in 0 .. n /\ k + 1 \in 0 .. n
          /\ j + 1 <= k \/ k + 1 <= j
      <4>1. j # k
        BY <2>9, <3>1, <3>2
      <4> QED
        BY <2>3, <4>1
    <3>6. p[j + 1] <= p[k] \/ p[k + 1] <= p[j]
      BY <3>4, <3>5
    <3>7. PICK A \in Nat, B \in Nat, C \in Nat, D \in Nat :
            A = p[j] /\ B = p[j + 1] /\ C = p[k] /\ D = p[k + 1]
      BY <2>4, <3>5
    <3>8. x \in A .. B - 1 /\ x \in C .. D - 1 /\ (B <= C \/ D <= A)
      BY <3>3, <3>6, <3>7
    <3> QED
      BY <3>8
  <2>10. UNION { units[a] : a \in Present } = 1 .. Len(buf)
    BY <2>7, <2>8
  <2>11. \A a, b \in Present : a # b => units[a] \cap units[b] = {}
    BY <2>9
  <2> QED
    BY <2>10, <2>11 DEF NoLeak, units
<1> QED
  BY <1>1, Invariant, PTL

(* Walking the object visits every attribute that it has, once, and then   *)
(* stops; advancing until it_next() returns false visits the same.         *)
THEOREM IteratorVisitsAll == Spec => []EveryAttributeVisited
<1>1. ASSUME IInv
      PROVE  EveryAttributeVisited
  <2> DEFINE f    == Contents(class, want)
             seen == Walk(buf, ItBegin(buf))
  <2>1. DOMAIN f = Present
    BY DEF Contents, Present
  <2>2. PICK n, p : EncodedBy(buf, f, n, p)
    BY <1>1 DEF IInv, Encodes
  <2> HIDE DEF f
  <2>3. Len(buf) \in Nat /\ n \in Nat
    BY <2>2, EncodedPlaces
  <2>4. PICK e : e = Len(buf) + 1
    OBVIOUS
  <2>5. ItBegin(buf) = At(1, e - 1)
    BY <2>3, <2>4 DEF ItBegin
  <2>6. Laid(buf, 1, e, n, p)
    BY <2>2, <2>4 DEF EncodedBy
  <2>7. seen = [k \in 1 .. n |-> Tag(buf, p[k - 1])]
    BY <2>5, <2>6, WalkLaid
  <2>8. n # 0 => WalkUntilLast(buf, ItBegin(buf)) = seen
    BY <2>5, <2>6, <2>7, WalkUntilLastLaid
  <2> HIDE DEF seen
  <2>9. Len(seen) = n
    BY <2>3, <2>7
  <2>10. /\ \A k \in 0 .. n - 1 : Tag(buf, p[k]) \in Present
         /\ \A j, k \in 0 .. n - 1 : Tag(buf, p[j]) = Tag(buf, p[k]) => j = k
         /\ \A a \in Present : \E k \in 0 .. n - 1 : Tag(buf, p[k]) = a
    BY <2>1, <2>2 DEF EncodedBy
  <2>11. \A i \in 1 .. n : i - 1 \in 0 .. n - 1 /\ seen[i] = Tag(buf, p[i - 1])
    BY <2>3, <2>7
  <2>12. { seen[i] : i \in 1 .. Len(seen) } = Present
    <3>1. \A i \in 1 .. n : seen[i] \in Present
      BY <2>10, <2>11
    <3>2. ASSUME NEW a \in Present
          PROVE  \E i \in 1 .. n : seen[i] = a
      <4>1. PICK k \in 0 .. n - 1 : Tag(buf, p[k]) = a
        BY <2>10
      <4>2. k + 1 \in 1 .. n /\ (k + 1) - 1 = k
        BY <2>3
      <4> QED
        BY <2>11, <4>1, <4>2
    <3> QED
      BY <2>9, <3>1, <3>2
  <2>13. \A i, j \in 1 .. Len(seen) : i # j => seen[i] # seen[j]
    <3> SUFFICES ASSUME NEW i \in 1 .. n, NEW j \in 1 .. n, seen[i] = seen[j]
                 PROVE  i = j
      BY <2>9
    <3>1. i - 1 = j - 1
      BY <2>10, <2>11
    <3> QED
      BY <3>1
  <2>14. Present # {} => n # 0
    BY <2>3, <2>10
  <2> QED
    BY <2>8, <2>12, <2>13, <2>14 DEF EveryAttributeVisited, seen
<1> QED
  BY <1>1, Invariant, PTL

(* An object inside an attribute lies as it lies alone.                    *)
LiesInside(data, P, L, n, r, b, p) ==
    /\ Laid(data, P + 2, P + 2 + L, n, r)
    /\ \A k \in 0 .. n - 1 : Tag(data, r[k]) = Tag(b, p[k])

LEMMA LaidInside ==
    ASSUME NEW b, NEW f, NEW n, NEW p, EncodedBy(b, f, n, p),
           NEW data, NEW P \in Nat \ {0}, HoldsAt(data, P, b),
           NEW L \in Nat, L = Len(b), NEW r, r = [k \in 0 .. n |-> p[k] + (P + 1)]
    PROVE  LiesInside(data, P, L, n, r, b, p)
<1>1. /\ n \in Nat /\ p[0] = 1 /\ p[n] = L + 1
      /\ \A k \in 0 .. n : p[k] \in 1 .. L + 1
      /\ \A k \in 0 .. n - 1 : /\ LenOf(b, p[k]) \in Nat
                               /\ p[k + 1] = p[k] + LenOf(b, p[k]) + 2
                               /\ p[k + 1] <= L + 1
  BY EncodedPlaces
<1>2. \A i \in 1 .. L : data[P + 1 + i] = b[i]
  BY DEF HoldsAt
<1>3. \A k \in 0 .. n : p[k] \in Nat \ {0} /\ r[k] = p[k] + (P + 1) /\ r[k] \in Nat
  <2>1. \A k \in 0 .. n : p[k] \in Nat \ {0}
    BY <1>1
  <2>2. \A x \in Nat \ {0} : x + (P + 1) \in Nat
    OBVIOUS
  <2> QED
    BY <2>1, <2>2
<1>4. ASSUME NEW k \in 0 .. n - 1
      PROVE  /\ Tag(data, r[k]) = Tag(b, p[k]) /\ LenOf(data, r[k]) = LenOf(b, p[k])
             /\ r[k + 1] = r[k] + LenOf(data, r[k]) + 2
  <2>1. k \in 0 .. n /\ k + 1 \in 0 .. n
    BY <1>1
  <2>2. PICK x \in Nat \ {0}, y \in Nat, l \in Nat :
          x = p[k] /\ y = p[k + 1] /\ l = LenOf(b, x)
    BY <1>1, <1>3, <2>1
  <2>3. y = x + l + 2 /\ y <= L + 1 /\ r[k] = x + (P + 1) /\ r[k + 1] = y + (P + 1)
    BY <1>1, <1>3, <2>1, <2>2
  <2>4. \A i \in 0 .. l + 1 : x + i \in 1 .. L /\ P + 1 + (x + i) = x + (P + 1) + i
    BY <2>3
  <2>5. PICK q \in Nat : q = x + (P + 1)
    OBVIOUS
  <2>6. \A i \in 0 .. LenOf(b, x) + 1 : data[q + i] = b[x + i]
    BY <1>2, <2>2, <2>4, <2>5
  <2>7. Tag(data, q) = Tag(b, x) /\ LenOf(data, q) = LenOf(b, x)
    <3>1. 0 \in 0 .. LenOf(b, x) + 1 /\ 1 \in 0 .. LenOf(b, x) + 1
      BY <2>2
    <3>2. data[q + 0] = b[x + 0] /\ data[q + 1] = b[x + 1]
      BY <2>6, <3>1
    <3> QED
      BY <3>2 DEF Tag, LenOf, TagAt, LenAt, STD_TLV_TAG_POS, STD_TLV_LEN_POS
  <2>8. y + (P + 1) = x + (P + 1) + l + 2
    BY <2>3
  <2> QED
    BY <2>2, <2>3, <2>5, <2>7, <2>8
<1>5. r[0] = P + 2 /\ r[n] = P + 2 + L
  <2>1. 0 \in 0 .. n /\ n \in 0 .. n
    BY <1>1
  <2>2. r[0] = 1 + (P + 1) /\ r[n] = (L + 1) + (P + 1)
    BY <1>1, <1>3, <2>1
  <2>3. 1 + (P + 1) = P + 2 /\ (L + 1) + (P + 1) = P + 2 + L
    OBVIOUS
  <2> QED
    BY <2>2, <2>3
<1>6. r \in [0 .. n -> Nat]
  BY <1>3
<1>7. P + 2 \in Nat \ {0} /\ P + 2 + L \in Nat
  OBVIOUS
<1>8. \A k \in 0 .. n - 1 : LenOf(data, r[k]) \in Nat
  BY <1>1, <1>4
<1> QED
  BY <1>1, <1>4, <1>5, <1>6, <1>7, <1>8 DEF Laid, LiesInside

(* std_tlv_efind() of two tags: find the first, and the second inside it.  *)
LEMMA EFindTwo ==
    ASSUME NEW data, NEW it, NEW s, NEW t, FindNext(data, it, s).attr # NULL
    PROVE  EFind(data, it, <<s, t>>).attr
              = FindNext(data, Inside(data, FindNext(data, it, s).attr), t).attr
<1> DEFINE tags == <<s, t>>
           step(i, before) ==
               LET found == FindNext(data, IF i = 1 THEN it ELSE before, tags[i])
               IN  IF found.attr = NULL THEN Nowhere
                   ELSE IF i = Len(tags) THEN found
                   ELSE Inside(data, found.attr)
           one == Inside(data, FindNext(data, it, s).attr)
           two == step(2, one)
           w   == [i \in 1 .. Len(tags) |-> IF i = 1 THEN one ELSE two]
           into == CHOOSE g : g = [i \in 1 .. Len(tags) |-> step(i, g[i - 1])]
<1>1. Len(tags) = 2 /\ tags[1] = s /\ tags[2] = t
  OBVIOUS
<1>2. \A before : step(1, before) = one
  BY <1>1
<1>3. w = [i \in 1 .. Len(tags) |-> step(i, w[i - 1])]
  <2>1. w[1] = one /\ w[2] = two
    BY <1>1
  <2> HIDE DEF one, two
  <2>2. \A i \in 1 .. Len(tags) : i = 1 \/ (i = 2 /\ i - 1 = 1)
    BY <1>1
  <2>3. \A i \in 1 .. Len(tags) : w[i] = step(i, w[i - 1])
    <3> HIDE DEF w, step
    <3>1. two = step(2, one)
      BY DEF two
    <3> QED
      BY <1>2, <2>1, <2>2, <3>1
  <2> HIDE DEF step
  <2> QED
    BY <2>3
<1>4. into = [i \in 1 .. Len(tags) |-> step(i, into[i - 1])]
  <2> HIDE DEF w, step
  <2> QED
    BY <1>3
<1>5. EFind(data, it, tags) = into[Len(tags)]
  BY DEF EFind
<1>6. into[1] = one /\ into[2] = step(2, into[1])
  <2>1. 1 \in 1 .. Len(tags) /\ 2 \in 1 .. Len(tags) /\ 2 - 1 = 1
    BY <1>1
  <2> HIDE DEF into, step, one
  <2> QED
    BY <1>2, <1>4, <2>1
<1> HIDE DEF into
<1>7. step(2, one).attr = FindNext(data, one, t).attr
  <2> HIDE DEF one
  <2>1. step(2, one) = IF FindNext(data, one, t).attr = NULL THEN Nowhere
                       ELSE FindNext(data, one, t)
    BY <1>1
  <2> QED
    BY <2>1 DEF Nowhere, At
<1> HIDE DEF step, one
<1> QED
  BY <1>1, <1>5, <1>6, <1>7 DEF one

(* An attribute that holds an encoded object, with another behind it.      *)
LEMMA Outer ==
    ASSUME NEW b, NEW f, Encodes(b, f), NEW a \in Nat, a # CONTAINER,
           NEW outer, outer = Encode(CONTAINER, b) \o Encode(a, << 0 >>)
    PROVE  /\ HoldsAt(outer, 1, b) /\ FindNext(outer, ItBegin(outer), CONTAINER).attr = 1
           /\ ItBegin(outer).attr = 1
<1> DEFINE d == <<>> \o Encode(CONTAINER, b)
           none == [x \in {} |-> x]
           g == With(none, CONTAINER, b)
           h == With(g, a, << 0 >>)
<1>1. b \in Seq(Nat) /\ CONTAINER \in Nat /\ << 0 >> \in Seq(Nat) /\ CONTAINER = 1
  BY DEF Encodes, EncodedBy, CONTAINER
<1>2. Encodes(<<>>, none) /\ CONTAINER \notin DOMAIN none
  BY EmptyEncodes
<1>3. Encodes(d, g)
  <2> HIDE DEF none
  <2> QED
    BY <1>1, <1>2, AddEncoded
<1>4. DOMAIN g = {CONTAINER} /\ g[CONTAINER] = b
  BY DEF With
<1>5. Encode(CONTAINER, b) \in Seq(Nat) /\ d = Encode(CONTAINER, b)
  <2>1. Header(CONTAINER, b) \in Seq(Nat)
    <3>1. Len(b) \in Nat
      BY <1>1
    <3> QED
      BY <1>1, <3>1 DEF Header
  <2>2. Encode(CONTAINER, b) \in Seq(Nat)
    BY <1>1, <2>1, ConcatProperties DEF Encode
  <2> QED
    BY <2>2, ConcatEmptySeq
<1> HIDE DEF d, g
<1>6. Encodes(outer, h)
  <2>1. a \notin DOMAIN g
    BY <1>4
  <2> QED
    BY <1>1, <1>3, <1>5, <2>1, AddEncoded
<1>7. CONTAINER \in DOMAIN h /\ h[CONTAINER] = b
  BY <1>4 DEF With
<1> HIDE DEF h
<1>8. PICK n, p : EncodedBy(outer, h, n, p)
  BY <1>6 DEF Encodes
<1>9. Tag(outer, 1) = CONTAINER
  <2>1. PICK L \in Nat, l \in Nat : L = Len(d) /\ l = Len(<< 0 >>)
    BY <1>1, <1>5
  <2>2. IsExtended(outer, d, L, a, << 0 >>, l)
    BY <1>1, <1>5, <2>1, EncodePlaces
  <2>3. PICK k \in Nat : k = Len(b)
    BY <1>1
  <2>4. IsExtended(d, <<>>, 0, CONTAINER, b, k)
    <3>1. <<>> \in Seq(Nat) /\ 0 = Len(<<>>) /\ 0 \in Nat
      OBVIOUS
    <3> QED
      BY <1>1, <2>3, <3>1, EncodePlaces DEF d
  <2>5. L = k + 2 /\ d[1] = CONTAINER
    BY <2>1, <2>4 DEF IsExtended
  <2>6. 1 \in 1 .. L
    BY <2>5
  <2>7. outer[1] = CONTAINER
    BY <2>2, <2>5, <2>6 DEF IsExtended
  <2>8. 1 + 0 = 1
    OBVIOUS
  <2> QED
    BY <2>7, <2>8, Zenon DEF Tag, TagAt, STD_TLV_TAG_POS
<1>10. p[0] = 1 /\ n \in Nat /\ n # 0
  <2>1. p[0] = 1 /\ n \in Nat
    BY <1>8, EncodedPlaces
  <2>2. PICK k \in 0 .. n - 1 : Tag(outer, p[k]) = CONTAINER
    BY <1>7, <1>8 DEF EncodedBy
  <2> QED
    BY <2>1, <2>2
<1>11. 0 \in 0 .. n - 1
  BY <1>10
<1>12. HoldsAt(outer, 1, b)
  BY <1>7, <1>8, <1>9, <1>10, <1>11 DEF EncodedBy
<1>13. Find(outer, CONTAINER) = 1
  BY <1>8, <1>9, <1>10, <1>11, FindEncoded
<1> QED
  BY <1>12, <1>13 DEF Find, ItFind, ItBegin, At

(* A search or a walk in an object that is embedded in another finds what  *)
(* it would find in the object alone, and does not leave it, although an   *)
(* attribute of the same tag lies behind it.                               *)
THEOREM EmbeddedIsSeparate == Spec => []EmbeddedStaysInside
<1>1. ASSUME IInv
      PROVE  EmbeddedStaysInside
  <2> DEFINE f == Contents(class, want)
  <2>1. class \in Classes /\ Encodes(buf, f)
    BY <1>1 DEF IInv, TypeOK
  <2> HIDE DEF f
  <2>2. PICK n, p : EncodedBy(buf, f, n, p)
    BY <2>1 DEF Encodes
  <2>3. PICK L \in Nat : L = Len(buf)
    BY <2>2, EncodedPlaces
  <2>4. SUFFICES ASSUME NEW a \in Attrs(class), NEW outer,
                        outer = Encode(CONTAINER, buf) \o Encode(a, << 0 >>)
                 PROVE  LET inside == ItInside(outer, ItBegin(outer))
                            alone  == Find(buf, a)
                            place  == IF alone = NULL THEN NULL ELSE DataAt(alone)
                        IN  /\ EFind(outer, ItBegin(outer), <<CONTAINER, a>>).attr = place
                            /\ ItFind(outer, inside, a) = place
                            /\ Walk(outer, inside) = Walk(buf, ItBegin(buf))
    BY Zenon DEF EmbeddedStaysInside
  <2> DEFINE inside == ItInside(outer, ItBegin(outer))
             place  == IF Find(buf, a) = NULL THEN NULL ELSE DataAt(Find(buf, a))
  <2>5. a \in Nat /\ a # CONTAINER
    BY <2>1, AttrsAreNumbers DEF CONTAINER
  <2>6. /\ HoldsAt(outer, 1, buf) /\ ItBegin(outer).attr = 1
        /\ FindNext(outer, ItBegin(outer), CONTAINER).attr = 1
    BY <2>1, <2>4, <2>5, Outer
  <2>7. PICK s \in Nat, e \in Nat : s = 3 /\ e = 3 + L
    OBVIOUS
  <2>8. PICK r : r = [k \in 0 .. n |-> p[k] + 2]
    OBVIOUS
  <2>9. /\ Laid(outer, s, e, n, r)
        /\ \A k \in 0 .. n - 1 : Tag(outer, r[k]) = Tag(buf, p[k])
    <3>1. PICK P \in Nat \ {0} : P = 1
      OBVIOUS
    <3>2. HoldsAt(outer, P, buf) /\ P + 1 = 2
      BY <2>6, <3>1
    <3>3. r = [k \in 0 .. n |-> p[k] + (P + 1)]
      BY <2>8, <3>2, Zenon
    <3>4. LiesInside(outer, P, L, n, r, buf, p)
      BY <2>2, <2>3, <3>2, <3>3, LaidInside
    <3>5. P + 2 = s /\ P + 2 + L = e
      BY <2>7, <3>1
    <3> QED
      BY <3>4, <3>5, Zenon DEF LiesInside
  <2>10. inside = At(s, e - s) /\ Inside(outer, 1) = inside
    <3>1. LenOf(outer, 1) = L
      BY <2>3, <2>6 DEF HoldsAt
    <3>2. DataAt(1) = s /\ e - s = L
      BY <2>7 DEF DataAt, STD_TLV_DATA_POS, STD_TLV_HDR_LEN
    <3> QED
      BY <2>6, <3>1, <3>2 DEF ItInside, Inside
  <2>11. n \in Nat /\ \A k \in 0 .. n : p[k] \in Nat \ {0}
    <3>1. n \in Nat /\ \A k \in 0 .. n : p[k] \in 1 .. L + 1
      BY <2>2, <2>3, EncodedPlaces
    <3> QED
      BY <3>1
  <2> HIDE DEF inside
  <2>12. ItFind(outer, inside, a) = place
    <3>1. CASE a \in DOMAIN f
      <4>1. PICK k \in 0 .. n - 1 : Tag(buf, p[k]) = a
        BY <2>2, <3>1 DEF EncodedBy
      <4>2. \A j \in 0 .. k - 1 : j \in 0 .. n - 1 /\ j # k
        BY <2>11
      <4>3. \A j \in 0 .. k - 1 : Tag(buf, p[j]) # a
        BY <2>2, <4>1, <4>2 DEF EncodedBy
      <4>4. Tag(outer, r[k]) = a /\ \A j \in 0 .. k - 1 : Tag(outer, r[j]) # a
        BY <2>9, <4>1, <4>2, <4>3
      <4>5. FindNext(outer, inside, a).attr = r[k]
        <5>1. FindNext(outer, inside, a) = At(r[k], e - r[k])
          BY <2>9, <2>10, <4>1, <4>4, FindLaid
        <5> QED
          BY <5>1 DEF At
      <4>6. k \in 0 .. n /\ r[k] = p[k] + 2 /\ p[k] \in Nat \ {0}
        BY <2>11, <2>8
      <4>7. Find(buf, a) = p[k]
        BY <2>2, <4>1, FindEncoded
      <4>8. place = p[k] + 2
        BY <4>6, <4>7 DEF NULL, DataAt, STD_TLV_DATA_POS, STD_TLV_HDR_LEN
      <4> HIDE DEF place
      <4> QED
        BY <4>5, <4>6, <4>8 DEF ItFind
    <3>2. CASE a \notin DOMAIN f
      <4>1. \A k \in 0 .. n - 1 : Tag(outer, r[k]) # a
        <5>1. \A k \in 0 .. n - 1 : Tag(buf, p[k]) # a
          BY <2>2, <3>2 DEF EncodedBy
        <5> QED
          BY <2>9, <5>1
      <4>2. FindNext(outer, inside, a).attr = NULL
        BY <2>9, <2>10, <4>1, FindNothing
      <4>3. Find(buf, a) = NULL
        BY <2>2, <3>2, FindEncoded
      <4> QED
        BY <4>2, <4>3 DEF ItFind
    <3> QED
      BY <3>1, <3>2
  <2>13. EFind(outer, ItBegin(outer), <<CONTAINER, a>>).attr = FindNext(outer, inside, a).attr
    <3>1. 1 # NULL
      BY DEF NULL
    <3> QED
      BY <2>6, <2>10, <3>1, EFindTwo
  <2>14. Walk(outer, inside) = Walk(buf, ItBegin(buf))
    <3>1. Walk(outer, inside) = [k \in 1 .. n |-> Tag(outer, r[k - 1])]
      BY <2>9, <2>10, WalkLaid
    <3>2. Walk(buf, ItBegin(buf)) = [k \in 1 .. n |-> Tag(buf, p[k - 1])]
      <4>1. PICK m \in Nat, z \in Nat : m = 1 /\ z = L + 1
        OBVIOUS
      <4>2. Laid(buf, m, z, n, p)
        BY <2>2, <2>3, <4>1, Zenon DEF EncodedBy
      <4>3. ItBegin(buf) = At(m, z - m)
        <5>1. z - m = L
          BY <4>1
        <5> QED
          BY <2>3, <4>1, <5>1 DEF ItBegin
      <4> QED
        BY <4>2, <4>3, WalkLaid
    <3>3. \A k \in 1 .. n : Tag(outer, r[k - 1]) = Tag(buf, p[k - 1])
      <4>1. \A k \in 1 .. n : k - 1 \in 0 .. n - 1
        BY <2>11
      <4> QED
        BY <2>9, <4>1
    <3> QED
      BY <3>1, <3>2, <3>3
  <2> QED
    BY <2>12, <2>13, <2>14 DEF ItFind, inside
<1> QED
  BY <1>1, Invariant, PTL

-----------------------------------------------------------------------------
(* The message.                                                            *)

(* A stored word is a sequence of four numbers.                            *)
LEMMA StoredIsSequence ==
    ASSUME NEW c \in Stored
    PROVE  c \in Seq(Nat) /\ Len(c) = 4 /\ \A j \in 1 .. 4 : c[j] \in Nat
<1>1. PICK n \in Nat : n = 4
  OBVIOUS
<1>2. \A x \in Byte : x \in Nat
  BY DEF Byte
<1>3. c \in [1 .. n -> Nat]
  BY <1>1, <1>2 DEF Stored
<1>4. c \in Seq(Nat) /\ Len(c) = n
  BY <1>3
<1> QED
  BY <1>1, <1>3, <1>4

(* The bytes of a key on the wire: of each word that counts, all four.     *)
LEMMA WireBytes ==
    ASSUME NEW key \in cps_api_key_t, GetLen(key) \in 0 .. CPS_OBJ_MAX_KEY_LEN,
           NEW B, B = 8 + 4 * GetLen(key)
    PROVE  /\ B \in 8 .. 256
           /\ Wire(key) \in Seq(Nat) /\ Len(Wire(key)) = B
           /\ \A i \in 0 .. 63, j \in 1 .. 4 :
                 4 * i < B => 4 * i + j \in 1 .. B /\ Wire(key)[4 * i + j] = key[i][j]
<1>1. PICK n \in 0 .. 62 : n = GetLen(key)
  BY Sizes
<1>2. B = 8 + 4 * n /\ B \in 8 .. 256
  BY <1>1
<1>3. CPS_OBJ_KEY_HEADER_SIZE + GetLenInBytes(key) = B
  <2>1. RawGet(key, CPS_OBJ_KEY_LEN_POS) = n /\ n * 4 = 4 * n
    BY <1>1 DEF GetLen
  <2> QED
    BY <1>2, <2>1, Sizes DEF GetLenInBytes, CPS_OBJ_KEY_ELEM_SIZE
<1>4. Wire(key) = [i \in 1 .. B |-> ByteAt(key, i - 1)]
  BY <1>3 DEF Wire
<1>5. ASSUME NEW i \in 0 .. 63, NEW j \in 1 .. 4
      PROVE  key[i][j] \in Nat /\ ByteAt(key, (4 * i + j) - 1) = key[i][j]
  <2>1. ((4 * i + j) - 1) \div 4 = i /\ (((4 * i + j) - 1) % 4) + 1 = j
    OBVIOUS
  <2>2. key[i] \in Stored
    BY Sizes DEF cps_api_key_t
  <2> QED
    BY <2>1, <2>2 DEF ByteAt, CPS_OBJ_KEY_ELEM_SIZE, Stored, Byte
<1>6. ASSUME NEW i \in 0 .. 63, NEW j \in 1 .. 4, 4 * i < B
      PROVE  4 * i + j \in 1 .. B
  <2>1. i < 2 + n
    BY <1>2, <1>6
  <2> QED
    BY <1>2, <2>1
<1>7. \A x \in 1 .. B : ByteAt(key, x - 1) \in Nat
  <2> SUFFICES ASSUME NEW x \in 1 .. B
               PROVE  ByteAt(key, x - 1) \in Nat
    OBVIOUS
  <2>1. PICK i \in 0 .. 63, j \in 1 .. 4 : 4 * i + j = x
    <3>1. (x - 1) \div 4 \in 0 .. 63 /\ ((x - 1) % 4) + 1 \in 1 .. 4
          /\ 4 * ((x - 1) \div 4) + (((x - 1) % 4) + 1) = x
      BY <1>2
    <3> QED
      BY <3>1
  <2> QED
    BY <1>5, <2>1
<1>8. Wire(key) \in Seq(Nat) /\ Len(Wire(key)) = B
  <2>1. Wire(key) \in [1 .. B -> Nat] /\ B \in Nat
    BY <1>2, <1>4, <1>7
  <2> QED
    BY <2>1
<1> QED
  BY <1>2, <1>4, <1>5, <1>6, <1>8

(* What cps_api_array_to_object() makes of a message: a copy of the        *)
(* sender's key, of which nothing that stood in memory behind it is seen,  *)
(* and the attributes, unit by unit.                                       *)
THEOREM KeySurvivesWire ==
    ASSUME NEW key \in cps_api_key_t, GetLen(key) \in 0 .. CPS_OBJ_MAX_KEY_LEN,
           NEW b \in Seq(Nat)
    PROVE  FromWire(Wire(key) \o b) = [key |-> Copy(Unset, key), rest |-> b]
<1>1. PICK n \in 0 .. 62, B \in 8 .. 256 : n = GetLen(key) /\ B = 8 + 4 * n
  BY Sizes
<1>2. PICK w : w = Wire(key)
  OBVIOUS
<1>3. /\ w \in Seq(Nat) /\ Len(w) = B
      /\ \A i \in 0 .. 63, j \in 1 .. 4 :
            4 * i < B => 4 * i + j \in 1 .. B /\ w[4 * i + j] = key[i][j]
  BY <1>1, <1>2, WireBytes
<1>4. PICK m : m = w \o b
  OBVIOUS
<1>5. PICK l \in Nat : l = Len(b)
  OBVIOUS
<1>6. /\ m \in Seq(Nat) /\ Len(m) = B + l
      /\ \A i \in 1 .. B + l : m[i] = IF i <= B THEN w[i] ELSE b[i - B]
  <2>1. /\ m \in Seq(Nat) /\ Len(m) = Len(w) + Len(b)
        /\ \A i \in 1 .. Len(w) + Len(b) : m[i] = IF i <= Len(w) THEN w[i] ELSE b[i - Len(w)]
    BY <1>3, <1>4, ConcatProperties
  <2>2. Len(w) = B
    BY <1>3
  <2> QED
    BY <1>5, <2>1, <2>2, Zenon
<1>7. ASSUME NEW i \in 0 .. 63, 4 * i < B
      PROVE  SubSeq(m, 4 * i + 1, 4 * i + 4) = key[i]
  <2>1. key[i] \in Stored
    <3>1. i \in 0 .. KeyWords - 1
      BY Sizes
    <3> QED
      BY <3>1 DEF cps_api_key_t
  <2>2. key[i] \in Seq(Nat) /\ Len(key[i]) = 4 /\ \A j \in 1 .. 4 : key[i][j] \in Nat
    BY <2>1, StoredIsSequence
  <2>3. \A j \in 1 .. 4 : m[4 * i + j] = key[i][j]
    <3>1. \A j \in 1 .. 4 : 4 * i + j \in 1 .. B /\ w[4 * i + j] = key[i][j]
      BY <1>3, <1>7
    <3>2. \A x \in 1 .. B : x \in 1 .. B + l /\ m[x] = w[x]
      <4>1. \A x \in 1 .. B : x \in 1 .. B + l /\ x <= B
        OBVIOUS
      <4> QED
        BY <1>6, <4>1
    <3> QED
      BY <3>1, <3>2
  <2>4. PICK s \in Int, e \in Int : s = 4 * i + 1 /\ e = 4 * i + 4
    OBVIOUS
  <2>5. /\ e - s + 1 = 4 /\ s <= e
        /\ \A j \in 1 .. 4 : s + j - 1 = 4 * i + j
        /\ \A x \in s .. e : x - 4 * i \in 1 .. 4 /\ 4 * i + (x - 4 * i) = x
    BY <2>4
  <2>6. \A x \in s .. e : m[x] \in Nat
    <3>1. \A x \in s .. e : m[x] = key[i][x - 4 * i]
      BY <2>3, <2>5
    <3> QED
      BY <2>2, <2>5, <3>1
  <2>7. /\ SubSeq(m, s, e) \in Seq(Nat) /\ Len(SubSeq(m, s, e)) = 4
        /\ \A j \in 1 .. 4 : SubSeq(m, s, e)[j] = m[s + j - 1]
    <3>1. /\ SubSeq(m, s, e) \in Seq(Nat)
          /\ Len(SubSeq(m, s, e)) = IF s <= e THEN e - s + 1 ELSE 0
          /\ \A j \in 1 .. e - s + 1 : SubSeq(m, s, e)[j] = m[s + j - 1]
      BY <2>6, SubSeqProperties
    <3> QED
      BY <2>5, <3>1
  <2>8. \A j \in 1 .. 4 : SubSeq(m, s, e)[j] = key[i][j]
    BY <2>3, <2>5, <2>7
  <2>9. SubSeq(m, s, e) = key[i]
    BY <2>2, <2>7, <2>8, SeqEqual
  <2> QED
    BY <2>4, <2>9
<1>8. KeyeToHost(SubSeq(m, 1, CPS_OBJ_KEY_ELEM_SIZE)) = n
  <2>1. 0 \in 0 .. 63 /\ 4 * 0 < B /\ 4 * 0 + 1 = 1 /\ 4 * 0 + 4 = 4
    BY <1>1
  <2>2. SubSeq(m, 1, 4) = key[0]
    BY <1>7, <2>1
  <2> QED
    BY <1>1, <2>2 DEF GetLen, RawGet, CPS_OBJ_KEY_LEN_POS, CPS_OBJ_KEY_ELEM_SIZE
<1>9. SubSeq(m, B + 1, Len(m)) = b
  <2>1. PICK s \in Int, e \in Int : s = B + 1 /\ e = Len(m)
    BY <1>6
  <2>2. /\ e = B + l /\ (IF s <= e THEN e - s + 1 ELSE 0) = l /\ e - s + 1 = l
        /\ \A j \in 1 .. l : s + j - 1 = B + j
        /\ \A x \in s .. e : x - B \in 1 .. l /\ x \in 1 .. B + l /\ ~(x <= B)
    <3>1. s = B + 1 /\ e = B + l
      BY <1>6, <2>1
    <3> QED
      BY <3>1
  <2>3. \A x \in s .. e : m[x] = b[x - B]
    BY <1>6, <2>2
  <2>4. \A x \in s .. e : m[x] \in Nat
    BY <1>5, <2>2, <2>3
  <2>5. /\ SubSeq(m, s, e) \in Seq(Nat)
        /\ Len(SubSeq(m, s, e)) = IF s <= e THEN e - s + 1 ELSE 0
        /\ \A j \in 1 .. e - s + 1 : SubSeq(m, s, e)[j] = m[s + j - 1]
    BY <2>4, SubSeqProperties
  <2>6. Len(SubSeq(m, s, e)) = Len(b) /\ \A j \in 1 .. l : SubSeq(m, s, e)[j] = m[B + j]
    BY <1>5, <2>2, <2>5
  <2>7. \A j \in 1 .. l : B + j \in s .. e /\ (B + j) - B = j
    <3>1. s = B + 1 /\ e = B + l
      BY <2>1, <2>2
    <3> QED
      BY <3>1
  <2>8. \A j \in 1 .. l : SubSeq(m, s, e)[j] = b[j]
    BY <2>3, <2>6, <2>7
  <2>9. SubSeq(m, s, e) = b
    BY <1>5, <2>5, <2>6, <2>8, SeqEqual
  <2> QED
    BY <2>1, <2>9
<1>10. /\ CPS_OBJ_KEY_HEADER_SIZE + n * CPS_OBJ_KEY_ELEM_SIZE = B
      /\ GetLenInBytes(key) + CPS_OBJ_KEY_HEADER_SIZE = B
      /\ KeyWords - 1 = 63 /\ CPS_OBJ_KEY_ELEM_SIZE = 4
  <2>1. RawGet(key, CPS_OBJ_KEY_LEN_POS) = n
    BY <1>1 DEF GetLen
  <2>2. 8 + n * 4 = B /\ n * 4 + 8 = B /\ 64 - 1 = 63
    BY <1>1
  <2> QED
    BY <2>1, <2>2, Sizes DEF GetLenInBytes, CPS_OBJ_KEY_ELEM_SIZE
<1>11. FromWire(m) = [ key  |-> [ i \in 0 .. 63 |->
                                    IF i * 4 < B
                                    THEN SubSeq(m, 4 * i + 1, 4 * i + 4) ELSE Unset[i] ],
                       rest |-> b ]
  BY <1>8, <1>9, <1>10 DEF FromWire
<1>12. Copy(Unset, key) = [ i \in 0 .. 63 |-> IF i * 4 < B THEN key[i] ELSE Unset[i] ]
  BY <1>10 DEF Copy
<1>13. \A i \in 0 .. 63 : i * 4 < B => SubSeq(m, 4 * i + 1, 4 * i + 4) = key[i]
  <2>1. \A i \in 0 .. 63 : i * 4 < B => 4 * i < B
    BY <1>1
  <2> QED
    BY <1>7, <2>1
<1>14. [ i \in 0 .. 63 |-> IF i * 4 < B THEN SubSeq(m, 4 * i + 1, 4 * i + 4) ELSE Unset[i] ]
         = Copy(Unset, key)
  BY <1>12, <1>13
<1>15. FromWire(m) = [key |-> Copy(Unset, key), rest |-> b]
  BY <1>11, <1>14, Zenon
<1> QED
  BY <1>2, <1>4, <1>15

(* A copy has the path of the original.                                    *)
LEMMA CopyPath ==
    ASSUME NEW dest \in cps_api_key_t, NEW src \in cps_api_key_t,
           GetLen(src) \in 0 .. CPS_OBJ_MAX_KEY_LEN
    PROVE  ClassPath(Copy(dest, src)) = ClassPath(src)
<1>1. PICK n \in 0 .. 62 : n = GetLen(src)
  BY Sizes
<1>2. GetLenInBytes(src) + CPS_OBJ_KEY_HEADER_SIZE = n * 4 + 8
  BY <1>1, Sizes DEF GetLenInBytes, GetLen, CPS_OBJ_KEY_ELEM_SIZE
<1>3. Copy(dest, src) = [ i \in 0 .. 63 |-> IF i * 4 < n * 4 + 8 THEN src[i] ELSE dest[i] ]
  <2>1. KeyWords - 1 = 63
    BY Sizes
  <2> QED
    BY <1>2, <2>1 DEF Copy, CPS_OBJ_KEY_ELEM_SIZE
<1>4. \A i \in 0 .. n + 1 : i \in 0 .. 63 /\ i * 4 < n * 4 + 8
  OBVIOUS
<1>5. \A i \in 0 .. n + 1 : Copy(dest, src)[i] = src[i]
  BY <1>3, <1>4
<1>6. GetLen(Copy(dest, src)) = n
  <2>1. 0 \in 0 .. n + 1
    OBVIOUS
  <2> QED
    BY <1>1, <1>5, <2>1 DEF GetLen, RawGet, CPS_OBJ_KEY_LEN_POS
<1>7. \A o \in 1 .. n - 1 : ElementAt(Copy(dest, src), o) = ElementAt(src, o)
  <2>1. \A o \in 1 .. n - 1 : CPS_OBJ_KEY_ELEM_START + o \in 0 .. n + 1
    BY DEF CPS_OBJ_KEY_ELEM_START, CPS_OBJ_KEY_ATTR_POS
  <2> QED
    BY <1>5, <2>1 DEF ElementAt, RawGet
<1> QED
  BY <1>1, <1>6, <1>7 DEF ClassPath

LEMMA ClassKeys ==
    ASSUME NEW c \in Classes
    PROVE  /\ KeyOf[c] \in cps_api_key_t /\ GetLen(KeyOf[c]) = 3
           /\ ClassPath(KeyOf[c]) = <<1, OBJ(c)>>
<1>1. Unset \in cps_api_key_t
  BY DEF Unset, cps_api_key_t, Stored, Byte
<1>2. \A w \in 0 .. 255 : w \in Word
  BY DEF Word, Byte
<1>3. OBJ(c) \in Word /\ 1 \in Word /\ cps_api_qualifier_TARGET \in Word
  <2>1. PICK k \in 1 .. 5 : OBJ(c) = 10 * k
    BY ClassIds
  <2> QED
    BY <1>2, <2>1 DEF cps_api_qualifier_TARGET
<1>4. KeyOf[c] = KeyFromAttrWithQual(Unset, <<1, OBJ(c)>>, cps_api_qualifier_TARGET)
  BY DEF KeyOf, ClassKey
<1> QED
  BY <1>1, <1>3, <1>4, KeyFields

(* The table of the subscriber leads to the keys of the publisher.         *)
LEMMA SameKeys ==
    ASSUME NEW c \in Classes
    PROVE  SubscriptionKey[c] = KeyOf[c]
BY DEF SubscriptionKey, KeyOf, Ids

(* No two classes have the same path.                                      *)
LEMMA PathsDiffer ==
    ASSUME NEW c \in Classes, NEW d \in Classes, OBJ(c) = OBJ(d)
    PROVE  c = d
<1>1. /\ c \in {"alarm", "connection", "telemetry", "vlan", "weather"}
      /\ d \in {"alarm", "connection", "telemetry", "vlan", "weather"}
  BY CpsObjectAssumption DEF ClassNo
<1>2. PICK j \in 1 .. 5 : OBJ(c) = 10 * j /\ j = ClassNo[c]
  BY ClassIds
<1>3. PICK k \in 1 .. 5 : OBJ(d) = 10 * k /\ k = ClassNo[d]
  BY ClassIds
<1>4. ClassNo[c] = ClassNo[d]
  <2>1. 10 * j = 10 * k
    BY <1>2, <1>3
  <2>2. j = k
    BY <2>1
  <2> QED
    BY <1>2, <1>3, <2>2
<1>5. /\ ClassNo["alarm"] = 1 /\ ClassNo["connection"] = 2 /\ ClassNo["telemetry"] = 3
      /\ ClassNo["vlan"] = 4 /\ ClassNo["weather"] = 5
  BY DEF ClassNo
<1> QED
  BY <1>1, <1>4, <1>5

(* What process_event() reads out of the message as the two sequence       *)
(* numbers and the time stamp is what send_events() set as those: the key  *)
(* leads to the subscription of the class, whose table has the ids of the  *)
(* publisher.                                                              *)
THEOREM SubscriberReadsWhatWasSet == Spec => []SubscriberReads
<1>1. ASSUME IInv,
             {SEQ_NO(class), LAST_SEQ_NO(class), TIMESTAMP_NS(class)} \subseteq Present
      PROVE  EventRead(Array(class, buf)) =
                 [ seq_no      |-> want[SEQ_NO(class)],
                   last_seq_no |-> want[LAST_SEQ_NO(class)],
                   timestamp   |-> want[TIMESTAMP_NS(class)] ]
  <2> DEFINE A == { x \in Attrs(class) : want[x] # None }
             message == Array(class, buf)
  <2>1. /\ class \in Classes /\ buf \in Seq(Nat)
        /\ \A x \in A : want[x] \in ValueOf(class, x)
        /\ Encodes(buf, [x \in A |-> Content(class, x, want[x])])
    BY <1>1 DEF IInv, TypeOK, Contents
  <2>2. /\ KeyOf[class] \in cps_api_key_t
        /\ GetLen(KeyOf[class]) \in 0 .. CPS_OBJ_MAX_KEY_LEN
    BY <2>1, ClassKeys, Sizes
  <2>3. FromArray(message) = [key |-> Copy(Unset, KeyOf[class]), rest |-> buf]
    BY <2>1, <2>2, KeySurvivesWire DEF FromArray, Array
  <2>4. ClassPath(Copy(Unset, KeyOf[class])) = ClassPath(KeyOf[class])
    <3>1. Unset \in cps_api_key_t
      BY DEF Unset, cps_api_key_t, Stored, Byte
    <3> QED
      BY <2>2, <3>1, CopyPath
  <2>5. Subscriptions(Copy(Unset, KeyOf[class])) = {class}
    <3>1. \A d \in Classes : ClassPath(KeyOf[d]) = ClassPath(KeyOf[class]) => d = class
      <4> SUFFICES ASSUME NEW d \in Classes, ClassPath(KeyOf[d]) = ClassPath(KeyOf[class])
                   PROVE  d = class
        OBVIOUS
      <4>1. <<1, OBJ(d)>> = <<1, OBJ(class)>>
        BY <2>1, ClassKeys
      <4>2. OBJ(d) = OBJ(class)
        BY <4>1
      <4> QED
        BY <2>1, <4>2, PathsDiffer
    <3> QED
      BY <2>1, <2>4, <3>1, SameKeys DEF Subscriptions
  <2>6. \A a \in Attrs(class) : Get(class, buf, a) = want[a]
    <3> SUFFICES ASSUME NEW a \in Attrs(class)
                 PROVE  Get(class, buf, a) = want[a]
      OBVIOUS
    <3>1. Get(class, buf, a) = IF a \in A THEN want[a] ELSE None
      <4> HIDE DEF A
      <4> QED
        BY <2>1, ReadEncoded
    <3> QED
      BY <3>1
  <2>7. /\ GetU32(buf, SEQ_NO(class)) = want[SEQ_NO(class)]
        /\ GetU32(buf, LAST_SEQ_NO(class)) = want[LAST_SEQ_NO(class)]
        /\ GetU64(buf, TIMESTAMP_NS(class)) = want[TIMESTAMP_NS(class)]
    <3>1. {SEQ_NO(class), LAST_SEQ_NO(class), TIMESTAMP_NS(class)} \subseteq Attrs(class)
      BY DEF Attrs
    <3>2. /\ Get(class, buf, SEQ_NO(class)) = GetU32(buf, SEQ_NO(class))
          /\ Get(class, buf, LAST_SEQ_NO(class)) = GetU32(buf, LAST_SEQ_NO(class))
          /\ Get(class, buf, TIMESTAMP_NS(class)) = GetU64(buf, TIMESTAMP_NS(class))
      BY <2>1, Kinds
    <3> QED
      BY <2>6, <3>1, <3>2
  <2>8. /\ Find(buf, SEQ_NO(class)) # NULL /\ Find(buf, LAST_SEQ_NO(class)) # NULL
        /\ Find(buf, TIMESTAMP_NS(class)) # NULL
    <3>1. /\ GetU32(buf, SEQ_NO(class)) # None /\ GetU32(buf, LAST_SEQ_NO(class)) # None
          /\ GetU64(buf, TIMESTAMP_NS(class)) # None
      BY <1>1, <2>7 DEF Present
    <3> QED
      BY <3>1, Zenon DEF GetU32, GetU64
  <2>9. EventRead(message) =
          [ seq_no      |-> GetU32(buf, SEQ_NO(class)),
            last_seq_no |-> GetU32(buf, LAST_SEQ_NO(class)),
            timestamp   |-> GetU64(buf, TIMESTAMP_NS(class)) ]
    <3>1. (CHOOSE c \in {class} : TRUE) = class
      OBVIOUS
    <3>2. {class} # {}
      OBVIOUS
    <3> HIDE DEF message
    <3> QED
      BY <2>3, <2>5, <2>8, <3>1, <3>2 DEF EventRead, Ids
  <2> QED
    BY <2>7, <2>9
<1>2. IInv => SubscriberReads
  BY <1>1 DEF SubscriberReads
<1> QED
  BY <1>2, Invariant, PTL

=============================================================================
