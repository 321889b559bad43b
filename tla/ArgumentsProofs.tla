-------------------------- MODULE ArgumentsProofs --------------------------
(***************************************************************************)
(* What the checks of a daemon's arguments guarantee, whatever the lines   *)
(* of its configuration file are and however many it has.                  *)
(***************************************************************************)
EXTENDS Arguments, SequenceTheorems, WellFoundedInduction, TLAPS

-----------------------------------------------------------------------------
(* Sets of numbers, keywords and lines.                                    *)

(* The least and the greatest element of a set of numbers.                 *)
LEMMA IsMin ==
    ASSUME NEW S \in SUBSET Int, NEW n \in S, \A m \in S : n <= m
    PROVE  Min(S) = n
  <1>1. \A x \in S : (\A y \in S : x <= y) <=> x = n
    OBVIOUS
  <1> QED  BY <1>1, Zenon DEF Min

LEMMA IsMax ==
    ASSUME NEW S \in SUBSET Int, NEW n \in S, \A m \in S : m <= n
    PROVE  Max(S) = n
  <1>1. \A x \in S : (\A y \in S : x >= y) <=> x = n
    OBVIOUS
  <1> QED  BY <1>1, Zenon DEF Max

(* A set of positions that is not empty has a greatest one.                *)
LEMMA HasMax ==
    ASSUME NEW n \in Nat, NEW S \in SUBSET (1 .. n), S # {}
    PROVE  Max(S) \in S
  <1> DEFINE below == { n - m : m \in S }
  <1>1. below \in SUBSET Nat /\ below # {}
    OBVIOUS
  <1>2. PICK d \in below : \A e \in below : ~(<<e, d>> \in OpToRel(<, Nat))
    <2> HIDE DEF below
    <2> QED  BY <1>1, NatLessThanWellFounded, WFMin
  <1>3. PICK k \in S : d = n - k
    OBVIOUS
  <1>4. ASSUME NEW m \in S  PROVE m <= k
    <2>1. n - m \in below /\ n - m \in Nat /\ d \in Nat
      BY <1>1
    <2>2. ~(n - m < d)
      BY <1>2, <2>1 DEF OpToRel
    <2> QED  BY <1>3, <2>2
  <1>5. k \in S /\ S \in SUBSET Int
    OBVIOUS
  <1> HIDE DEF below
  <1> QED  BY <1>4, <1>5, IsMax

(* The first of the five keywords that fits decides.                       *)
LEMMA FirstFits ==
    ASSUME NEW w, NEW n \in 1 .. 5, startswith(w, keywords[n]),
           \A i \in 1 .. 5 : startswith(w, keywords[i]) => n <= i
    PROVE  Keyword(w) = keywords[n]
  <1> DEFINE fits == { i \in 1 .. Len(keywords) : startswith(w, keywords[i]) }
  <1>1. Len(keywords) = 5
    BY DEF keywords
  <1>2. n \in fits /\ fits \in SUBSET Int /\ \A m \in fits : n <= m
    BY <1>1
  <1>3. Min(fits) = n
    <2> HIDE DEF fits
    <2> QED  BY <1>2, IsMin
  <1> QED  BY <1>2, <1>3 DEF Keyword, FirstOf

LEMMA NoneFits ==
    ASSUME NEW w, \A i \in 1 .. 5 : ~startswith(w, keywords[i])
    PROVE  Keyword(w) = "unknown"
  <1>1. Len(keywords) = 5
    BY DEF keywords
  <1> QED  BY <1>1 DEF Keyword, FirstOf

(* What the code takes a word for: longer keywords are not lost to shorter *)
(* ones.                                                                   *)
LEMMA KeywordIs ==
    ASSUME NEW w
    PROVE  /\ w \in {"category-list", "category", "num-events", "url-list", "url"} => Keyword(w) = w
           /\ w = "categories" => Keyword(w) = "category"
           /\ w = "urls" => Keyword(w) = "url"
           /\ w \notin {"category-list", "category", "num-events", "url-list", "url",
                        "categories", "urls"} => Keyword(w) = "unknown"
  <1>1. /\ keywords[1] = "category-list" /\ keywords[2] = "category"
        /\ keywords[3] = "num-events" /\ keywords[4] = "url-list" /\ keywords[5] = "url"
    BY DEF keywords
  <1>2. \A i \in 1 .. 5 : i = 1 \/ i = 2 \/ i = 3 \/ i = 4 \/ i = 5
    OBVIOUS
  <1>3. CASE w = "category-list"
    BY <1>1, <1>2, <1>3, FirstFits DEF startswith
  <1>4. CASE w = "category"
    BY <1>1, <1>2, <1>4, FirstFits DEF startswith
  <1>5. CASE w = "num-events"
    BY <1>1, <1>2, <1>5, FirstFits DEF startswith
  <1>6. CASE w = "url-list"
    BY <1>1, <1>2, <1>6, FirstFits DEF startswith
  <1>7. CASE w = "url"
    BY <1>1, <1>2, <1>7, FirstFits DEF startswith
  <1>8. CASE w = "categories"
    BY <1>1, <1>2, <1>8, FirstFits DEF startswith
  <1>9. CASE w = "urls"
    BY <1>1, <1>2, <1>9, FirstFits DEF startswith
  <1>10. CASE w \notin {"category-list", "category", "num-events", "url-list", "url",
                        "categories", "urls"}
    BY <1>1, <1>2, <1>10, NoneFits DEF startswith
  <1> QED  BY <1>3, <1>4, <1>5, <1>6, <1>7, <1>8, <1>9, <1>10

(* A sequence of no more than one element is its head.                     *)
LEMMA OnlyHead ==
    ASSUME NEW S, NEW s \in Seq(S), s # <<>>, Len(s) <= 1
    PROVE  <<Head(s)>> = s
  <1>1. Len(s) = 1 /\ Head(s) = s[1] /\ s[1] \in S
    <2>1. Len(s) \in Nat \ {0}
      BY EmptySeq
    <2>2. Len(s) = 1
      BY <2>1
    <2>3. s[1] \in S
      BY <2>2, ElementOfSeq
    <2> QED  BY <2>2, <2>3
  <1> DEFINE t == <<Head(s)>>
  <1>2. t \in Seq(S) /\ Len(t) = 1 /\ t[1] = s[1]
    BY <1>1
  <1> HIDE DEF t
  <1>3. \A i \in 1 .. Len(s) : s[i] = t[i]
    BY <1>1, <1>2
  <1>4. s = t
    BY <1>1, <1>2, <1>3, SeqEqual
  <1> QED  BY <1>4 DEF t

(* What a line leaves of its value is a list of words, and of one that is  *)
(* not a list no more than one.                                            *)
LEMMA LineType ==
    ASSUME NEW l \in Lines
    PROVE  /\ Kept(l) \in Seq(Texts) /\ split(l) \in Seq(Texts)
           /\ Text(l) \in Texts
           /\ l.word \in {"url", "urls", "num-events"} => Len(Kept(l)) <= 1
  <1>1. /\ l.tokens \in Seq(STRING) /\ l.kept \in Nat
        /\ l.kept <= Len(l.tokens)
        /\ l.word \in {"url", "urls", "num-events"} => Len(l.tokens) <= 1
    BY ArgumentsAssumption
  <1>2. /\ \A i \in 1 .. l.kept : l.tokens[i] \in Texts
        /\ \A i \in 2 .. l.kept : l.tokens[i] \in Texts
    <2>1. \A i \in 1 .. Len(l.tokens) : l.tokens[i] \in Texts
      <3> SUFFICES ASSUME NEW i \in 1 .. Len(l.tokens)  PROVE l.tokens[i] \in Texts
        OBVIOUS
      <3> DEFINE own == { l.tokens[j] : j \in 1 .. Len(l.tokens) }
      <3>1. l.tokens[i] \in own
        OBVIOUS
      <3>2. own \in { { k.tokens[j] : j \in 1 .. Len(k.tokens) } : k \in Lines }
        OBVIOUS
      <3> HIDE DEF own
      <3> QED  BY <3>1, <3>2 DEF Texts
    <2> QED  BY <1>1, <2>1
  <1>3. /\ Kept(l) \in Seq(Texts)
        /\ Len(Kept(l)) = l.kept
    BY <1>1, <1>2, SubSeqProperties DEF Kept
  <1>4. SubSeq(l.tokens, 2, l.kept) \in Seq(Texts)
    BY <1>1, <1>2, SubSeqProperties
  <1>5. split(l) \in Seq(Texts)
    <2>1. <<Garbled>> \in Seq(Texts)
      BY DEF Texts
    <2>2. <<Garbled>> \o SubSeq(l.tokens, 2, l.kept) \in Seq(Texts)
      BY <1>4, <2>1, ConcatProperties
    <2> QED  BY <1>3, <2>2 DEF split
  <1>6. Text(l) \in Texts
    <2>1. split(l) # <<>> => Head(split(l)) \in Texts
      BY <1>5, HeadTailProperties
    <2> QED  BY <2>1 DEF Text, Texts
  <1> QED  BY <1>1, <1>3, <1>5, <1>6

(* A further line takes the place of what was said before, if it is about  *)
(* the same, and changes nothing otherwise.                                *)
LEMMA SaidNext ==
    ASSUME NEW words, NEW l \in Lines, file \in Seq(Lines), file' = Append(file, l)
    PROVE  Said(words)' = IF l.word \in words THEN Value(l) ELSE Said(words)
  <1> DEFINE n   == Len(file)
             old == { i \in 1 .. Len(file) : file[i].word \in words }
             new == { i \in 1 .. Len(file') : file'[i].word \in words }
  <1>1. /\ n \in Nat /\ Len(file') = n + 1 /\ file'[n + 1] = l
        /\ \A i \in 1 .. n : file'[i] = file[i]
    BY AppendProperties
  <1>2. CASE l.word \in words
    <2>1. n + 1 \in new /\ new \in SUBSET Int /\ \A m \in new : m <= n + 1
      BY <1>1, <1>2
    <2>2. Max(new) = n + 1
      <3> HIDE DEF new, n
      <3> QED  BY <2>1, IsMax
    <2> QED  BY <1>1, <1>2, <2>1, <2>2 DEF Said
  <1>3. CASE l.word \notin words
    <2>1. new = old
      BY <1>1, <1>3
    <2>2. old # {} => Max(old) \in 1 .. n
      <3>1. old \in SUBSET (1 .. n)
        OBVIOUS
      <3> HIDE DEF old, n
      <3> QED  BY <1>1, <3>1, HasMax
    <2>3. old # {} => file'[Max(old)] = file[Max(old)]
      BY <1>1, <2>2
    <2> QED  BY <1>3, <2>1, <2>3 DEF Said
  <1> QED  BY <1>2, <1>3

-----------------------------------------------------------------------------
(* The inductive invariant.                                                *)

UrlsChecked       == pc \in {"category", "num", "finish", "run", "exit"}
CategoriesChecked == pc \in {"num", "finish", "run", "exit"}
NumChecked        == pc \in {"finish", "run", "exit"}

(* Before the file is opened nothing has been read, nor gone wrong but for *)
(* the type.                                                               *)
Begun ==
    /\ pc \in {"type", "open"} => file = <<>> /\ cerr = "good"
    /\ pc = "type" => rc = 0

(* Without an error, every check made so far has passed.                   *)
Passed ==
    rc = 0 =>
        /\ pc # "type" => type \in type_choices
        /\ UrlsChecked => UrlsAccepted
        /\ CategoriesChecked => CategoriesAccepted
        /\ NumChecked => NumAccepted

(* With an error, there is a check that has failed.                        *)
Failed ==
    rc # 0 =>
        \/ type \notin type_choices
        \/ pc \notin {"open", "read"} /\ file = <<>>
        \/ UrlsChecked /\ ~UrlsAccepted
        \/ CategoriesChecked /\ ~CategoriesAccepted
        \/ NumChecked /\ ~NumAccepted

(* An error is silent only on a stream that an unknown line has spoilt,    *)
(* and that the type is wrong was said before that.                        *)
Silenced ==
    /\ rc # 0 /\ ~told => type \in type_choices /\ cerr = "bad"
    /\ cerr = "bad" => \E i \in 1 .. Len(file) : Keyword(file[i].word) = "unknown"

(* The number of events is the default until a line says another.          *)
Default == (\A i \in 1 .. Len(file) : file[i].word # "num-events") => num = 1000

Decided ==
    /\ pc = "run"  => rc = 0
    /\ pc = "exit" => rc # 0

(* The URLs are lost only with the value of the last line about them, even *)
(* after a word that is longer than its keyword.                           *)
UrlsRead == url_lst = <<>> => SaidUrls = <<>>

IInv ==
    /\ TypeOK /\ Begun /\ Passed /\ Failed /\ Silenced /\ Default /\ Decided
    /\ LastLineWins /\ UrlsRead

-----------------------------------------------------------------------------
(* The steps.                                                              *)

(* The bound on the number of lines is a number.                           *)
LEMMA MaxLinesType == MaxLines \in Nat
  BY ArgumentsAssumption, Zenon

(* The file is a sequence of lines.                                        *)
LEMMA FileType ==
    ASSUME TypeOK
    PROVE  file \in Seq(Lines) /\ Len(file) \in Nat /\ Len(file) <= MaxLines
  <1>1. file \in Seq(Lines) /\ Len(file) <= MaxLines
    BY Zenon DEF TypeOK
  <1> QED  BY <1>1

LEMMA InitInv == Init => IInv
  <1> SUFFICES ASSUME Init  PROVE IInv
    OBVIOUS
  <1>1. /\ file = <<>> /\ cat_lst = <<>> /\ url_lst = <<>> /\ num = 1000
        /\ rc = 0 /\ cerr = "good" /\ told = FALSE /\ pc = "type"
        /\ publisher \in BOOLEAN /\ type \in type_choices \cup {Empty}
    BY DEF Init
  <1>2. TypeOK
    <2>1. file \in Seq(Lines) /\ cat_lst \in Seq(Texts) /\ url_lst \in Seq(Texts)
          /\ Len(file) <= MaxLines
      BY <1>1, MaxLinesType, EmptySeq
    <2>2. num \in Nat /\ rc \in {0, -1} /\ cerr \in {"good", "bad"} /\ told \in BOOLEAN
          /\ pc \in {"type", "open", "read", "url", "category", "num", "finish", "run", "exit"}
      <3>1. num \in Nat /\ rc \in {0, -1}
        BY <1>1
      <3>2. told \in BOOLEAN
        BY <1>1, Zenon
      <3>3. cerr \in {"good", "bad"}
        BY <1>1, Zenon
      <3>4. pc \in {"type", "open", "read", "url", "category", "num", "finish", "run", "exit"}
        BY <1>1, Zenon
      <3> QED  BY <3>1, <3>2, <3>3, <3>4
    <2> QED  BY <1>1, <2>1, <2>2, Zenon DEF TypeOK
  <1>3. Begun /\ Passed /\ Failed
    BY <1>1 DEF Begun, Passed, Failed, UrlsChecked, CategoriesChecked, NumChecked
  <1>4. Silenced /\ Default /\ Decided
    BY <1>1 DEF Silenced, Default, Decided
  <1>5. ASSUME NEW words  PROVE Said(words) = <<>>
    <2>1. { i \in 1 .. Len(file) : file[i].word \in words } = {}
      BY <1>1
    <2> QED  BY <2>1, Zenon DEF Said
  <1>6. LastLineWins /\ UrlsRead
    BY <1>1, <1>5 DEF LastLineWins, UrlsRead, SaidCategories, SaidUrls
  <1> QED  BY <1>2, <1>3, <1>4, <1>6 DEF IInv

(* What a line does to the lists and the number.                           *)
LEMMA LineRead ==
    ASSUME TypeOK, ReadLine
    PROVE  \E l \in Lines :
              /\ file' = Append(file, l) /\ Len(file) < MaxLines
              /\ file' \in Seq(Lines) /\ Len(file') = Len(file) + 1 /\ file'[Len(file) + 1] = l
              /\ \A i \in 1 .. Len(file) : file'[i] = file[i]
              /\ cat_lst' = IF Keyword(l.word) \in {"category-list", "category"} THEN split(l) ELSE cat_lst
              /\ num' = IF Keyword(l.word) = "num-events" THEN strtoul(Text(l)) ELSE num
              /\ Keyword(l.word) = "url-list" => url_lst' = split(l)
              /\ Keyword(l.word) = "url" => url_lst' = <<Text(l)>>
              /\ Keyword(l.word) \notin {"url-list", "url"} => url_lst' = url_lst
              /\ cerr' = IF Keyword(l.word) = "unknown" THEN "bad" ELSE cerr
  <1>1. PICK l \in Lines :
              /\ file' = Append(file, l)
              /\ cat_lst' = IF Keyword(l.word) \in {"category-list", "category"} THEN split(l) ELSE cat_lst
              /\ num' = IF Keyword(l.word) = "num-events" THEN strtoul(Text(l)) ELSE num
              /\ url_lst' = CASE Keyword(l.word) = "url-list" -> split(l)
                              [] Keyword(l.word) = "url"      -> <<Text(l)>>
                              [] OTHER          -> url_lst
              /\ cerr' = IF Keyword(l.word) = "unknown" THEN "bad" ELSE cerr
    BY Zenon DEF ReadLine
  <1>2. /\ file' \in Seq(Lines) /\ Len(file') = Len(file) + 1 /\ file'[Len(file) + 1] = l
        /\ \A i \in 1 .. Len(file) : file'[i] = file[i]
    <2>1. file' = Append(file, l) /\ file \in Seq(Lines)
      BY <1>1, FileType
    <2> QED  BY <2>1, AppendProperties
  <1>3. Len(file) < MaxLines
    BY DEF ReadLine
  <1>4. /\ Keyword(l.word) = "url-list" => url_lst' = split(l)
        /\ Keyword(l.word) = "url" => url_lst' = <<Text(l)>>
        /\ Keyword(l.word) \notin {"url-list", "url"} => url_lst' = url_lst
    BY <1>1
  <1> QED  BY <1>1, <1>2, <1>3, <1>4

LEMMA TypeStep == TypeOK /\ [Next]_vars => TypeOK'
  <1> SUFFICES ASSUME TypeOK, [Next]_vars  PROVE TypeOK'
    OBVIOUS
  <1>1. ASSUME NEW holds, Check(holds)  PROVE rc' \in {0, -1} /\ told' \in BOOLEAN
    BY <1>1 DEF Check, Report, TypeOK
  <1>2. CASE CheckType
    BY <1>1, <1>2 DEF TypeOK, CheckType, Goto, Config, Settings
  <1>3. CASE Open
    BY <1>1, <1>3 DEF TypeOK, Open, Goto, Config, Settings, Outcome
  <1>4. CASE ReadLine
    <2>1. PICK l \in Lines :
              /\ file' \in Seq(Lines) /\ Len(file') = Len(file) + 1 /\ Len(file) < MaxLines
              /\ cat_lst' \in {split(l), cat_lst}
              /\ num' \in {strtoul(Text(l)), num}
              /\ url_lst' \in {split(l), <<Text(l)>>, url_lst}
              /\ cerr' \in {"bad", cerr}
      BY <1>4, LineRead
    <2>2. split(l) \in Seq(Texts) /\ <<Text(l)>> \in Seq(Texts)
      BY LineType
    <2>3. strtoul(Text(l)) \in Nat
      BY DEF strtoul
    <2>4. Len(file) + 1 <= MaxLines
      BY <2>1, FileType, MaxLinesType
    <2>5. UNCHANGED <<publisher, type, pc, rc, told>>
      BY <1>4 DEF ReadLine, Outcome
    <2> QED  BY <2>1, <2>2, <2>3, <2>4, <2>5 DEF TypeOK
  <1>5. CASE EndOfFile
    BY <1>5 DEF TypeOK, EndOfFile, Goto, Config, Settings, Outcome
  <1>6. CASE CheckUrls
    BY <1>1, <1>6 DEF TypeOK, CheckUrls, Goto, Config, Settings
  <1>7. CASE CheckCategories
    BY <1>1, <1>7 DEF TypeOK, CheckCategories, Goto, Config, Settings
  <1>8. CASE CheckNum
    BY <1>1, <1>8 DEF TypeOK, CheckNum, Goto, Config, Settings
  <1>9. CASE Finish
    BY <1>9 DEF TypeOK, Finish, Goto, Config, Settings, Outcome
  <1>10. CASE UNCHANGED vars
    BY <1>10 DEF TypeOK, vars
  <1> QED  BY <1>2, <1>3, <1>4, <1>5, <1>6, <1>7, <1>8, <1>9, <1>10 DEF Next

(* A step that reads no line leaves what the checks look at.               *)
LEMMA Unread ==
    ASSUME UNCHANGED Config
    PROVE  /\ UNCHANGED <<publisher, type, file, cat_lst, url_lst, num, cerr>>
           /\ UrlsAccepted' = UrlsAccepted /\ CategoriesAccepted' = CategoriesAccepted
           /\ NumAccepted' = NumAccepted
           /\ LastLineWins' = LastLineWins /\ UrlsRead' = UrlsRead
           /\ Default' = Default
  BY DEF Config, Settings, UrlsAccepted, CategoriesAccepted, NumAccepted, AllIn,
         LastLineWins, UrlsRead, Plain, Said, SaidCategories, SaidUrls, Default

(* The part of the invariant that is about errors.                         *)
Errors == Begun /\ Passed /\ Failed /\ Silenced /\ Decided

LEMMA ErrorsStep == TypeOK /\ Errors /\ [Next]_vars => Errors'
  <1> SUFFICES ASSUME TypeOK, Errors, [Next]_vars  PROVE Errors'
    OBVIOUS
  <1>a. CheckType => /\ pc = "type" /\ pc' = "open" /\ Check(type \in type_choices)
                     /\ UNCHANGED Config
    BY DEF CheckType, Goto
  <1>b. Open => /\ pc = "open" /\ UNCHANGED Config
                /\ \/ pc' = "read" /\ UNCHANGED <<rc, told>>
                   \/ pc' = "url" /\ Check(FALSE)
    BY DEF Open, Goto, Outcome
  <1> USE DEF Errors, Begun, Passed, Failed, Silenced, Decided,
              UrlsChecked, CategoriesChecked, NumChecked
  <1>1. ASSUME NEW holds, Check(holds)
        PROVE  /\ holds => rc' = rc /\ (told' <=> told)
               /\ ~holds => rc' = -1 /\ (told' <=> told \/ cerr = "good")
    BY <1>1 DEF Check, Report, TypeOK
  <1>2. /\ rc = 0 \/ rc = -1
        /\ cerr = "good" \/ cerr = "bad"
    BY DEF TypeOK
  <1>3. CASE CheckType
    <2>1. /\ type \in type_choices => rc' = 0
          /\ type \notin type_choices => rc' = -1 /\ told'
      BY <1>3, <1>a DEF Check, Report
    <2>2. UNCHANGED <<file, type, cerr>>
      BY <1>3, <1>a, Unread
    <2> QED  BY <1>3, <1>a, <2>1, <2>2
  <1>4. CASE Open
    <2>0. UNCHANGED <<file, type, cerr>>
      BY <1>4, <1>b, Unread
    <2>1. CASE pc' = "read" /\ UNCHANGED <<rc, told>>
      BY <1>4, <1>b, <2>0, <2>1
    <2>2. CASE pc' = "url" /\ Check(FALSE)
      <3>1. rc' = -1 /\ told'
        BY <1>1, <1>4, <1>b, <2>2
      <3> QED  BY <1>4, <1>b, <2>0, <2>2, <3>1
    <2> QED  BY <1>4, <1>b, <2>1, <2>2
  <1>5. CASE ReadLine
    <2>1. PICK l \in Lines :
              /\ Len(file') = Len(file) + 1 /\ file'[Len(file) + 1] = l
              /\ \A i \in 1 .. Len(file) : file'[i] = file[i]
              /\ cerr' = IF Keyword(l.word) = "unknown" THEN "bad" ELSE cerr
      BY <1>5, LineRead
    <2>2. UNCHANGED <<type, pc, rc, told>> /\ pc = "read"
      BY <1>5 DEF ReadLine, Outcome
    <2>3. Len(file) \in Nat
      BY FileType
    <2>4. cerr' = "bad" => \E i \in 1 .. Len(file') : Keyword(file'[i].word) = "unknown"
      BY <2>1, <2>3
    <2> QED  BY <2>1, <2>2, <2>4
  <1>6. CASE EndOfFile
    BY <1>6, Unread DEF EndOfFile, Goto, Outcome
  <1>7. CASE CheckUrls
    BY <1>1, <1>2, <1>7, Unread DEF CheckUrls, Goto
  <1>8. CASE CheckCategories
    BY <1>1, <1>2, <1>8, Unread DEF CheckCategories, Goto
  <1>9. CASE CheckNum
    BY <1>1, <1>2, <1>9, Unread DEF CheckNum, Goto
  <1>10. CASE Finish
    BY <1>10, Unread DEF Finish, Goto, Outcome
  <1>11. CASE UNCHANGED vars
    BY <1>11, Unread DEF vars, Config, Settings
  <1> QED  BY <1>3, <1>4, <1>5, <1>6, <1>7, <1>8, <1>9, <1>10, <1>11 DEF Next

(* What the lists are taken from.                                          *)
LEMMA LinesStep ==
    TypeOK /\ LastLineWins /\ UrlsRead /\ Default /\ [Next]_vars
        => LastLineWins' /\ UrlsRead' /\ Default'
  <1> SUFFICES ASSUME TypeOK, LastLineWins, UrlsRead, Default, [Next]_vars
               PROVE  LastLineWins' /\ UrlsRead' /\ Default'
    OBVIOUS
  <1>1. CASE ReadLine
    <2>1. PICK l \in Lines :
              /\ file' = Append(file, l)
              /\ Len(file') = Len(file) + 1 /\ file'[Len(file) + 1] = l
              /\ \A i \in 1 .. Len(file) : file'[i] = file[i]
              /\ cat_lst' = IF Keyword(l.word) \in {"category-list", "category"} THEN split(l) ELSE cat_lst
              /\ num' = IF Keyword(l.word) = "num-events" THEN strtoul(Text(l)) ELSE num
              /\ Keyword(l.word) = "url-list" => url_lst' = split(l)
              /\ Keyword(l.word) = "url" => url_lst' = <<Text(l)>>
              /\ Keyword(l.word) \notin {"url-list", "url"} => url_lst' = url_lst
      BY <1>1, LineRead
    <2>2. file \in Seq(Lines) /\ Len(file) \in Nat
      BY FileType
    <2>3. Default'
      <3>1. l.word # "num-events" => Keyword(l.word) # "num-events"
        BY KeywordIs
      <3> QED  BY <2>1, <2>2, <3>1 DEF Default
    <2>4. ASSUME Plain'  PROVE Plain /\ l.word \notin {"categories", "urls"}
      BY <2>1, <2>2, <2>4 DEF Plain
    <2>5. /\ SaidCategories' = IF l.word \in {"category-list", "category"}
                                THEN Value(l) ELSE SaidCategories
          /\ SaidUrls' = IF l.word \in {"url-list", "url"} THEN Value(l) ELSE SaidUrls
      BY <2>1, <2>2, SaidNext DEF SaidCategories, SaidUrls
    <2>6. ASSUME Plain'  PROVE cat_lst' = SaidCategories'
      <3>1. cat_lst = SaidCategories
        BY <2>4, <2>6 DEF LastLineWins
      <3>2. CASE l.word \in {"category-list", "category"}
        <4>1. split(l) = Kept(l) /\ Value(l) = Kept(l) /\ Keyword(l.word) = l.word
          BY <3>2, KeywordIs DEF split, Value
        <4> QED  BY <2>1, <2>5, <3>2, <4>1
      <3>3. CASE l.word \notin {"category-list", "category"}
        <4>1. Keyword(l.word) \notin {"category-list", "category"}
          BY <2>4, <2>6, <3>3, KeywordIs
        <4> QED  BY <2>1, <2>5, <3>1, <3>3, <4>1
      <3> QED  BY <3>2, <3>3
    <2>7. CASE l.word = "url-list"
      <3>1. split(l) = Kept(l) /\ Value(l) = Kept(l) /\ Keyword(l.word) = "url-list"
        BY <2>7, KeywordIs DEF split, Value
      <3>2. url_lst' = SaidUrls'
        BY <2>1, <2>5, <2>7, <3>1
      <3> QED  BY <2>3, <2>6, <3>2 DEF LastLineWins, UrlsRead
    <2>8. CASE l.word = "url"
      <3>1. split(l) = Kept(l) /\ url_lst' = <<Text(l)>>
        BY <2>1, <2>8, KeywordIs DEF split
      <3>2. Kept(l) \in Seq(Texts) /\ Len(Kept(l)) <= 1
        BY <2>8, LineType
      <3>3. Kept(l) # <<>> => <<Head(Kept(l))>> = Kept(l)
        BY <3>2, OnlyHead
      <3>4. <<Text(l)>> = Value(l)
        BY <2>8, <3>1, <3>3 DEF Text, Value
      <3>5. url_lst' = SaidUrls'
        BY <2>5, <2>8, <3>1, <3>4
      <3> QED  BY <2>3, <2>6, <3>5 DEF LastLineWins, UrlsRead
    <2>9. CASE l.word \notin {"url-list", "url"}
      <3>1. SaidUrls' = SaidUrls
        BY <2>5, <2>9
      <3>2. CASE l.word = "urls"
        <4>1. url_lst' = <<Text(l)>>
          BY <2>1, <3>2, KeywordIs
        <4>2. url_lst' # <<>> /\ ~Plain'
          BY <2>4, <3>2, <4>1
        <4> QED  BY <2>3, <4>2 DEF LastLineWins, UrlsRead
      <3>3. CASE l.word # "urls"
        <4>1. Keyword(l.word) \notin {"url-list", "url"}
          BY <2>9, <3>3, KeywordIs
        <4>2. url_lst' = url_lst
          BY <2>1, <4>1
        <4>3. Plain' => url_lst = SaidUrls
          BY <2>4 DEF LastLineWins
        <4> QED  BY <2>3, <2>6, <3>1, <4>2, <4>3 DEF LastLineWins, UrlsRead
      <3> QED  BY <3>2, <3>3
    <2> QED  BY <2>7, <2>8, <2>9
  <1>2. CASE UNCHANGED Config
    BY <1>2, Unread
  <1>3. [Next]_vars /\ ~ReadLine => UNCHANGED Config
    BY DEF Next, CheckType, Open, EndOfFile, CheckUrls, CheckCategories, CheckNum, Finish,
           vars, Config, Settings
  <1> QED  BY <1>1, <1>2, <1>3

-----------------------------------------------------------------------------
THEOREM InductiveInvariant == Spec => []IInv
  <1>1. IInv /\ [Next]_vars => IInv'
    BY TypeStep, ErrorsStep, LinesStep DEF IInv, Errors
  <1> QED  BY InitInv, <1>1, PTL DEF Spec

(* Every variable has its type, whatever the file says.                    *)
THEOREM TypeCorrect == Spec => []TypeOK
  <1>1. IInv => TypeOK
    BY DEF IInv
  <1> QED  BY InductiveInvariant, <1>1, PTL

(* The last line for a list wins, for files of any length (args.cpp:113).  *)
THEOREM LastLineAlwaysWins == Spec => []LastLineWins
  <1>1. IInv => LastLineWins
    BY DEF IInv
  <1> QED  BY InductiveInvariant, <1>1, PTL

(* A daemon that runs has passed every check (args.cpp:192).               *)
THEOREM AlwaysRunsAsChecked == Spec => []RunsAsChecked
  <1>1. IInv => RunsAsChecked
    <2> SUFFICES ASSUME IInv, pc = "run"
                 PROVE  /\ cat_lst # <<>> /\ AllIn(cat_lst, categories)
                        /\ type \in type_choices
                        /\ type # "redis" => /\ AllIn(url_lst, Schemes)
                                             /\ url_lst = <<>> => SaidUrls = <<>>
                        /\ publisher => num > 0
      BY DEF RunsAsChecked
    <2>1. /\ type \in type_choices /\ UrlsAccepted /\ CategoriesAccepted /\ NumAccepted
          /\ UrlsRead /\ num \in Nat
      BY DEF IInv, Decided, Passed, UrlsChecked, CategoriesChecked, NumChecked, TypeOK
    <2> QED  BY <2>1 DEF UrlsRead, UrlsAccepted, CategoriesAccepted, NumAccepted, type_choices
  <1> QED  BY InductiveInvariant, <1>1, PTL

(* A daemon that does not run has said why, or the stream was spoilt by an *)
(* unknown line (args.cpp:141).                                            *)
THEOREM ExitAlwaysExplained == Spec => []ExitIsExplained
  <1>1. IInv => ExitIsExplained
    BY DEF IInv, Decided, Silenced, ExitIsExplained
  <1> QED  BY InductiveInvariant, <1>1, PTL

(* What a program does not use does not keep it from running: an error has *)
(* a cause, and for redis it is not the URLs, for a subscriber not the     *)
(* number of events.                                                       *)
THEOREM UnusedAlwaysIgnored == Spec => []IgnoresTheUnused
  <1>1. IInv => IgnoresTheUnused
    <2> SUFFICES ASSUME IInv, pc = "exit", type \in type_choices, file # <<>>, Plain,
                        ~publisher \/ \A i \in 1 .. Len(file) : file[i].word # "num-events",
                        SaidCategories # <<>>, AllIn(SaidCategories, categories),
                        type # "redis" => AllIn(SaidUrls, Schemes)
                 PROVE  FALSE
      BY DEF IgnoresTheUnused
    <2>1. cat_lst = SaidCategories /\ url_lst = SaidUrls
      BY DEF IInv, LastLineWins
    <2>2. CategoriesAccepted
      BY <2>1 DEF CategoriesAccepted
    <2>3. UrlsAccepted
      BY <2>1 DEF UrlsAccepted
    <2>4. NumAccepted
      BY DEF IInv, Default, NumAccepted
    <2>5. rc # 0
      BY DEF IInv, Decided
    <2> QED  BY <2>2, <2>3, <2>4, <2>5 DEF IInv, Failed
  <1> QED  BY InductiveInvariant, <1>1, PTL
=============================================================================
