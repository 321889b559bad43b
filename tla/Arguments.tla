----------------------------- MODULE Arguments -----------------------------
(***************************************************************************)
(* What a daemon is started with (args.cpp): the type of transport, given  *)
(* on the command line, and a configuration file, read line by line and    *)
(* checked afterwards.  Either every check passes, or the program exits.   *)
(*                                                                         *)
(* A line is a word, which is all of it up to the value, and the value:    *)
(* the tokens between commas, of which only the first `kept` stand before  *)
(* the first blank of the line, where the code cuts it.  What is not a     *)
(* list, a number or a single URL, is one token.                           *)
(***************************************************************************)
EXTENDS Integers, Sequences, FiniteSetsExt

CONSTANTS
    Lines,      \* the lines a configuration file is made of
    MaxLines    \* bound: how many lines it has at most

ASSUME ArgumentsAssumption ==
    /\ MaxLines \in Nat
    /\ \A l \in Lines : /\ l \in [word : STRING, tokens : Seq(STRING), kept : Nat]
                        /\ l.kept <= Len(l.tokens)
                        /\ l.word \in {"url", "urls", "num-events"} => Len(l.tokens) <= 1

VARIABLES
    publisher,  \* is it the publisher, or the subscriber
    type,       \* the option --type
    file,       \* history: the lines read so far
    cat_lst, url_lst, num,
    rc,         \* 0, or -1 after an error
    cerr,       \* the state of the stream for error messages
    told,       \* history: has an error been reported on it
    pc

vars == <<publisher, type, file, cat_lst, url_lst, num, rc, cerr, told, pc>>

categories   == {"alarm", "connection", "telemetry", "vlan", "weather"}
type_choices == {"redis", "zeromq", "nano"}
Schemes      == {"ipc", "tcp"}      \* a URL is represented by its scheme
Empty        == "empty"             \* the empty string

(* The words that begin with a keyword; the code tries the keywords in     *)
(* this order.                                                             *)
keywords == <<"category-list", "category", "num-events", "url-list", "url">>
startswith(word, keyword) ==
    \/ word = keyword
    \/ keyword = "category" /\ word \in {"category-list", "categories"}
    \/ keyword = "url" /\ word \in {"url-list", "urls"}

FirstOf(choices, word) ==
    LET fits == { i \in 1 .. Len(choices) : startswith(word, choices[i]) }
    IN  IF fits = {} THEN "unknown" ELSE choices[Min(fits)]

(* Wrong: the shorter keyword of two is tried first.                       *)
KeywordShort(word) == FirstOf(<<"category", "category-list", "url", "url-list", "num-events">>, word)

Keyword(word) == FirstOf(keywords, word)

(* What the blank leaves of the value; and what the code takes for it,     *)
(* with the rest of a word that is longer than the keyword in front.       *)
Kept(l) == SubSeq(l.tokens, 1, l.kept)
Garbled == "ories="
split(l) ==
    IF Keyword(l.word) = l.word THEN Kept(l)
    ELSE <<Garbled>> \o SubSeq(l.tokens, 2, l.kept)

(* The words that occur in lists.                                          *)
Texts == {Empty, Garbled} \cup UNION { { l.tokens[i] : i \in 1 .. Len(l.tokens) } : l \in Lines }

Text(l)       == IF split(l) = <<>> THEN Empty ELSE Head(split(l))
strtoul(text) == IF text = "3" THEN 3 ELSE 0

-----------------------------------------------------------------------------
(* Every variable has its type, whatever the lines of the file say.        *)
TypeOK ==
    /\ publisher \in BOOLEAN /\ type \in type_choices \cup {Empty}
    /\ file \in Seq(Lines) /\ Len(file) <= MaxLines
    /\ cat_lst \in Seq(Texts) /\ url_lst \in Seq(Texts)
    /\ num \in Nat /\ rc \in {0, -1}
    /\ cerr \in {"good", "bad"} /\ told \in BOOLEAN
    /\ pc \in {"type", "open", "read", "url", "category", "num", "finish", "run", "exit"}

(* The options have been parsed.                                           *)
Init ==
    /\ publisher \in BOOLEAN /\ type \in type_choices \cup {Empty}
    /\ file = <<>> /\ cat_lst = <<>> /\ url_lst = <<>> /\ num = 1000
    /\ rc = 0 /\ cerr = "good" /\ told = FALSE /\ pc = "type"

Goto(p, q) == pc = p /\ pc' = q

(* An error is reported, unless the stream is not good any more.           *)
Report(holds) == told' = (told \/ (~holds /\ cerr = "good"))

(* Wrong: the last check decides; the errors are counted; not reported.    *)
CheckLast(holds)   == rc' = (IF holds THEN 0 ELSE -1) /\ Report(holds)
CheckCounts(holds) == rc' = (IF holds THEN rc ELSE rc - 1) /\ Report(holds)
CheckMute(holds)   == rc' = (IF holds THEN rc ELSE -1) /\ UNCHANGED told

(* A check: an error is remembered, and the checks go on.                  *)
Check(holds) == rc' = (IF holds THEN rc ELSE -1) /\ Report(holds)

Settings == <<publisher, type, file, cat_lst, url_lst, num>>
Config   == <<Settings, cerr>>
Outcome  == <<rc, told>>

CheckType == Goto("type", "open") /\ Check(type \in type_choices) /\ UNCHANGED Config

Open ==
    \/ Goto("open", "read") /\ UNCHANGED <<Config, Outcome>>
    \/ Goto("open", "url") /\ Check(FALSE) /\ UNCHANGED Config

(* A line that begins with none of the keywords is reported with a NULL    *)
(* pointer for its text, after which the stream prints nothing any more.   *)
ReadLine ==
    /\ pc = "read" /\ Len(file) < MaxLines
    /\ \E l \in Lines :
          LET k == Keyword(l.word)
          IN  /\ file' = Append(file, l)
              /\ cat_lst' = IF k \in {"category-list", "category"} THEN split(l) ELSE cat_lst
              /\ num' = IF k = "num-events" THEN strtoul(Text(l)) ELSE num
              /\ url_lst' = CASE k = "url-list" -> split(l)
                              [] k = "url"      -> <<Text(l)>>
                              [] OTHER          -> url_lst
              /\ cerr' = IF k = "unknown" THEN "bad" ELSE cerr
    /\ UNCHANGED <<publisher, type, pc>> /\ UNCHANGED Outcome

EndOfFile == Goto("read", "url") /\ UNCHANGED <<Config, Outcome>>

AllIn(list, choices) == \A i \in 1 .. Len(list) : list[i] \in choices

(* The list tested for being empty is that of the categories, although the *)
(* message is about the URL.                                               *)
UrlsWhatever == cat_lst # <<>> /\ AllIn(url_lst, Schemes)   \* wrong: redis needs none
UrlsAccepted == type \in {"zeromq", "nano"} => cat_lst # <<>> /\ AllIn(url_lst, Schemes)

CategoriesAccepted == cat_lst # <<>> /\ AllIn(cat_lst, categories)
NumAccepted        == publisher => num # 0

CheckUrls       == Goto("url", "category") /\ Check(UrlsAccepted) /\ UNCHANGED Config
CheckCategories == Goto("category", "num") /\ Check(CategoriesAccepted) /\ UNCHANGED Config
CheckNum        == Goto("num", "finish") /\ Check(NumAccepted) /\ UNCHANGED Config

Finish ==
    \/ rc = 0 /\ Goto("finish", "run") /\ UNCHANGED <<Config, Outcome>>
    \/ rc # 0 /\ Goto("finish", "exit") /\ UNCHANGED <<Config, Outcome>>

Next == CheckType \/ Open \/ ReadLine \/ EndOfFile \/ CheckUrls \/ CheckCategories \/ CheckNum \/ Finish

Spec == Init /\ [][Next]_vars

-----------------------------------------------------------------------------
(* What a file says: the last line for a list counts, whichever of its two *)
(* forms it has.  A url is one value, be it cut to nothing; a list may be  *)
(* empty.                                                                  *)
Value(l) == IF l.word = "url" /\ Kept(l) = <<>> THEN <<Empty>> ELSE Kept(l)
Said(words) ==
    LET lines == { i \in 1 .. Len(file) : file[i].word \in words }
    IN  IF lines = {} THEN <<>> ELSE Value(file[Max(lines)])

SaidCategories == Said({"category-list", "category"})
SaidUrls       == Said({"url-list", "url"})

Plain == \A i \in 1 .. Len(file) : file[i].word \notin {"categories", "urls"}

(* The last line wins: lines before it leave nothing behind, neither in    *)
(* the list nor because the keyword of one form begins with the other.  A  *)
(* list is empty only if no line is about it or a blank has cut the last.  *)
LastLineWins == Plain => cat_lst = SaidCategories /\ url_lst = SaidUrls

(* A daemon that runs has one category at least and knows them all; its    *)
(* type is one of the three; every earlier error still counts at the end.  *)
(* Every URL it has is one that its transport takes.  That it has one is   *)
(* not checked, whatever the message of args.cpp:153 says: it runs without *)
(* a URL, though only if the last line about URLs, if any, says none.      *)
RunsAsChecked ==
    pc = "run" =>
        /\ cat_lst # <<>> /\ AllIn(cat_lst, categories)
        /\ type \in type_choices
        /\ type # "redis" => /\ AllIn(url_lst, Schemes)
                             /\ url_lst = <<>> => SaidUrls = <<>>
        /\ publisher => num > 0

(* A daemon that does not run has said why, unless an unknown line of the  *)
(* file has silenced it; that the type is wrong is said before the file is *)
(* read.                                                                   *)
ExitIsExplained ==
    pc = "exit" /\ ~told =>
        /\ type \in type_choices
        /\ \E i \in 1 .. Len(file) : Keyword(file[i].word) = "unknown"

(* A daemon is not kept from running by a parameter that it does not use:  *)
(* URLs for redis, the number of events for a subscriber.  If it does not  *)
(* run, then for its categories, or for a URL of a socket transport.       *)
IgnoresTheUnused ==
    /\ pc = "exit" /\ type \in type_choices /\ file # <<>> /\ Plain
    /\ ~publisher \/ \A i \in 1 .. Len(file) : file[i].word # "num-events"
    => \/ SaidCategories = <<>> \/ ~AllIn(SaidCategories, categories)
       \/ type # "redis" /\ ~AllIn(SaidUrls, Schemes)
=============================================================================
