------------------------------ MODULE Listing ------------------------------
(***************************************************************************)
(* What the client makes of a directory listing: src/ftp/rfile.c,          *)
(* rdir_parse() in src/ftp/rdirectory.c, and gmt_mktime() in               *)
(* src/ftp/ftp.c.                                                          *)
(*                                                                         *)
(* LIST has no fixed format.  The client tries one parser after another on *)
(* every line and remembers the last one tried in ftp->LIST_type, for the  *)
(* rest of the session.  A line is what its first characters tell apart,   *)
(* and a sequence of columns; a name is the columns that are left.  Times  *)
(* are minutes since 1970, and the local time is UTC without summer time.  *)
(***************************************************************************)
EXTENDS Integers, Sequences, FiniteSets, SequencesExt

CONSTANTS
  Files,    \* files a server may list: see File
  Nows,     \* instants at which the client may run
  RecentDays, \* days for which the server shows the time of a file, not the year
  Styles,   \* formats the server may use
  Extras    \* lines that do not describe a file: subset of {"total", "junk", "blank"}

ASSUMPTION ListingAssumption ==
  /\ Styles \subseteq {"ls", "lG", "webstar", "iso", "dos", "eplf", "mlsd"}
  /\ Extras \subseteq {"total", "junk", "blank"}

VARIABLES
  now,      \* time(0)
  listType, \* ftp->LIST_type
  mlsd,     \* ftp->has_mlsd_command
  seen      \* the listing read last: what the server showed and what was made of it

listingVars == <<now, listType, mlsd, seen>>

-----------------------------------------------------------------------------
(* Times.                                                                  *)

MonthNames == <<"Jan", "Feb", "Mar", "Apr", "May", "Jun",
                "Jul", "Aug", "Sep", "Oct", "Nov", "Dec">>
IsLeapYear(y) == (y % 4 = 0 /\ y % 100 # 0) \/ y % 400 = 0
DaysPerMonth(y) == <<31, IF IsLeapYear(y) THEN 29 ELSE 28, 31, 30, 31, 30, 31, 31, 30, 31, 30, 31>>
Minutes(days, h, mi) == days * 1440 + h * 60 + mi
DaysBefore(y, mon) == FoldLeft(+, 0, SubSeq(DaysPerMonth(y), 1, mon))
NoTime == -1

\* mktime(): days and hours beyond their range run over into the next unit.
\* Months count from 0.
Mktime(y, mon, d, h, mi) ==
  LET leaps(n) == n \div 4 - n \div 100 + n \div 400
  IN  Minutes(365 * (y - 1970) + leaps(y - 1) - leaps(1969) + DaysBefore(y, mon) + d - 1, h, mi)

\* gmt_mktime(): a date that does not exist has no time.
GmtMktime(y, mon, d, h, mi) ==
  IF ~(y \in 1970 .. 2038 /\ mon \in 0 .. 11) THEN NoTime
  ELSE IF ~(d \in 1 .. DaysPerMonth(y)[mon + 1] /\ h \in 0 .. 23 /\ mi \in 0 .. 59) THEN NoTime
  ELSE Minutes(365 * (y - 1970) + Cardinality({n \in 1970 .. (y - 1) : IsLeapYear(n)})
                 + DaysBefore(y, mon) + d - 1, h, mi)

\* localtime()
LocalYear(t) == LET atLeast == 1970 + t \div (366 * 1440)
                IN  IF t < Mktime(atLeast + 1, 0, 1, 0, 0) THEN atLeast ELSE atLeast + 1
LocalMonth(t, y) == CHOOSE mon \in 0 .. 11 : /\ Mktime(y, mon, 1, 0, 0) <= t
                                             /\ t < Mktime(y, mon, DaysPerMonth(y)[mon + 1] + 1, 0, 0)
LocalHour(t) == (t \div 60) % 24
Ymd(t) == LET y == LocalYear(t)  mon == LocalMonth(t, y)
          IN  <<y, mon + 1, (t - Mktime(y, mon, 1, 0, 0)) \div 1440 + 1, LocalHour(t), t % 60>>

-----------------------------------------------------------------------------
(* Lines.                                                                  *)

\* A column: a word, a number (atoi), or numbers with signs between them.
Column(text, num, parts) == [text |-> text, num |-> num, parts |-> parts]
Word(w) == Column(w, 0, <<>>)
Number(n) == Column("0", n, <<>>)
Clock(h, mi) == Column(":", h, <<h, mi>>)
Dashed(a, b, c) == Column("-", a, <<a, b, c>>)
HalfDay(h, mi, half) == Column(half, h, <<h, mi>>)

Line(head, cols) == [head |-> head, cols |-> cols, facts |-> <<>>]
Words(name) == [i \in DOMAIN name |-> Word(name[i])]
Texts(cols) == [i \in DOMAIN cols |-> cols[i].text]
IsMonth(c) == c.text \in ToSet(MonthNames)
MonthNumber(c) == (CHOOSE i \in 1 .. 12 : MonthNames[i] = c.text) - 1

\* What is made of a line: -1, 1 ("no file, no error"), or 0 and an entry.
Entry(name, kind, size, link, time) ==
  [name |-> name, kind |-> kind, size |-> size, link |-> link, time |-> time]
NoEntry == Entry(<<>>, "-", 0, <<>>, NoTime)
Failed == [r |-> -1, e |-> NoEntry]
Nothing == [r |-> 1, e |-> NoEntry]
Parsed(e) == [r |-> 0, e |-> e]

\* rfile_parse_time(): a time of day without a year is at most 180 days ago or
\* an hour ahead, so this year, the last or the next.
GuessYear(t, y) == IF t > now + 60 THEN y - 1 ELSE IF t < now - 180 * 1440 THEN y + 1 ELSE y
ParseTime(m, d, y) ==
  LET mon == MonthNumber(m)  thisYear == LocalYear(now)
  IN  IF y.text = ":"
      THEN Mktime(GuessYear(Mktime(thisYear, mon, d.num, y.parts[1], y.parts[2]), thisYear),
                  mon, d.num, y.parts[1], y.parts[2])
      ELSE IF y.text \in {"0", "-"} THEN Mktime(y.num, mon, d.num, 0, 0) ELSE NoTime

\* The columns after the ten characters taken to be the permissions.
UnixColumns(line) == IF line.head = "mdy" THEN Tail(line.cols) ELSE line.cols
WithoutMajor(c) == IF Len(c) >= 4 /\ c[4].text = "," THEN RemoveAt(c, 4) ELSE c

\* The name, and what follows an arrow in it.
BeforeArrow(name) == IF "->" \in ToSet(name)
                     THEN SubSeq(name, 1, SelectInSeq(name, LAMBDA w : w = "->") - 1) ELSE name
AfterArrow(name) == IF "->" \in ToSet(name)
                    THEN SubSeq(name, SelectInSeq(name, LAMBDA w : w = "->") + 1, Len(name)) ELSE <<>>
UnixEntry(line, size, time, name) ==
  Parsed(Entry(BeforeArrow(name), line.head, size, AfterArrow(name), time))

\* rfile_parse_unix(): the variants of `ls' are told apart by the place of the
\* month: fifth column, fourth or third.
MonthAt(c) == LET at == {k \in 3 .. 5 : IsMonth(c[k])}
              IN  IF at = {} THEN 0 ELSE CHOOSE k \in at : \A j \in at : j <= k
ParseUnix(line) ==
  LET c == WithoutMajor(UnixColumns(line))
      k == MonthAt(c)
      Rest(i) == Texts(SubSeq(c, i, Len(c)))
  IN  CASE line.head = "total" -> Nothing
        [] line.head # "total" /\ Len(c) < 5 -> Failed
        [] OTHER ->
             IF k # 0
             THEN IF Len(c) < k + 2 THEN Failed
                  ELSE UnixEntry(line, c[k - 1].num, ParseTime(c[k], c[k + 1], c[k + 2]), Rest(k + 3))
             ELSE IF Len(c[5].parts) = 3
             THEN UnixEntry(line, c[4].num,    \* tm_year is the year, not the years since 1900
                            Mktime(c[5].parts[1] + 1900, c[5].parts[2] - 1, c[5].parts[3],
                                   c[6].parts[1], c[6].parts[2]), Rest(7))
             ELSE Failed

\* rfile_parse_dos()
ParseDos(line) ==
  LET c == line.cols  year == IF c[1].parts[3] < 70 THEN c[1].parts[3] + 100 ELSE c[1].parts[3]
      hour == c[2].parts[1] + (IF c[2].text = "PM" THEN 12 ELSE 0)
  IN  IF line.head # "mdy" THEN Failed
      ELSE Parsed(Entry(Texts(SubSeq(c, 4, Len(c))),
                        IF c[3].text = "<DIR>" THEN "d" ELSE "-", c[3].num, <<>>,
                        Mktime(1900 + year, c[1].parts[1] - 1, c[1].parts[2], hour, c[2].parts[2])))

\* The facts of EPLF and MLSD: of several of a kind the last one counts.
Fact(name, num, parts) == [name |-> name, num |-> num, parts |-> parts]
FactLine(head, name, facts) == [head |-> head, cols |-> Words(name), facts |-> facts]
LastFact(line, names) ==
  LET at == {i \in DOMAIN line.facts : line.facts[i].name \in names}
  IN  IF at = {} THEN Fact("none", 0, <<>>) ELSE line.facts[CHOOSE i \in at : \A j \in at : j <= i]

\* rfile_parse_eplf()
ParseEplf(line) ==
  IF line.head # "+" \/ line.cols = <<>> THEN Failed
  ELSE Parsed(Entry(Texts(line.cols), IF LastFact(line, {"/"}).name = "/" THEN "d" ELSE "-",
                    LastFact(line, {"s"}).num, <<>>, LastFact(line, {"m"}).num))

\* rfile_parse_mlsd(): a link's type is not known, and not a directory's.
ParseMlsd(line) ==
  LET type == LastFact(line, {"file", "dir", "cdir", "pdir"}).name
      modify == LastFact(line, {"modify"}).parts
  IN  IF line.head # "=" \/ line.cols = <<>> \/ (\E i \in DOMAIN line.facts : line.facts[i].name = "")
      THEN Failed
      ELSE Parsed(Entry(Texts(line.cols), IF type \in {"file", "none"} THEN "-" ELSE "d",
                        LastFact(line, {"size", "sizd"}).num, <<>>,
                        IF modify = <<>> THEN 0
                        ELSE GmtMktime(modify[1], modify[2] - 1, modify[3], modify[4], modify[5])))

-----------------------------------------------------------------------------
(* Listings.                                                               *)

\* rfile_parse_*(): what each of the parsers makes of a line.
Tried(line) == [unix |-> ParseUnix(line), dos |-> ParseDos(line), eplf |-> ParseEplf(line),
                mlsd |-> ParseMlsd(line), over |-> line.head = "blank"]
NextType(type) == CASE type = "unix" -> "dos" [] type = "dos" -> "eplf" [] type = "eplf" -> "unix"

\* rfile_parse(): three tries, and the type that is left.
Detect_TwoTries(type, tried) ==
  LET t1 == IF type = "unknown" THEN "unix" ELSE type  t2 == NextType(t1)
  IN  IF tried[t1].r # -1 THEN t1 ELSE t2
Detect(type, tried) ==
  LET t1 == IF type = "unknown" THEN "unix" ELSE type  t2 == NextType(t1)  t3 == NextType(t2)
  IN  CASE tried[t1].r # -1 -> t1
        [] tried[t1].r = -1 /\ tried[t2].r # -1 -> t2
        [] tried[t1].r = -1 /\ tried[t2].r = -1 /\ tried[t3].r # -1 -> t3
        [] OTHER -> t1

\* rdir_parse(): up to a blank line.  A line nothing is made of empties the
\* list; the listing has failed if the list is empty at the end.
ParseLine(acc, tried) ==
  LET type == IF acc.mlsd THEN acc.type ELSE Detect(acc.type, tried)
      one == tried[IF acc.mlsd THEN "mlsd" ELSE type]
  IN  IF acc.over \/ tried.over THEN [acc EXCEPT !.over = TRUE]
      ELSE [acc EXCEPT !.type = type,
                       !.failed = @ \/ one.r = -1,
                       !.entries = CASE one.r = -1 -> {}
                                     [] one.r = 1  -> @
                                     [] OTHER      -> @ \cup {one.e}]
ParseListing(tries, isMlsd) ==
  FoldLeft(ParseLine, [type |-> listType, mlsd |-> isMlsd, over |-> FALSE, failed |-> FALSE,
                       entries |-> {}], tries)
ReadWell(read) == read.failed => read.entries # {}
-----------------------------------------------------------------------------
(* What the server shows.                                                  *)

\* A file of the server: its name, kind, size, target, time and owner.
Recent(t) == now - RecentDays * 1440 <= t /\ t <= now + 60
When(f, t) == <<Word(MonthNames[t[2]]), Number(t[3]),
                IF Recent(f.time) THEN Clock(t[4], t[5]) ELSE Number(t[1])>>

Show(style, f) ==
  LET t == Ymd(f.time)
      name == Words(f.name) \o (IF f.kind = "l" THEN <<Word("->")>> \o Words(f.link) ELSE <<>>)
      size == IF f.kind = "b" THEN <<Word(","), Number(f.size)>> ELSE <<Number(f.size)>>
      owner == <<Number(1), Word(f.owner)>>
      half == HalfDay(IF t[4] % 12 = 0 THEN 12 ELSE t[4] % 12, t[5], IF t[4] < 12 THEN "AM" ELSE "PM")
  IN  CASE style = "ls"  -> Line(f.kind, owner \o <<Word(f.owner)>> \o size \o When(f, t) \o name)
        [] style = "lG"  -> Line(f.kind, owner \o <<Number(f.size)>> \o When(f, t) \o name)
        [] style = "iso" -> Line(f.kind, owner \o <<Word(f.owner)>> \o size
                                    \o <<Dashed(t[1], t[2], t[3]), Clock(t[4], t[5])>> \o name)
        [] style = "webstar" ->
             Line(f.kind, (IF f.kind = "d" THEN <<Word("folder"), Number(0)>>
                           ELSE <<Number(f.size), Number(0), Number(f.size)>>)
                            \o When(f, t) \o Words(f.name))
        [] style = "dos" ->
             Line("mdy", <<Dashed(t[2], t[3], t[1] % 100), half,
                           IF f.kind = "d" THEN Word("<DIR>") ELSE Number(f.size)>> \o Words(f.name))
        [] style = "eplf" ->
             FactLine("+", f.name, (IF f.kind = "d" THEN <<Fact("/", 0, <<>>)>> ELSE <<>>)
                                     \o <<Fact("s", f.size, <<>>), Fact("m", f.time, <<>>)>>)
        [] style = "mlsd" ->
             FactLine("=", f.name, <<Fact(IF f.kind = "d" THEN "dir" ELSE IF f.kind = "l" THEN "slink"
                                          ELSE "file", 0, <<>>),
                                     Fact("size", f.size, <<>>), Fact("modify", 0, t)>>)

\* The entry a line of that format speaks of.  The time is left out where the
\* client has it wrong: tm_year of an ISO date, and the hour from twelve in DOS.
ShownTime(style, f) ==
  CASE style \in {"ls", "lG", "webstar"} ->
         IF Recent(f.time) THEN f.time ELSE f.time - (f.time % 1440)
    [] style \in {"eplf", "mlsd"} -> f.time
    [] style = "dos" -> IF LocalHour(f.time) % 12 = 0 THEN NoTime ELSE f.time
    [] style = "iso" -> NoTime
ShownEntry(style, f) ==
  Entry(f.name, IF style \in {"ls", "lG", "iso"} \/ f.kind = "d" THEN f.kind
                ELSE IF style = "webstar" THEN f.kind ELSE "-",
        IF style \in {"dos", "webstar"} /\ f.kind = "d" THEN 0 ELSE f.size,
        IF style \in {"ls", "lG", "iso"} THEN f.link ELSE <<>>, ShownTime(style, f))

\* The lines of a listing: files, and lines that do not describe one.
Extra(x) == [name |-> <<>>, kind |-> x, size |-> 0, link |-> <<>>, time |-> 0, owner |-> ""]
LineOf(style, item) == IF item.kind \in Extras THEN Line(item.kind, <<>>) ELSE Show(style, item)

-----------------------------------------------------------------------------
(* The client.                                                             *)

ListingInit ==
  /\ now \in Nows
  /\ listType = "unknown" /\ mlsd = TRUE
  /\ seen = [style |-> "none", items |-> <<>>, entries |-> {}, ok |-> TRUE]

\* ftp_reset_vars()
ForgetServer == listType' = "unknown" /\ mlsd' = TRUE /\ UNCHANGED now

\* ftp_read_directory(): MLSD, or LIST once the server has refused that.  The
\* result of the transfer is a matter of FtpSession.
ReadDirectory(style, items) ==
  \E lines \in {[i \in DOMAIN items |-> LineOf(style, items[i])]} :
  \E tries \in {[i \in DOMAIN lines |-> Tried(lines[i])]} :
  \E read \in {ParseListing(tries, style = "mlsd")} :
     /\ style = "mlsd" => mlsd
     /\ mlsd' = (style = "mlsd")
     /\ listType' = read.type
     /\ seen' = [style |-> style, items |-> items, entries |-> read.entries, ok |-> ReadWell(read)]
     /\ UNCHANGED now
=============================================================================
