-------------------------------- MODULE Parser --------------------------------
(***************************************************************************)
(* Parser of config.cpp, and what Server::init makes of its result: reading *)
(* service.conf line by line into a map of sections, and the values that    *)
(* the global section has to give.                                         *)
(*                                                                         *)
(* A line is a sequence of lexemes: the header of a section ([name]), a key *)
(* with its equals sign, a quoted value, a hash, a blank, or other text.    *)
(* fgets takes Width of them, so a longer line is read in pieces.  A file    *)
(* that cannot be opened is an empty one: both are refused.                 *)
(***************************************************************************)
EXTENDS Naturals, SequencesExt

CONSTANTS Lines,    \* the lines a file may have, without their line ends
          Width,    \* MAX_LINE_LEN - 1
          MaxFile,  \* bound: lines of a file
          IntKey,   \* log_level, log_stdin, is_reply, print_order
          Number    \* values that begin with a digit

ASSUME ParserAssumption == /\ Width \in Nat \ {0} /\ MaxFile \in Nat
                           /\ \A l \in Lines : l \in Seq(ToSet(l))

Section(s) == <<"section", s>>
Key(k)     == <<"key", k>>
Value(v)   == <<"value", v>>
Hash  == <<"hash", "">>
Blank == <<"blank", "">>
Is(kind, lexeme) == lexeme[1] = kind

VARIABLES
  file,    \* the lines read so far
  rest,    \* what fgets has still to take of the last of them
  conf,    \* m_conf
  curr,    \* the section itrConf is at; <<>> for end()
  phase,   \* reading, then ready or refused
  config   \* m_config

fileVars == <<file, rest, conf, curr, phase, config>>

FileInit == /\ file = <<>> /\ rest = <<>> /\ conf = <<>> /\ curr = <<>>
            /\ phase = "reading" /\ config = <<>>

-----------------------------------------------------------------------------
Least(a, b) == IF a < b THEN a ELSE b

stripComment(t) ==
  LET k == SelectInSeq(t, LAMBDA x : x = Hash) IN IF k = 0 THEN t ELSE SubSeq(t, 1, k - 1)

strip(t) ==
  LET first == SelectInSeq(t, LAMBDA x : x # Blank)
  IN  IF first = 0 THEN <<>>
      ELSE SubSeq(t, first, SelectLastInSeq(t, LAMBDA x : x # Blank))

Content(t) == strip(stripComment(t))

(* the first and the last character decide *)
getSection(t) == t # <<>> /\ Is("section", Head(t)) /\ Is("section", Last(t))

(* blanks may follow the equals sign, and the pattern takes all from the     *)
(* first quote up to the last for the value                                  *)
Quoted(t) == strip(Tail(t))
getKeyVal(t) == /\ Len(t) > 1 /\ Is("key", t[1]) /\ Quoted(t) # <<>>
                /\ Is("value", Head(Quoted(t))) /\ Is("value", Last(t))

-----------------------------------------------------------------------------
(* parse: one turn of its loop, with the content c *)
Ignore(c) == c = <<>> /\ UNCHANGED <<conf, curr, phase>>

(* what operator[] of std::map leaves after an assignment *)
Put(m, k, v) == [x \in DOMAIN m \cup {k} |-> IF x = k THEN v ELSE m[x]]

NewSection(c) == /\ getSection(c) /\ c \notin DOMAIN conf
                 /\ conf' = Put(conf, c, <<>>)
                 /\ curr' = c
                 /\ UNCHANGED phase

\* as a fault: insert, which leaves a value that is there
InsertItem(c) == /\ getKeyVal(c) /\ curr # <<>>
                 /\ IF Head(c) \in DOMAIN conf[curr] THEN UNCHANGED conf
                    ELSE conf' = Put(conf, curr, Put(conf[curr], Head(c), Quoted(c)))
                 /\ UNCHANGED <<curr, phase>>
Item(c) == /\ getKeyVal(c) /\ curr # <<>>
           /\ conf' = Put(conf, curr, Put(conf[curr], Head(c), Quoted(c)))
           /\ UNCHANGED <<curr, phase>>

(* a section that is there, an item outside of any, or neither *)
Invalid(c) == /\ c # <<>> /\ phase' = "refused"
              /\ IF getSection(c) THEN c \in DOMAIN conf ELSE ~getKeyVal(c) \/ curr = <<>>
              /\ UNCHANGED <<conf, curr>>

Line(l) == /\ phase = "reading" /\ rest = <<>> /\ Len(file) < MaxFile
           /\ file' = Append(file, l) /\ rest' = Append(l, Blank)
           /\ UNCHANGED <<conf, curr, phase, config>>

Fgets == /\ phase = "reading" /\ rest # <<>>
         /\ LET c == Content(SubSeq(rest, 1, Least(Width, Len(rest))))
            IN Ignore(c) \/ NewSection(c) \/ Item(c) \/ Invalid(c)
         /\ rest' = SubSeq(rest, Width + 1, Len(rest))
         /\ UNCHANGED <<file, config>>

-----------------------------------------------------------------------------
(* analyseGlobal, on the items of the global section, and the look at the    *)
(* password in Server::init; first_send_cnt has a default                    *)
Global == <<Section("global")>>

getKeyInt(items, k) == Key(k) \in DOMAIN items /\ items[Key(k)][1][2] \in Number

Fits(items) == /\ Key("password") \in DOMAIN items
               /\ items[Key("password")] = <<Value("123456")>>
               /\ \A k \in IntKey : getKeyInt(items, k)

Analyse ==
  /\ phase = "reading" /\ rest = <<>>
  /\ IF Global \in DOMAIN conf /\ Fits(conf[Global])
     THEN LET items == conf[Global] IN
          /\ phase' = "ready"
          /\ config' = [k \in IntKey \cup {"first_send_cnt"} |->
                          IF getKeyInt(items, k) THEN items[Key(k)][1][2] ELSE "1"]
     ELSE phase' = "refused" /\ UNCHANGED config
  /\ UNCHANGED <<file, rest, conf, curr>>

FileNext == (\E l \in Lines : Line(l)) \/ Fgets \/ Analyse

FileSpec == FileInit /\ [][FileNext]_fileVars

-----------------------------------------------------------------------------
(* Properties *)

(* the contents of the pieces the file is read in *)
Pieces(l) == [i \in 1..((Len(l) + Width) \div Width) |->
                Content(SubSeq(l, (i - 1) * Width + 1, Least(i * Width, Len(l))))]
Contents == FlattenSeq([n \in DOMAIN file |-> Pieces(file[n])])

(* where piece j's section begins; 0 if it is in none *)
Header(j) == Max({0} \cup {i \in 1..j : getSection(Contents[i])})

Wellformed ==
  \A j \in DOMAIN Contents : LET c == Contents[j] IN
    c # <<>> => \/ getKeyVal(c) /\ Header(j) > 0
                \/ getSection(c) /\ \A i \in 1..(j - 1) : Contents[i] # c

(* the pieces that set k in the global section *)
Settings(k) == {j \in DOMAIN Contents :
                  /\ getKeyVal(Contents[j]) /\ Head(Contents[j]) = Key(k)
                  /\ Header(j) > 0 /\ Contents[Header(j)] = Global}
Setting(k) == Quoted(Contents[Max(Settings(k))])
Given(k)   == Settings(k) # {} /\ Setting(k)[1][2] \in Number

(* The server starts exactly with a file all of whose lines are sections,    *)
(* items in one, comments or blank, with no section twice, the right         *)
(* password and a number for every key that has no default; and it starts    *)
(* with the last value the global section gives for each.  A line longer     *)
(* than the buffer counts as several lines, of which only the first ends at  *)
(* the hash: the rest of a long comment is read as a setting (config.cpp:    *)
(* 149-332, server.cpp:88-107).                                             *)
FileMeant ==
  phase # "reading" =>
    /\ phase = "ready" <=> /\ Wellformed
                           /\ Settings("password") # {}
                           /\ Setting("password") = <<Value("123456")>>
                           /\ \A k \in IntKey : Given(k)
    /\ phase = "ready" =>
         config = [k \in IntKey \cup {"first_send_cnt"} |->
                     IF Given(k) THEN Setting(k)[1][2] ELSE "1"]
=============================================================================
