---------------------------- MODULE ClientStart ----------------------------
(***************************************************************************)
(* A bot control program from its first line: main() reads the command line *)
(* and its configuration file, takes the server's address, and goes on as   *)
(* BcpClient says. A usable address is one str_to_sockaddr() accepts.       *)
(***************************************************************************)
EXTENDS BcpClient, ConfReader

CONSTANTS Arguments,  \* command lines
          Written     \* what the configuration file is written from: its pairs

\* The characters of a C string, and the fields a line can hold: some text, with no
\* whitespace around it or, in a name, within.
Codes == 1..255
White == {Tab, Newline, Blank}
Holds(s) ==
  /\ s \in Seq(Codes) /\ s # <<>> /\ s[1] \notin White /\ s[Len(s)] \notin White
  /\ \A i \in 1..Len(s) : s[i] # Newline
Names(s) == Holds(s) /\ \A i \in 1..Len(s) : s[i] \notin {Tab, Blank}

\* A text with its symbols escaped, and a pair as confreader.h has it written
\* (rules 2 and 3), with a comment behind it.
Escaped(s) ==
  LET from[j \in 1..Len(s) + 1] ==
        IF j > Len(s) THEN <<>>
        ELSE (IF s[j] = Hash THEN <<Backslash, Hash>> ELSE <<s[j]>>) \o from[j + 1]
  IN from[1]
LineOf(p) ==
  <<Blank>> \o Escaped(p.name) \o <<Tab, Blank>> \o Escaped(p.value)
    \o <<Blank, Hash, Backslash, Hash, Blank>>

\* What read() has room for in a line.
LineMax == 16 * 1024 - 1

Pair == [name : Seq(Codes), value : Seq(Codes)]
Writable(w) ==
  /\ w \in Seq(Pair)
  /\ \A i \in DOMAIN w : /\ Names(w[i].name) /\ Holds(w[i].value) /\ w[i].name # Include
                         /\ Len(LineOf(w[i])) <= LineMax

\* No argument names another configuration file, and no pair another file.
ASSUME StartAssumption ==
  /\ \A a \in Arguments :
       /\ a \in Seq(Seq(Codes))
       /\ \A i \in DOMAIN a : a[i] # <<>> => Split(a[i], Equals)[1] # ConfigFile
  /\ \A w \in Written : Writable(w)

VARIABLES argv, pairs,  \* the inputs
          values        \* the conf_reader

conf == <<argv, pairs, values>>

Server == <<115>>
DefaultFile == <<102>>
DefaultServer == <<49, 58, 50>>

Files == [file \in {DefaultFile} |-> [i \in DOMAIN pairs |-> LineOf(pairs[i])]]

\* str_to_sockaddr() wants a host and a port, or "*" for either.
ServerOK == Len(Split(GetOr(values, Server, DefaultServer), 58)) = 2

StartInit ==
  /\ Init
  /\ argv \in {<<<<112>>>> \o a : a \in Arguments} /\ pairs \in Written
  /\ values = <<>>

ReadConfig ==
  /\ values = <<>>
  /\ values' = ReadAll(argv, Files, DefaultFile)
  /\ UNCHANGED <<vars, argv, pairs>>

\* The connection is tried once; the inputs are forgotten with it.
Started(A) ==
  /\ values # <<>> /\ A
  /\ IF link = "none" /\ link' # "none"
     THEN argv' = <<>> /\ pairs' = <<>> /\ values' = <<[name |-> ExecName, value |-> <<>>]>>
     ELSE UNCHANGED conf

StartNext ==
  \/ ReadConfig
  \/ Started(Connect /\ ServerOK)
  \/ Started(ConnectFails)
  \/ Started(Main) \/ Started(GetFails) \/ Started(WorkerReads) \/ Started(WorkerEnds)
  \/ Started(BotTakes) \/ Started(LinkDrops)

Fairness ==
  /\ WF_<<vars, conf>>(Started(Main))
  /\ WF_<<vars, conf>>(Started(GetFails /\ link = "down"))
  /\ WF_<<vars, conf>>(Started(WorkerReads \/ WorkerEnds))
  /\ WF_<<vars, conf>>(Started(BotTakes))

StartSpec == StartInit /\ [][StartNext]_<<vars, conf>> /\ Fairness

-----------------------------------------------------------------------------
(* Properties *)

\* The arguments with a text, and their names.
Said == {i \in 2..Len(argv) : argv[i] # <<>>}
NameSaid(i) == Split(argv[i], Equals)[1]

\* "the last one specified wins" and "the values from the command line dominate"
\* (confreader.h, rules 5 and 6): whatever the file says, get() returns the last
\* argument of that name, and the file's further values of it stay.
CommandLineWins ==
  argv # <<>> /\ values # <<>> =>
    \A i \in Said :
      LET later == {j \in Said : NameSaid(j) = NameSaid(i)}
          own == Cardinality(Instances(pairs, NameSaid(i)))
      IN /\ Get1(values, NameSaid(i)) = Argument(2, argv[Max(later)])[1].value
         /\ Cardinality(Instances(values, NameSaid(i))) = Max({1, own})

\* A file of names with values, a pair to a line with a comment behind it, reads as
\* these pairs: escaped symbols, whitespace around fields and names given twice
\* included (confreader.h, rules 1 to 4). Names without a value, which rule 5 keeps
\* and read() drops, and lines of a comment alone are not in such a file.
PairsReadBack ==
  argv # <<>> /\ values # <<>> =>
    ReadFile(Files, DefaultFile) = pairs

\* A text without its escapes, and texts with a character between them.
Unescaped(t) ==
  LET from[j \in 1..Len(t) + 1] ==
        CASE j > Len(t) -> <<>>
          [] j < Len(t) /\ t[j] = Backslash -> <<t[j + 1]>> \o from[j + 2]
          [] OTHER -> <<t[j]>> \o from[j + 1]
  IN from[1]
Joined(parts, c) ==
  LET from[j \in DOMAIN parts] ==
        IF j = Len(parts) THEN parts[j] ELSE parts[j] \o <<c>> \o from[j + 1]
  IN from[1]

\* The escapes of mconvert() can be undone, those of http_enhex() in either case
\* of the digits (unless a "%" is among what was escaped: it is decoded again), and gsub() of one
\* character is split() at it, joined: whatever was read from the configuration.
EncodingsInvert ==
  \A i \in DOMAIN pairs :
    LET s == pairs[i].value
    IN /\ Unescaped(Mconvert(s)) = s
       /\ Find(s, <<Percent>>, 1) = 0 => UnHex(EnHex(s)) = s /\ UnHex(Downcase(EnHex(s))) = s
       /\ Gsub(s, <<Hash>>, <<Quote>>) = Joined(Split(s, Hash), Quote)
=============================================================================
