----------------------------- MODULE ConfReader -----------------------------
(***************************************************************************)
(* conf_reader (common/confreader): the multimap of names and values, as a *)
(* sequence in which equal names keep their order, read from the command   *)
(* line and from files of lines.                                           *)
(***************************************************************************)
EXTENDS TextTools, FiniteSets

ExecName == <<1>>     \* "__exec_name"
ConfigFile == <<2>>   \* "configfile"
Include == <<3>>      \* "*INCLUDE"

\* Mutation of Uncommented: a backslash does not protect the symbol.
Uncommented_NoEscape(line) ==
  LET cuts == {i \in DOMAIN line : line[i] = Hash}
  IN IF cuts = {} THEN line ELSE SubSeq(line, 1, Min(cuts) - 1)

\* (At the start of a line in[-1] is looked at; the byte there is no backslash.)
Uncommented(line) ==
  LET cuts == {i \in DOMAIN line : line[i] = Hash /\ (i > 1 => line[i - 1] # Backslash)}
  IN IF cuts = {} THEN line ELSE SubSeq(line, 1, Min(cuts) - 1)

Field(s) == Gsub(Trim(s), <<Backslash, Hash>>, <<Hash>>)

\* The pair in a line, if any. A line of whitespace alone has an empty name,
\* gsub() throws, and the rest of the file is not read.
Parsed(line) ==
  LET in == Trim(Uncommented(line))
      ends == {i \in DOMAIN in : in[i] \in {Tab, Blank}}
  IN IF ends = {} THEN <<>>
     ELSE <<[name |-> Field(SubSeq(in, 1, Min(ends) - 1)), value |-> Field(Rest(in, Min(ends)))]>>

\* read(filename): a file that cannot be opened reads as nothing.
ReadFile(files, name) ==
  LET read[file \in DOMAIN files] ==
        LET lines == files[file]
            included(f) == IF f \in DOMAIN files THEN read[f] ELSE <<>>
            from[i \in 1..Len(lines) + 1] ==
              IF i > Len(lines) THEN <<>>
              ELSE LET p == Parsed(lines[i])
                   IN CASE p = <<>> -> from[i + 1]
                        [] p # <<>> /\ Thrown \in {p[1].name, p[1].value} -> <<>>
                        [] p # <<>> /\ p[1].name = Include -> included(p[1].value) \o from[i + 1]
                        [] OTHER -> p \o from[i + 1]
        IN from[1]
  IN IF name \in DOMAIN files THEN read[name] ELSE <<>>

\* What follows the name, with its further "=".
ArgumentValue(t) ==
  IF Len(t) = 1 THEN <<>> ELSE FoldLeft(LAMBDA v, part : v \o <<Equals>> \o part, t[2], Rest(t, 3))

\* The pair in an argument; argv[0] gets a name. Whitespace stays: trim() returns its result.
Argument(i, text) ==
  LET t == Split(IF i = 1 THEN ExecName \o <<Equals>> \o text ELSE text, Equals)
  IN IF t = <<>> THEN <<>> ELSE <<[name |-> t[1], value |-> ArgumentValue(t)]>>

\* The instances of a name, in their order; values.find() gives the first.
Instances(values, key) == {i \in DOMAIN values : values[i].name = key}

\* Mutation of Override: the values of the files are kept in front.
Override_Adds(values, arg) == Append(values, arg)

\* The first instance of a name is overridden, or the argument inserted.
Override(values, arg) ==
  IF Instances(values, arg.name) = {} THEN Append(values, arg)
  ELSE [values EXCEPT ![Min(Instances(values, arg.name))].value = arg.value]

\* read(argc, argv, filename).
ReadAll(argv, files, filename) ==
  LET said == [i \in DOMAIN argv |-> Argument(i, argv[i])]
      named == {i \in DOMAIN argv : said[i] # <<>> /\ said[i][1].name = ConfigFile}
      file == IF named = {} THEN filename ELSE said[Max(named)][1].value
      after[i \in 0..Len(argv)] ==
        CASE i = 0 -> ReadFile(files, file)
          [] i > 0 /\ said[i] = <<>> -> after[i - 1]
          [] OTHER -> Override(after[i - 1], said[i][1])
  IN after[Len(argv)]

Exists(values, key) == Instances(values, key) # {}

\* operator [] and get(key, default).
Get1(values, key) ==
  IF Exists(values, key) THEN values[Min(Instances(values, key))].value ELSE <<>>
GetOr(values, key, default) == IF Exists(values, key) THEN Get1(values, key) ELSE default
=============================================================================
