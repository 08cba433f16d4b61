--------------------------- MODULE BcpClientProofs ---------------------------
(***************************************************************************)
(* Proofs about BcpClient for any choice of programs, any zone and any     *)
(* distances: answers are matched to questions, and the bot ends up flying *)
(* as the program's state requires; then about ClientStart for any command *)
(* lines and any pairs a file can hold: what the file says is read, the    *)
(* command line wins, and the encodings can be undone. The second part is  *)
(* by induction over texts.                                                *)
(***************************************************************************)
EXTENDS ClientStart, SequenceTheorems, FiniteSetTheorems, WellFoundedInduction, TLAPS

-----------------------------------------------------------------------------
(* Words on the link: none of a kind, one of a kind, the last of a kind *)

Silent(s, S) == \A i \in 1..Len(s) : s[i] \notin S

Sole(s, S, c) ==
  \E i \in 1..Len(s) : s[i] = c /\ \A j \in 1..Len(s) : j # i => s[j] \notin S

LastOf(s, S, c) ==
  \E i \in 1..Len(s) : s[i] = c /\ \A j \in (i + 1)..Len(s) : s[j] \notin S

\* What is sent after what.
LEMMA SentAfter ==
  ASSUME NEW X, NEW s \in Seq(X), NEW t \in Seq(X)
  PROVE  /\ s \o t \in Seq(X) /\ Len(s) \in Nat /\ Len(t) \in Nat
         /\ Len(s \o t) = Len(s) + Len(t)
         /\ \A i \in 1..(Len(s) + Len(t)) :
              (s \o t)[i] = IF i <= Len(s) THEN s[i] ELSE t[i - Len(s)]
BY ConcatProperties, LenProperties

\* Two silent batches are silent one after the other.
LEMMA SilentJoined ==
  ASSUME NEW X, NEW s \in Seq(X), NEW t \in Seq(X), NEW S, Silent(s, S), Silent(t, S)
  PROVE  Silent(s \o t, S)
BY SentAfter DEF Silent

\* The only question of a batch is the only one on the link if there was none.
LEMMA SoleJoined ==
  ASSUME NEW X, NEW s \in Seq(X), NEW t \in Seq(X), NEW S, NEW c,
         Silent(s, S), Sole(t, S, c)
  PROVE  Sole(s \o t, S, c)
<1>1. PICK i \in 1..Len(t) : t[i] = c /\ \A j \in 1..Len(t) : j # i => t[j] \notin S
  BY DEF Sole
<1>2. Len(s) + i \in 1..Len(s \o t) /\ (s \o t)[Len(s) + i] = c
  BY <1>1, SentAfter
<1>3. ASSUME NEW j \in 1..Len(s \o t), j # Len(s) + i PROVE (s \o t)[j] \notin S
  <2>1. CASE j <= Len(s)
    BY <2>1, SentAfter DEF Silent
  <2>2. CASE j > Len(s)
    BY <1>1, <1>3, <2>2, SentAfter
  <2> QED
    BY <2>1, <2>2, SentAfter
<1> QED
  BY <1>2, <1>3 DEF Sole

\* The last word of a batch is the last on the link.
LEMMA LastJoined ==
  ASSUME NEW X, NEW s \in Seq(X), NEW t \in Seq(X), NEW S, NEW c, LastOf(t, S, c)
  PROVE  LastOf(s \o t, S, c)
<1>1. PICK i \in 1..Len(t) : t[i] = c /\ \A j \in (i + 1)..Len(t) : t[j] \notin S
  BY DEF LastOf
<1>2. Len(s) + i \in 1..Len(s \o t) /\ (s \o t)[Len(s) + i] = c
  BY <1>1, SentAfter
<1>3. ASSUME NEW j \in (Len(s) + i + 1)..Len(s \o t) PROVE (s \o t)[j] \notin S
  BY <1>1, <1>3, SentAfter
<1> QED
  BY <1>2, <1>3 DEF LastOf

\* A silent batch leaves the last word the last.
LEMMA LastKept ==
  ASSUME NEW X, NEW s \in Seq(X), NEW t \in Seq(X), NEW S, NEW c,
         LastOf(s, S, c), Silent(t, S)
  PROVE  LastOf(s \o t, S, c)
<1>1. PICK i \in 1..Len(s) : s[i] = c /\ \A j \in (i + 1)..Len(s) : s[j] \notin S
  BY DEF LastOf
<1>2. i \in 1..Len(s \o t) /\ (s \o t)[i] = c
  BY <1>1, SentAfter
<1>3. ASSUME NEW j \in (i + 1)..Len(s \o t) PROVE (s \o t)[j] \notin S
  <2>1. CASE j <= Len(s)
    BY <1>1, <1>3, <2>1, SentAfter
  <2>2. CASE j > Len(s)
    BY <1>1, <1>3, <2>2, SentAfter DEF Silent
  <2> QED
    BY <2>1, <2>2, SentAfter
<1> QED
  BY <1>2, <1>3 DEF LastOf

\* The head of what is on the link is taken.
LEMMA Behead ==
  ASSUME NEW X, NEW s \in Seq(X), s # <<>>
  PROVE  /\ Tail(s) \in Seq(X) /\ Head(s) = s[1] /\ Head(s) \in X
         /\ Len(s) \in Nat \ {0} /\ Len(Tail(s)) = Len(s) - 1
         /\ \A i \in 1..(Len(s) - 1) : Tail(s)[i] = s[i + 1]
BY HeadTailProperties, LenProperties

\* What is left of silence is silent.
LEMMA SilentBeheaded ==
  ASSUME NEW X, NEW s \in Seq(X), s # <<>>, NEW S, Silent(s, S)
  PROVE  Head(s) \notin S /\ Silent(Tail(s), S)
BY Behead DEF Silent

\* The only question is taken, or another word before it.
LEMMA SoleBeheaded ==
  ASSUME NEW X, NEW s \in Seq(X), s # <<>>, NEW S, NEW c, Sole(s, S, c)
  PROVE  \/ Head(s) = c /\ Silent(Tail(s), S)
         \/ Head(s) \notin S /\ Sole(Tail(s), S, c)
<1>1. PICK i \in 1..Len(s) : s[i] = c /\ \A j \in 1..Len(s) : j # i => s[j] \notin S
  BY DEF Sole
<1>2. CASE i = 1
  BY <1>1, <1>2, Behead DEF Silent
<1>3. CASE i # 1
  <2>1. Head(s) \notin S
    BY <1>1, <1>3, Behead
  <2>2. i - 1 \in 1..Len(Tail(s)) /\ Tail(s)[i - 1] = c
    BY <1>1, <1>3, Behead
  <2>3. ASSUME NEW j \in 1..Len(Tail(s)), j # i - 1 PROVE Tail(s)[j] \notin S
    BY <1>1, <2>3, Behead
  <2> QED
    BY <2>1, <2>2, <2>3 DEF Sole
<1> QED
  BY <1>2, <1>3

\* The last word of a kind is taken, or a word before it.
LEMMA LastBeheaded ==
  ASSUME NEW X, NEW s \in Seq(X), s # <<>>, NEW S, NEW c, LastOf(s, S, c)
  PROVE  \/ Head(s) = c /\ Silent(Tail(s), S)
         \/ LastOf(Tail(s), S, c)
<1>1. PICK i \in 1..Len(s) : s[i] = c /\ \A j \in (i + 1)..Len(s) : s[j] \notin S
  BY DEF LastOf
<1>2. CASE i = 1
  BY <1>1, <1>2, Behead DEF Silent
<1>3. CASE i # 1
  <2>1. i - 1 \in 1..Len(Tail(s)) /\ Tail(s)[i - 1] = c
    BY <1>1, <1>3, Behead
  <2>2. ASSUME NEW j \in ((i - 1) + 1)..Len(Tail(s)) PROVE Tail(s)[j] \notin S
    BY <1>1, <2>2, Behead
  <2> QED
    BY <2>1, <2>2 DEF LastOf
<1> QED
  BY <1>2, <1>3

-----------------------------------------------------------------------------
(* The commands of the programs *)

Words == {"READY", "bot_lvar", "radar_contacts", "auto_status",
          "auto_on", "auto_off", "auto_speed_10", "auto_speed_30", "auto_speed_50",
          "auto_speed_100", "auto_speed_300", "auto_power_50", "auto_power_100",
          "auto_turn_rate_5", "auto_turn_rate_10", "auto_heading_0",
          "auto_heading_1_30", "auto_heading_3_14", "auto_heading_6_0",
          "auto_heading_home", "auto_heading_target", "drive_brake_0",
          "drive_brake_100", "drive_brake_b", "drive_power_0", "drive_power_a",
          "drive_turn_0", "drive_turn_t"}
Speeds == {"auto_speed_10", "auto_speed_100", "auto_speed_300"}
Autos == {"auto_on", "auto_off"}

Setup == <<"auto_power_100", "auto_turn_rate_5", "auto_speed_300", "drive_brake_100">>
Launch == <<"drive_brake_0", "auto_power_50", "auto_heading_0",
            "auto_speed_100", "auto_turn_rate_10", "auto_on">>
Chase == <<"drive_brake_0", "auto_on">>
Aim == <<"auto_heading_target">>
Halt == <<"auto_off", "drive_brake_100", "drive_turn_0">>

\* Nothing said is silent.
LEMMA Silence ==
  ASSUME NEW S
  PROVE <<>> \in Seq(Words) /\ Silent(<<>>, S)
BY EmptySeq DEF Silent

\* A batch of one word.
LEMMA OneWord ==
  ASSUME NEW w \in Words, NEW S
  PROVE  /\ <<w>> \in Seq(Words)
         /\ w \notin S => Silent(<<w>>, S)
         /\ Sole(<<w>>, S, w) /\ LastOf(<<w>>, S, w)
BY DEF Silent, Sole, LastOf

\* kamikaze, before its first search.
LEMMA SetupSays ==
  /\ Setup \in Seq(Words) /\ Silent(Setup, Queries) /\ Silent(Setup, Autos)
  /\ LastOf(Setup, Speeds, "auto_speed_300")
<1>1. Setup \in Seq(Words)
  BY DEF Setup, Words
<1>2. Silent(Setup, Queries) /\ Silent(Setup, Autos)
  BY DEF Setup, Silent, Queries, Autos
<1>3. LastOf(Setup, Speeds, "auto_speed_300")
  <2>1. 3 \in 1..Len(Setup) /\ Setup[3] = "auto_speed_300"
    BY DEF Setup
  <2>2. \A j \in (3 + 1)..Len(Setup) : Setup[j] \notin Speeds
    BY DEF Setup, Speeds
  <2> QED
    BY <2>1, <2>2 DEF LastOf
<1> QED
  BY <1>1, <1>2, <1>3

\* target, when it has landed.
LEMMA LaunchSays ==
  /\ Launch \in Seq(Words) /\ Silent(Launch, Queries)
  /\ LastOf(Launch, Speeds, "auto_speed_100") /\ LastOf(Launch, Autos, "auto_on")
<1>1. Launch \in Seq(Words)
  BY DEF Launch, Words
<1>2. Silent(Launch, Queries)
  BY DEF Launch, Silent, Queries
<1>3. LastOf(Launch, Speeds, "auto_speed_100")
  <2>1. 4 \in 1..Len(Launch) /\ Launch[4] = "auto_speed_100"
    BY DEF Launch
  <2>2. \A j \in (4 + 1)..Len(Launch) : Launch[j] \notin Speeds
    BY DEF Launch, Speeds
  <2> QED
    BY <2>1, <2>2 DEF LastOf
<1>4. LastOf(Launch, Autos, "auto_on")
  <2>1. 6 \in 1..Len(Launch) /\ Launch[6] = "auto_on"
    BY DEF Launch
  <2>2. \A j \in (6 + 1)..Len(Launch) : Launch[j] \notin Autos
    BY DEF Launch, Autos
  <2> QED
    BY <2>1, <2>2 DEF LastOf
<1> QED
  BY <1>1, <1>2, <1>3, <1>4

\* kamikaze, when it has found a target and when it has not.
LEMMA HuntSays ==
  /\ Chase \in Seq(Words) /\ Silent(Chase, Queries) /\ Silent(Chase, Speeds)
  /\ LastOf(Chase, Autos, "auto_on")
  /\ Aim \in Seq(Words) /\ Silent(Aim, Queries) /\ Silent(Aim, Speeds)
  /\ Silent(Aim, Autos)
  /\ Halt \in Seq(Words) /\ Silent(Halt, Queries) /\ Silent(Halt, Speeds)
  /\ LastOf(Halt, Autos, "auto_off")
<1>1. Chase \in Seq(Words) /\ Aim \in Seq(Words) /\ Halt \in Seq(Words)
  BY DEF Chase, Aim, Halt, Words
<1>2. /\ Silent(Chase, Queries) /\ Silent(Chase, Speeds)
      /\ Silent(Halt, Queries) /\ Silent(Halt, Speeds)
  BY DEF Chase, Halt, Silent, Queries, Speeds
<1>3. Silent(Aim, Queries) /\ Silent(Aim, Speeds) /\ Silent(Aim, Autos)
  BY DEF Aim, Silent, Queries, Speeds, Autos
<1>4. LastOf(Chase, Autos, "auto_on")
  <2>1. 2 \in 1..Len(Chase) /\ Chase[2] = "auto_on"
    BY DEF Chase
  <2>2. \A j \in (2 + 1)..Len(Chase) : Chase[j] \notin Autos
    BY DEF Chase, Autos
  <2> QED
    BY <2>1, <2>2 DEF LastOf
<1>5. LastOf(Halt, Autos, "auto_off")
  <2>1. 1 \in 1..Len(Halt) /\ Halt[1] = "auto_off"
    BY DEF Halt
  <2>2. \A j \in (1 + 1)..Len(Halt) : Halt[j] \notin Autos
    BY DEF Halt, Autos
  <2> QED
    BY <2>1, <2>2 DEF LastOf
<1> QED
  BY <1>1, <1>2, <1>3, <1>4, <1>5

\* Each step of cal_bot's script asks one question, wherever in the step it is.
LEMMA ScriptAsks ==
  ASSUME NEW m \in 1..13
  PROVE  /\ Script[m].send \in Seq(Words)
         /\ \E q \in Queries : Sole(Script[m].send, Queries, q)
<1>1. CASE m = 1
  <2> DEFINE s == <<"drive_brake_0", "drive_power_a", "drive_power_0",
                            "bot_lvar">>
  <2>1. Script[m].send = s
    BY <1>1 DEF Script
  <2>2. s \in Seq(Words)
    BY DEF Words
  <2>3. Sole(s, Queries, "bot_lvar") /\ "bot_lvar" \in Queries
    BY DEF Sole, Queries
  <2> QED
    BY <2>1, <2>2, <2>3
<1>2. CASE m = 2
  <2> DEFINE s == <<"drive_brake_b", "bot_lvar">>
  <2>1. Script[m].send = s
    BY <1>2 DEF Script
  <2>2. s \in Seq(Words)
    BY DEF Words
  <2>3. Sole(s, Queries, "bot_lvar") /\ "bot_lvar" \in Queries
    BY DEF Sole, Queries
  <2> QED
    BY <2>1, <2>2, <2>3
<1>3. CASE m = 3
  <2> DEFINE s == <<"bot_lvar">>
  <2>1. Script[m].send = s
    BY <1>3 DEF Script
  <2>2. s \in Seq(Words)
    BY DEF Words
  <2>3. Sole(s, Queries, "bot_lvar") /\ "bot_lvar" \in Queries
    BY DEF Sole, Queries
  <2> QED
    BY <2>1, <2>2, <2>3
<1>4. CASE m = 4
  <2> DEFINE s == <<"drive_turn_t", "bot_lvar", "drive_turn_0">>
  <2>1. Script[m].send = s
    BY <1>4 DEF Script
  <2>2. s \in Seq(Words)
    BY DEF Words
  <2>3. Sole(s, Queries, "bot_lvar") /\ "bot_lvar" \in Queries
    BY DEF Sole, Queries
  <2> QED
    BY <2>1, <2>2, <2>3
<1>5. CASE m = 5
  <2> DEFINE s == <<"drive_power_0", "drive_brake_100", "bot_lvar">>
  <2>1. Script[m].send = s
    BY <1>5 DEF Script
  <2>2. s \in Seq(Words)
    BY DEF Words
  <2>3. Sole(s, Queries, "bot_lvar") /\ "bot_lvar" \in Queries
    BY DEF Sole, Queries
  <2> QED
    BY <2>1, <2>2, <2>3
<1>6. CASE m = 6
  <2> DEFINE s == <<"auto_status">>
  <2>1. Script[m].send = s
    BY <1>6 DEF Script
  <2>2. s \in Seq(Words)
    BY DEF Words
  <2>3. Sole(s, Queries, "auto_status") /\ "auto_status" \in Queries
    BY DEF Sole, Queries
  <2> QED
    BY <2>1, <2>2, <2>3
<1>7. CASE m = 7
  <2> DEFINE s == <<"auto_heading_3_14", "auto_power_100", "auto_speed_50",
                            "auto_turn_rate_10", "auto_status">>
  <2>1. Script[m].send = s
    BY <1>7 DEF Script
  <2>2. s \in Seq(Words)
    BY DEF Words
  <2>3. Sole(s, Queries, "auto_status") /\ "auto_status" \in Queries
    BY DEF Sole, Queries
  <2> QED
    BY <2>1, <2>2, <2>3
<1>8. CASE m = 8
  <2> DEFINE s == <<"drive_brake_0", "auto_on", "auto_status">>
  <2>1. Script[m].send = s
    BY <1>8 DEF Script
  <2>2. s \in Seq(Words)
    BY DEF Words
  <2>3. Sole(s, Queries, "auto_status") /\ "auto_status" \in Queries
    BY DEF Sole, Queries
  <2> QED
    BY <2>1, <2>2, <2>3
<1>9. CASE m = 9
  <2> DEFINE s == <<"bot_lvar">>
  <2>1. Script[m].send = s
    BY <1>9 DEF Script
  <2>2. s \in Seq(Words)
    BY DEF Words
  <2>3. Sole(s, Queries, "bot_lvar") /\ "bot_lvar" \in Queries
    BY DEF Sole, Queries
  <2> QED
    BY <2>1, <2>2, <2>3
<1>10. CASE m = 10
  <2> DEFINE s == <<"auto_heading_6_0", "auto_status">>
  <2>1. Script[m].send = s
    BY <1>10 DEF Script
  <2>2. s \in Seq(Words)
    BY DEF Words
  <2>3. Sole(s, Queries, "auto_status") /\ "auto_status" \in Queries
    BY DEF Sole, Queries
  <2> QED
    BY <2>1, <2>2, <2>3
<1>11. CASE m = 11
  <2> DEFINE s == <<"bot_lvar">>
  <2>1. Script[m].send = s
    BY <1>11 DEF Script
  <2>2. s \in Seq(Words)
    BY DEF Words
  <2>3. Sole(s, Queries, "bot_lvar") /\ "bot_lvar" \in Queries
    BY DEF Sole, Queries
  <2> QED
    BY <2>1, <2>2, <2>3
<1>12. CASE m = 12
  <2> DEFINE s == <<"auto_heading_1_30", "auto_speed_30", "auto_status">>
  <2>1. Script[m].send = s
    BY <1>12 DEF Script
  <2>2. s \in Seq(Words)
    BY DEF Words
  <2>3. Sole(s, Queries, "auto_status") /\ "auto_status" \in Queries
    BY DEF Sole, Queries
  <2> QED
    BY <2>1, <2>2, <2>3
<1>13. CASE m = 13
  <2> DEFINE s == <<"bot_lvar">>
  <2>1. Script[m].send = s
    BY <1>13 DEF Script
  <2>2. s \in Seq(Words)
    BY DEF Words
  <2>3. Sole(s, Queries, "bot_lvar") /\ "bot_lvar" \in Queries
    BY DEF Sole, Queries
  <2> QED
    BY <2>1, <2>2, <2>3
<1> QED
  BY <1>1, <1>2, <1>3, <1>4, <1>5, <1>6, <1>7, <1>8, <1>9, <1>10, <1>11, <1>12, <1>13

-----------------------------------------------------------------------------
(* Answers and questions *)

Modes == [target |-> {"landing", "run", "tofar", "orient", "turning", "returning"},
          kamikaze |-> {"new", "tracking", "searching"},
          cal_bot |-> 1..13]

ClientTypes ==
  /\ prog \in {"target", "kamikaze", "cal_bot"} /\ mode \in Modes[prog]
  /\ at \in {"ack", "ask", "again", "wait", "ended", "terminated"}
  /\ tx \in Seq(Words)
  /\ at \in {"again", "wait"} => asked \in Queries

\* No reply is under way and none is to come.
Quiet == inbound = <<>> /\ rx = <<>> /\ Silent(tx, Queries)

\* The reply q is in one of the two queues on this side.
Come(q) ==
  /\ Silent(tx, Queries)
  /\ \/ inbound = <<q>> /\ rx = <<>>
     \/ inbound = <<>> /\ rx = <<q>>

\* The bot has not got to the question q yet.
Open(q) == inbound = <<>> /\ rx = <<>> /\ Sole(tx, Queries, q)

PairInv ==
  /\ ClientTypes
  /\ link = "none" => inbound = <<>> /\ rx = <<>> /\ tx = <<>>
  /\ worker = "connect" => at = "ack" /\ link = "none"
  /\ at = "ack" => Quiet \/ Come("READY")
  /\ at \in {"ask", "again"} => Quiet
  /\ at = "wait" => Come(asked) \/ Open(asked) \/ (link # "up" /\ Quiet)
  /\ Over => link # "up"

\* put(): the commands are on the link, or the program is over.
LEMMA Sent ==
  ASSUME tx \in Seq(Words), NEW cmds \in Seq(Words), NEW next, Tell(cmds, next)
  PROVE  /\ tx' \in Seq(Words)
         /\ \A S : Silent(tx, S) /\ Silent(cmds, S) => Silent(tx', S)
         /\ \/ /\ at' = next /\ UNCHANGED <<here, worker, link>>
               /\ tx' = IF link = "up" THEN tx \o cmds ELSE tx
            \/ /\ Over' /\ worker' = "gone" /\ tx' = tx
               /\ link' = IF link = "up" THEN "down" ELSE link
<1>1. tx \o cmds \in Seq(Words)
  BY SentAfter
<1>2. \A S : Silent(tx, S) /\ Silent(cmds, S) => Silent(tx \o cmds, S)
  BY SilentJoined
<1>3. \/ /\ at' = next /\ UNCHANGED <<here, worker, link>>
         /\ tx' = IF link = "up" THEN tx \o cmds ELSE tx
      \/ /\ Over' /\ worker' = "gone" /\ tx' = tx
         /\ link' = IF link = "up" THEN "down" ELSE link
  BY DEF Tell, Quit, Over
<1>4. tx' \in {tx, tx \o cmds}
  BY <1>3
<1> QED
  BY <1>1, <1>2, <1>3, <1>4

\* get(): what was under way has been taken.
LEMMA Received ==
  ASSUME PairInv, at \in {"ack", "wait"}, Get
  PROVE  inbound' = <<>> /\ rx' = <<>> /\ Silent(tx, Queries) /\ link # "none"
<1>1. inbound # <<>> \/ rx # <<>>
  BY DEF Get
<1>2. PICK q : Come(q)
  BY <1>1 DEF PairInv, Quiet, Open
<1>3. Tail(<<q>>) = <<>> /\ <<q>> # <<>>
  OBVIOUS
<1>4. inbound' = <<>> /\ rx' = <<>>
  <2>1. CASE prog = "cal_bot" /\ rx # <<>> /\ rx' = Tail(rx) /\ UNCHANGED inbound
    BY <1>2, <1>3, <2>1 DEF Come
  <2>2. CASE inbound # <<>> /\ inbound' = Tail(inbound) /\ UNCHANGED rx
    BY <1>2, <1>3, <2>2 DEF Come
  <2> QED
    BY <2>1, <2>2 DEF Get
<1>5. Silent(tx, Queries) /\ link # "none"
  BY <1>1, <1>2 DEF Come, PairInv
<1> QED
  BY <1>4, <1>5

\* A program that has taken an answer and says no more than commands is quiet.
LEMMA Handled ==
  ASSUME PairInv, at \in {"ack", "wait"}, Get,
         NEW cmds \in Seq(Words), Silent(cmds, Queries),
         NEW next \in {"ask", "again"}, Tell(cmds, next),
         prog' = prog, mode' \in Modes[prog],
         next = "again" => asked' = asked /\ asked \in Queries
  PROVE  PairInv'
<1>1. inbound' = <<>> /\ rx' = <<>> /\ Silent(tx, Queries) /\ link # "none"
  BY Received
<1>2. tx \in Seq(Words) /\ prog \in {"target", "kamikaze", "cal_bot"}
      /\ (worker = "connect" => link = "none")
  BY DEF PairInv, ClientTypes
<1>3. tx' \in Seq(Words) /\ Silent(tx', Queries)
  BY <1>1, <1>2, Sent
<1>4. Quiet'
  BY <1>1, <1>3 DEF Quiet
<1>5. CASE at' = next /\ UNCHANGED <<here, worker, link>>
  BY <1>1, <1>2, <1>3, <1>4, <1>5 DEF PairInv, ClientTypes, Over
<1>6. CASE /\ Over' /\ worker' = "gone"
           /\ link' = IF link = "up" THEN "down" ELSE link
  BY <1>1, <1>2, <1>3, <1>6 DEF PairInv, ClientTypes, Over
<1> QED
  BY <1>2, <1>5, <1>6, Sent

\* What may come of a turn of target's working loop: one command at most, the speed
\* it needs for the state it goes to unless it has it.
Turning == {"orient", "turning"}
Sensible(next) ==
  /\ next.say \in Seq(Words) /\ Silent(next.say, Queries) /\ Silent(next.say, Autos)
  /\ next.to \in {"run", "tofar", "orient", "turning", "returning"}
  /\ \/ next.to \in Turning /\ LastOf(next.say, Speeds, "auto_speed_10")
     \/ next.to \notin Turning /\ LastOf(next.say, Speeds, "auto_speed_100")
     \/ (next.to \in Turning <=> mode \in Turning) /\ Silent(next.say, Speeds)

\* The switch of the loop keeps to that.
LEMMA SteerSays ==
  ASSUME NEW dist, NEW aligned,
         mode \in {"run", "tofar", "orient", "turning", "returning"}
  PROVE  Sensible(Steer(dist, aligned))
<1>1. \/ /\ Steer(dist, aligned).say \in {<<>>, <<"auto_heading_home">>}
         /\ Steer(dist, aligned).to \in Turning <=> mode \in Turning
      \/ /\ Steer(dist, aligned).say = <<"auto_speed_10">>
         /\ Steer(dist, aligned).to = "orient"
      \/ /\ Steer(dist, aligned).say = <<"auto_speed_100">>
         /\ Steer(dist, aligned).to = "returning"
  BY DEF Steer, Turning
<1>2. Steer(dist, aligned).to \in {"run", "tofar", "orient", "turning", "returning"}
  BY DEF Steer
<1> DEFINE next == Steer(dist, aligned)
<1>3. /\ next.to \in {"run", "tofar", "orient", "turning", "returning"}
      /\ \/ /\ next.say \in {<<>>, <<"auto_heading_home">>}
            /\ next.to \in Turning <=> mode \in Turning
         \/ next.say = <<"auto_speed_10">> /\ next.to = "orient"
         \/ next.say = <<"auto_speed_100">> /\ next.to = "returning"
  BY <1>1, <1>2
<1>4. Sensible(next)
  <2> HIDE DEF next
  <2>1. CASE next.say = <<>> /\ (next.to \in Turning <=> mode \in Turning)
    BY <1>3, <2>1, Silence DEF Sensible
  <2>2. CASE next.say = <<"auto_heading_home">> /\ (next.to \in Turning <=> mode \in Turning)
    <3>1. /\ "auto_heading_home" \in Words /\ "auto_heading_home" \notin Queries
          /\ "auto_heading_home" \notin Autos /\ "auto_heading_home" \notin Speeds
      BY DEF Words, Queries, Autos, Speeds
    <3> QED
      BY <1>3, <2>2, <3>1, OneWord DEF Sensible
  <2>3. CASE next.say = <<"auto_speed_10">> /\ next.to = "orient"
    <3>1. /\ "auto_speed_10" \in Words /\ "auto_speed_10" \notin Queries
          /\ "auto_speed_10" \notin Autos
      BY DEF Words, Queries, Autos
    <3>2. next.to \in Turning
      BY <2>3 DEF Turning
    <3> QED
      BY <1>3, <2>3, <3>1, <3>2, OneWord DEF Sensible
  <2>4. CASE next.say = <<"auto_speed_100">> /\ next.to = "returning"
    <3>1. /\ "auto_speed_100" \in Words /\ "auto_speed_100" \notin Queries
          /\ "auto_speed_100" \notin Autos
      BY DEF Words, Queries, Autos
    <3>2. next.to \notin Turning
      BY <2>4 DEF Turning
    <3> QED
      BY <1>3, <2>4, <3>1, <3>2, OneWord DEF Sensible
  <2> QED
    BY <1>3, <2>1, <2>2, <2>3, <2>4
<1> QED
  BY <1>4

\* After each step the reply that is waited for is under way, and no other.
LEMMA PairStep ==
  ASSUME PairInv, [Next]_vars
  PROVE  PairInv'
<1>1. ClientTypes
  BY DEF PairInv
<1>2. /\ prog \in {"target", "kamikaze", "cal_bot"} /\ tx \in Seq(Words)
      /\ mode \in Modes[prog]
      /\ at = "wait" => asked \in Queries
  BY <1>1 DEF ClientTypes
<1>3. CASE Ack
  <2>1. PICK cmds \in {<<>>, Setup} : Tell(cmds, "ask")
    BY <1>3 DEF Ack, Setup
  <2>2. cmds \in Seq(Words) /\ Silent(cmds, Queries)
    BY Silence, SetupSays
  <2> QED
    BY <1>2, <1>3, <2>1, <2>2, Handled DEF Ack
<1>4. CASE Ask
  <2>1. at \in {"ask", "again"} /\ Quiet
    BY <1>4 DEF Ask, PairInv
  <2>2. PICK q \in Queries : Batch \in Seq(Words) /\ Sole(Batch, Queries, q)
    <3>1. \A q \in Queries : <<q>> \in Seq(Words) /\ Sole(<<q>>, Queries, q)
      <4>1. Queries \subseteq Words
        BY DEF Words, Queries
      <4> QED
        BY <4>1, OneWord
    <3>2. CASE at = "again"
      <4>1. Batch = <<asked>> /\ asked \in Queries
        BY <1>1, <3>2 DEF Batch, ClientTypes
      <4> QED
        BY <3>1, <4>1
    <3>3. CASE at = "ask" /\ prog = "cal_bot"
      <4>1. Batch = Script[mode].send
        BY <3>3 DEF Batch
      <4> QED
        BY <1>2, <3>3, <4>1, ScriptAsks DEF Modes
    <3>4. CASE at = "ask" /\ prog # "cal_bot"
      <4>1. Batch \in {<<"radar_contacts">>, <<"bot_lvar">>}
        BY <3>4 DEF Batch
      <4>2. "radar_contacts" \in Queries /\ "bot_lvar" \in Queries
        BY DEF Queries
      <4> QED
        BY <3>1, <4>1, <4>2
    <3> QED
      BY <2>1, <3>2, <3>3, <3>4
  <2>3. asked' = q
    <3>1. DOMAIN Batch = 1..Len(Batch)
      BY <2>2, LenProperties
    <3>2. \A c \in Queries : (\E i \in DOMAIN Batch : Batch[i] = c) <=> c = q
      BY <2>2, <3>1 DEF Sole
    <3> QED
      BY <1>4, <3>2 DEF Ask
  <2>4. Tell(Batch, "wait") /\ UNCHANGED <<prog, mode, inbound, rx>>
    BY <1>4 DEF Ask
  <2>5. tx' \in Seq(Words)
    BY <1>2, <2>2, <2>4, Sent
  <2>6. Sole(tx \o Batch, Queries, q)
    BY <1>2, <2>1, <2>2, SoleJoined DEF Quiet
  <2>7. CASE /\ at' = "wait" /\ UNCHANGED <<here, worker, link>>
             /\ tx' = IF link = "up" THEN tx \o Batch ELSE tx
    <3>1. ClientTypes'
      BY <1>2, <2>2, <2>3, <2>4, <2>5, <2>7 DEF ClientTypes
    <3>2. Open(asked)' \/ (link' # "up" /\ Quiet')
      BY <2>1, <2>3, <2>4, <2>6, <2>7 DEF Open, Quiet
    <3>3. link = "none" => tx' = <<>> /\ inbound' = <<>> /\ rx' = <<>>
      BY <2>4, <2>7 DEF PairInv
    <3>4. worker # "connect"
      BY <2>1 DEF PairInv
    <3> QED
      BY <2>7, <3>1, <3>2, <3>3, <3>4 DEF PairInv, Over
  <2>8. CASE /\ Over' /\ worker' = "gone" /\ tx' = tx
             /\ link' = IF link = "up" THEN "down" ELSE link
    <3>1. ClientTypes'
      BY <1>2, <2>4, <2>5, <2>8 DEF ClientTypes, Over
    <3> QED
      BY <2>4, <2>8, <3>1 DEF PairInv, Over
  <2> QED
    BY <1>2, <2>2, <2>4, <2>7, <2>8, Sent
<1>5. CASE Land
  <2>1. Tell(Launch, "ask") /\ at \in {"ack", "wait"} /\ Get /\ prog' = prog
        /\ mode' \in Modes[prog]
    BY <1>5 DEF Land, Launch, Modes
  <2> QED
    BY <2>1, LaunchSays, Handled
<1>6. CASE Cruise
  <2>1. PICK dist \in 0..MaxDist, aligned \in BOOLEAN :
          /\ mode' = Steer(dist, aligned).to
          /\ Tell(Steer(dist, aligned).say, "ask")
    BY <1>6 DEF Cruise
  <2>2. Sensible(Steer(dist, aligned))
    <3>1. mode \in {"run", "tofar", "orient", "turning", "returning"}
      BY <1>2, <1>6 DEF Cruise, Modes
    <3> QED
      BY <3>1, SteerSays
  <2>3. /\ Steer(dist, aligned).say \in Seq(Words)
        /\ Silent(Steer(dist, aligned).say, Queries)
    BY <2>2 DEF Sensible
  <2>4. mode' \in Modes[prog]
    BY <1>6, <2>1, <2>2 DEF Cruise, Sensible, Modes
  <2> QED
    BY <1>6, <2>1, <2>3, <2>4, Handled DEF Cruise
<1>7. CASE Locate
  BY <1>2, <1>7, Silence, Handled DEF Locate
<1>8. CASE Hunt
  <2>1. PICK cmds \in {Chase \o Aim, <<>> \o Aim, Halt, <<>>} : Tell(cmds, "ask")
    BY <1>8 DEF Hunt, Chase, Aim, Halt
  <2>2. cmds \in Seq(Words) /\ Silent(cmds, Queries)
    <3>1. /\ <<>> \in Seq(Words) /\ Silent(<<>>, Queries)
          /\ Chase \in Seq(Words) /\ Silent(Chase, Queries)
          /\ Aim \in Seq(Words) /\ Silent(Aim, Queries)
          /\ Halt \in Seq(Words) /\ Silent(Halt, Queries)
      BY Silence, HuntSays
    <3>2. /\ Chase \o Aim \in Seq(Words) /\ Silent(Chase \o Aim, Queries)
          /\ <<>> \o Aim \in Seq(Words) /\ Silent(<<>> \o Aim, Queries)
      BY <3>1, SentAfter, SilentJoined
    <3> QED
      BY <2>1, <3>1, <3>2
  <2>3. mode' \in Modes[prog]
    BY <1>8 DEF Hunt, Modes
  <2> QED
    BY <1>2, <1>8, <2>1, <2>2, <2>3, Handled DEF Hunt
<1>9. CASE Measure
  <2>1. CASE Tell(<<>>, "again") /\ UNCHANGED mode
    BY <1>2, <1>9, <2>1, Silence, Handled DEF Measure
  <2>2. CASE mode < Len(Script) /\ Tell(<<>>, "ask") /\ mode' = mode + 1
    <3>1. Len(Script) = 13
      BY DEF Script
    <3>2. mode' \in Modes[prog]
      BY <1>2, <1>9, <2>2, <3>1 DEF Measure, Modes
    <3> QED
      BY <1>2, <1>9, <2>2, <3>2, Silence, Handled DEF Measure
  <2>3. CASE Quit /\ UNCHANGED <<mode, tx>>
    <3>1. link # "none" /\ inbound' = <<>> /\ rx' = <<>>
      BY <1>9, Received DEF Measure
    <3>2. Over' /\ link' # "up" /\ link' # "none" /\ worker' = "gone"
      BY <2>3, <3>1 DEF Quit, Over
    <3> QED
      BY <1>2, <1>9, <2>3, <3>2 DEF Measure, PairInv, ClientTypes, Over
  <2> QED
    BY <1>9, <2>1, <2>2, <2>3 DEF Measure
<1>10. CASE GetFails
  <2>1. Over' /\ link' # "up" /\ link' # "none" /\ worker' = "gone"
    BY <1>10 DEF GetFails, Quit, Over
  <2> QED
    BY <1>2, <1>10, <2>1 DEF GetFails, PairInv, ClientTypes, Over
<1>11. CASE Connect
  <2>1. inbound = <<>> /\ tx = <<>> /\ at = "ack"
    BY <1>11 DEF Connect, PairInv
  <2>2. Come("READY")'
    BY <1>11, <2>1, Silence DEF Connect, client, Come
  <2> QED
    BY <1>2, <1>11, <2>1, <2>2 DEF Connect, client, PairInv, ClientTypes, Over
<1>12. CASE ConnectFails
  <2>1. inbound = <<>> /\ rx = <<>> /\ tx = <<>> /\ at = "ack" /\ link' # "up"
    BY <1>12 DEF ConnectFails, PairInv, Quit
  <2>2. /\ worker' = "gone" /\ UNCHANGED <<prog, mode, asked, inbound, tx, rx>>
        /\ at' = "ack" \/ Over'
    BY <1>12, <2>1 DEF ConnectFails, Quit, Over
  <2>3. Quiet'
    BY <2>1, <2>2, Silence DEF Quiet
  <2> QED
    BY <1>2, <2>1, <2>2, <2>3 DEF PairInv, ClientTypes, Over
<1>13. CASE WorkerReads
  <2>1. UNCHANGED <<prog, at, mode, asked, worker, tx, link>>
    BY <1>13 DEF WorkerReads, client
  <2>2. link # "none"
    BY <1>13 DEF WorkerReads, PairInv
  <2>3. \A q : Come(q) => Come(q)'
    <3> SUFFICES ASSUME NEW q, Come(q) PROVE Come(q)'
      OBVIOUS
    <3>1. Head(<<q>>) = q /\ Tail(<<q>>) = <<>> /\ Append(<<>>, q) = <<q>> /\ <<q>> # <<>>
      OBVIOUS
    <3>2. inbound = <<>> /\ rx = <<q>>
      BY <1>13, <3>1 DEF WorkerReads, Come
    <3> QED
      BY <1>13, <2>1, <3>1, <3>2 DEF WorkerReads, Come
  <2>4. rx # <<>>
    BY <1>13 DEF WorkerReads
  <2> QED
    BY <1>2, <2>1, <2>2, <2>3, <2>4 DEF PairInv, ClientTypes, Over, Quiet, Open
<1>14. CASE WorkerEnds
  BY <1>2, <1>14 DEF WorkerEnds, client, PairInv, ClientTypes, Over, Quiet, Come, Open
<1>15. CASE BotTakes
  <2>1. /\ UNCHANGED <<prog, at, mode, asked, worker, inbound, link>>
        /\ link = "up" /\ tx # <<>> /\ tx' = Tail(tx) /\ rx' = rx \o Reply(Head(tx))
    BY <1>15 DEF BotTakes, client
  <2>2. tx' \in Seq(Words)
    BY <1>2, <2>1, Behead
  <2>3. ASSUME Silent(tx, Queries), NEW q, rx = <<>> \/ rx = <<q>>
        PROVE  rx' = rx /\ Silent(tx', Queries)
    <3>1. Head(tx) \notin Queries /\ Silent(tx', Queries)
      BY <1>2, <2>1, <2>3, SilentBeheaded
    <3>2. rx' = rx \o <<>>
      BY <2>1, <3>1 DEF Reply
    <3>3. rx \o <<>> = rx
      <4>1. <<q>> \in Seq({q}) /\ <<>> \in Seq({q})
        BY EmptySeq
      <4> QED
        BY <2>3, <4>1, ConcatEmptySeq
    <3> QED
      BY <3>1, <3>2, <3>3
  <2>4. ASSUME Quiet PROVE Quiet'
    BY <2>1, <2>3, <2>4 DEF Quiet
  <2>5. ASSUME NEW q, Come(q) PROVE Come(q)'
    BY <2>1, <2>3, <2>5 DEF Come
  <2>6. ASSUME NEW q \in Queries, Open(q) PROVE Come(q)' \/ Open(q)'
    <3>1. CASE Head(tx) = q /\ Silent(Tail(tx), Queries)
      <4>1. <<>> \o <<q>> = <<q>> /\ <<>> \o <<>> = <<>>
        OBVIOUS
      <4> QED
        BY <2>1, <2>6, <3>1, <4>1 DEF Open, Come, Reply
    <3>2. CASE Head(tx) \notin Queries /\ Sole(Tail(tx), Queries, q)
      BY <2>1, <2>6, <3>2 DEF Open, Reply
    <3> QED
      BY <1>2, <2>1, <2>6, <3>1, <3>2, SoleBeheaded DEF Open
  <2> QED
    BY <1>2, <2>1, <2>2, <2>4, <2>5, <2>6 DEF PairInv, ClientTypes, Over
<1>16. CASE LinkDrops
  <2>1. /\ UNCHANGED <<prog, at, mode, asked, worker, inbound>>
        /\ link = "up" /\ link' = "down" /\ tx' = <<>>
    BY <1>16 DEF LinkDrops, client
  <2>2. tx' \in Seq(Words) /\ Silent(tx', Queries)
    BY <2>1, Silence
  <2>3. PICK n \in 0..Len(rx) : rx' = SubSeq(rx, 1, n)
    BY <1>16 DEF LinkDrops
  <2>4. rx = <<>> => rx' = <<>>
    BY <2>3, SubSeqEmpty
  <2>5. \A q : rx = <<q>> => rx' \in {<<>>, <<q>>}
    <3> SUFFICES ASSUME NEW q, rx = <<q>> PROVE rx' \in {<<>>, <<q>>}
      OBVIOUS
    <3>1. rx \in Seq({q}) /\ Len(rx) = 1
      OBVIOUS
    <3>2. CASE n = 0
      BY <2>3, <3>2, SubSeqEmpty
    <3>3. CASE n = 1
      BY <2>3, <3>1, <3>3, SubSeqFull
    <3> QED
      BY <3>1, <3>2, <3>3
  <2>6. Quiet => Quiet'
    BY <2>1, <2>2, <2>4 DEF Quiet
  <2>7. \A q : Come(q) \/ Open(q) => Come(q)' \/ Quiet'
    BY <2>1, <2>2, <2>4, <2>5 DEF Quiet, Come, Open
  <2> QED
    BY <1>2, <2>1, <2>2, <2>6, <2>7 DEF PairInv, ClientTypes, Over
<1>17. CASE UNCHANGED vars
  BY <1>17 DEF vars, client, PairInv, ClientTypes, Over, Quiet, Come, Open
<1> QED
  BY <1>3, <1>4, <1>5, <1>6, <1>7, <1>8, <1>9, <1>10, <1>11, <1>12, <1>13, <1>14,
     <1>15, <1>16, <1>17 DEF Next, Main

\* It is so from the beginning.
LEMMA AnswersMatched == Spec => []PairInv
<1>1. Init => PairInv
  <2> SUFFICES ASSUME Init PROVE PairInv
    OBVIOUS
  <2>1. prog \in {"target", "kamikaze", "cal_bot"} /\ mode \in Modes[prog]
    BY ClientAssumption DEF Init, Modes
  <2>2. Quiet /\ tx \in Seq(Words)
    BY Silence DEF Init, Quiet
  <2> QED
    BY <2>1, <2>2 DEF Init, PairInv, ClientTypes, Over
<1>2. PairInv /\ [Next]_vars => PairInv'
  BY PairStep
<1> QED
  BY <1>1, <1>2, PTL DEF Spec

\* A program never takes the answer to another question than the one it asked, and
\* waits for no answer that is not to come, unless the link has swallowed it.
THEOREM AnswersToQuestions == Spec => []Paired
<1>1. PairInv => Paired
  <2> SUFFICES ASSUME PairInv PROVE Paired
    OBVIOUS
  <2> DEFINE open == {i \in DOMAIN tx : tx[i] \in Queries}
  <2>1. DOMAIN tx = 1..Len(tx)
    BY LenProperties DEF PairInv, ClientTypes
  <2>2. Silent(tx, Queries) => open = {}
    BY <2>1 DEF Silent
  <2>3. ASSUME NEW q \in Queries, Open(q)
        PROVE  inbound \o rx = <<>> /\ \E i \in open : open = {i} /\ tx[i] = q
    <3>1. <<>> \o <<>> = <<>>
      OBVIOUS
    <3>2. PICK i \in 1..Len(tx) :
            tx[i] = q /\ \A j \in 1..Len(tx) : j # i => tx[j] \notin Queries
      BY <2>3 DEF Open, Sole
    <3>3. open = {i}
      BY <2>1, <2>3, <3>2
    <3> QED
      BY <2>3, <3>1, <3>2, <3>3 DEF Open
  <2>4. ASSUME NEW q, Come(q)
        PROVE  inbound \o rx = <<q>> /\ open = {}
    <3>1. <<q>> \o <<>> = <<q>> /\ <<>> \o <<q>> = <<q>>
      OBVIOUS
    <3> QED
      BY <2>2, <2>4, <3>1 DEF Come
  <2>5. ASSUME Quiet PROVE inbound \o rx = <<>> /\ open = {}
    <3>1. <<>> \o <<>> = <<>>
      OBVIOUS
    <3> QED
      BY <2>2, <2>5, <3>1 DEF Quiet
  <2> HIDE DEF open
  <2>6. at = "ack" => (inbound \o rx = <<>> /\ open = {})
                      \/ (inbound \o rx = <<"READY">> /\ open = {})
    BY <2>4, <2>5 DEF PairInv
  <2>7. at \in {"ask", "again"} => inbound \o rx = <<>> /\ open = {}
    BY <2>5 DEF PairInv
  <2>8. at = "wait" =>
          \/ inbound \o rx = <<asked>> /\ open = {}
          \/ inbound \o rx = <<>> /\ \E i \in open : open = {i} /\ tx[i] = asked
          \/ link # "up" /\ inbound \o rx = <<>> /\ open = {}
    BY <2>3, <2>4, <2>5 DEF PairInv, ClientTypes
  <2>9. Over => link # "up"
    BY DEF PairInv
  <2> QED
    BY <2>6, <2>7, <2>8, <2>9 DEF Paired, open
<1> QED
  BY <1>1, AnswersMatched, PTL

-----------------------------------------------------------------------------
(* The flight *)

\* The last word of the kind S sets what holds now.
SpeedDue(c, v) == LastOf(tx, Speeds, c) \/ (Silent(tx, Speeds) /\ bot.speed = v)
AutoDue(c, v) == LastOf(tx, Autos, c) \/ (Silent(tx, Autos) /\ bot.auto = v)

\* What the bot does, and what it has been told and has not taken, come to what
\* the program's state requires.
FlightInv ==
  /\ bot \in [speed : Nat, auto : BOOLEAN]
  /\ link = "none" => /\ ~bot.auto
                      /\ prog = "kamikaze" => mode = "new"
                      /\ prog = "target" => mode = "landing"
  /\ link = "up" =>
       /\ prog = "target" =>
            /\ mode \in {"orient", "turning"} => SpeedDue("auto_speed_10", 10)
            /\ mode \in {"run", "tofar", "returning"} => SpeedDue("auto_speed_100", 100)
            /\ mode # "landing" => AutoDue("auto_on", TRUE)
       /\ prog = "kamikaze" =>
            /\ at # "ack" => SpeedDue("auto_speed_300", 300)
            /\ mode = "tracking" => AutoDue("auto_on", TRUE)
            /\ mode # "tracking" => AutoDue("auto_off", FALSE)

\* put(): what a batch says of a kind is due from now on, what it does not say of it
\* is due as before.
LEMMA DueAfterTell ==
  ASSUME tx \in Seq(Words), NEW cmds \in Seq(Words), NEW next, Tell(cmds, next),
         link' = "up", bot' = bot
  PROVE  /\ link = "up" /\ at' = next
         /\ \A c, v : LastOf(cmds, Speeds, c) => SpeedDue(c, v)'
         /\ \A c, v : LastOf(cmds, Autos, c) => AutoDue(c, v)'
         /\ \A c, v : SpeedDue(c, v) /\ Silent(cmds, Speeds) => SpeedDue(c, v)'
         /\ \A c, v : AutoDue(c, v) /\ Silent(cmds, Autos) => AutoDue(c, v)'
<1>1. link = "up" /\ at' = next /\ tx' = tx \o cmds
  BY Sent
<1>2. ASSUME NEW S, NEW c
      PROVE  /\ LastOf(cmds, S, c) => LastOf(tx \o cmds, S, c)
             /\ LastOf(tx, S, c) /\ Silent(cmds, S) => LastOf(tx \o cmds, S, c)
             /\ Silent(tx, S) /\ Silent(cmds, S) => Silent(tx \o cmds, S)
  BY LastJoined, LastKept, SilentJoined
<1>3. \A c, v : LastOf(cmds, Speeds, c) => SpeedDue(c, v)'
  BY <1>1, <1>2 DEF SpeedDue
<1>4. \A c, v : LastOf(cmds, Autos, c) => AutoDue(c, v)'
  BY <1>1, <1>2 DEF AutoDue
<1>5. \A c, v : SpeedDue(c, v) /\ Silent(cmds, Speeds) => SpeedDue(c, v)'
  BY <1>1, <1>2 DEF SpeedDue
<1>6. \A c, v : AutoDue(c, v) /\ Silent(cmds, Autos) => AutoDue(c, v)'
  BY <1>1, <1>2 DEF AutoDue
<1> QED
  BY <1>1, <1>3, <1>4, <1>5, <1>6

\* The bot takes over the speed it is told, and keeps it otherwise.
LEMMA SpeedObeyed ==
  ASSUME NEW b \in [speed : Nat, auto : BOOLEAN], NEW c
  PROVE  /\ c = "auto_speed_10" => Told(b, c).speed = 10
         /\ c = "auto_speed_100" => Told(b, c).speed = 100
         /\ c = "auto_speed_300" => Told(b, c).speed = 300
         /\ c \notin Speeds => Told(b, c).speed = b.speed
BY DEF Told, Speeds

\* So with the autopilot's switch.
LEMMA AutoObeyed ==
  ASSUME NEW b \in [speed : Nat, auto : BOOLEAN], NEW c
  PROVE  /\ c = "auto_on" => Told(b, c).auto = TRUE
         /\ c = "auto_off" => Told(b, c).auto = FALSE
         /\ c \notin Autos => Told(b, c).auto = b.auto
BY DEF Told, Autos

\* No command leaves the bot without a speed or a switch.
LEMMA StillABot ==
  ASSUME NEW b \in [speed : Nat, auto : BOOLEAN], NEW c
  PROVE  Told(b, c) \in [speed : Nat, auto : BOOLEAN]
<1>1. CASE c \in Speeds
  BY <1>1 DEF Told, Speeds
<1>2. CASE c \in Autos
  BY <1>2 DEF Told, Autos
<1>3. CASE c \notin Speeds /\ c \notin Autos
  <2>1. Told(b, c) = b
    BY <1>3 DEF Told, Speeds, Autos
  <2> QED
    BY <2>1
<1> QED
  BY <1>1, <1>2, <1>3

\* What is due stays due while the bot takes the commands one by one.
LEMMA DueAfterTaking ==
  ASSUME tx \in Seq(Words), tx # <<>>, tx' = Tail(tx),
         bot \in [speed : Nat, auto : BOOLEAN], bot' = Told(bot, Head(tx))
  PROVE  /\ bot' \in [speed : Nat, auto : BOOLEAN]
         /\ SpeedDue("auto_speed_10", 10) => SpeedDue("auto_speed_10", 10)'
         /\ SpeedDue("auto_speed_100", 100) => SpeedDue("auto_speed_100", 100)'
         /\ SpeedDue("auto_speed_300", 300) => SpeedDue("auto_speed_300", 300)'
         /\ AutoDue("auto_on", TRUE) => AutoDue("auto_on", TRUE)'
         /\ AutoDue("auto_off", FALSE) => AutoDue("auto_off", FALSE)'
<1>1. bot' \in [speed : Nat, auto : BOOLEAN]
  BY StillABot
<1>2. \A w : /\ w = "auto_speed_10" => Told(bot, w).speed = 10
             /\ w = "auto_speed_100" => Told(bot, w).speed = 100
             /\ w = "auto_speed_300" => Told(bot, w).speed = 300
             /\ w \notin Speeds => Told(bot, w).speed = bot.speed
  BY SpeedObeyed
<1>3. \A w : /\ w = "auto_on" => Told(bot, w).auto = TRUE
             /\ w = "auto_off" => Told(bot, w).auto = FALSE
             /\ w \notin Autos => Told(bot, w).auto = bot.auto
  BY AutoObeyed
<1>4. ASSUME NEW S
      PROVE  /\ Silent(tx, S) => Head(tx) \notin S /\ Silent(tx', S)
             /\ \A c : LastOf(tx, S, c) => (Head(tx) = c /\ Silent(tx', S)) \/ LastOf(tx', S, c)
  BY SilentBeheaded, LastBeheaded
<1>5. \A c, v : Told(bot, c).speed = v /\ SpeedDue(c, v) => SpeedDue(c, v)'
  BY <1>2, <1>4, Zenon DEF SpeedDue
<1>6. \A c, v : Told(bot, c).auto = v /\ AutoDue(c, v) => AutoDue(c, v)'
  BY <1>3, <1>4, Zenon DEF AutoDue
<1>7. /\ Told(bot, "auto_speed_10").speed = 10
      /\ Told(bot, "auto_speed_100").speed = 100
      /\ Told(bot, "auto_speed_300").speed = 300
      /\ Told(bot, "auto_on").auto = TRUE
      /\ Told(bot, "auto_off").auto = FALSE
  BY <1>2, <1>3
<1> QED
  BY <1>1, <1>5, <1>6, <1>7

\* A batch with no setting of the autopilot leaves all settings due as they are.
LEMMA NothingSet ==
  ASSUME FlightInv, tx \in Seq(Words), at # "ack", NEW cmds \in Seq(Words), NEW next,
         prog # "cal_bot" => Silent(cmds, Speeds) /\ Silent(cmds, Autos),
         Tell(cmds, next), UNCHANGED <<prog, mode, bot>>
  PROVE  FlightInv'
<1>1. bot' \in [speed : Nat, auto : BOOLEAN]
  BY DEF FlightInv
<1>2. link' = "none" => link = "none"
  BY Sent
<1>3. CASE link' = "up"
  <2>1. link = "up"
    BY <1>3, DueAfterTell
  <2>2. CASE prog = "cal_bot"
    BY <1>1, <1>3, <2>2 DEF FlightInv
  <2>3. CASE prog # "cal_bot"
    <3>1. \A c, v : SpeedDue(c, v) => SpeedDue(c, v)'
      BY <1>3, <2>3, DueAfterTell
    <3>2. \A c, v : AutoDue(c, v) => AutoDue(c, v)'
      BY <1>3, <2>3, DueAfterTell
    <3> QED
      BY <1>1, <1>3, <2>1, <3>1, <3>2, ZenonT(60) DEF FlightInv
  <2> QED
    BY <2>2, <2>3
<1>4. CASE link' # "up"
  BY <1>1, <1>2, <1>4 DEF FlightInv
<1> QED
  BY <1>3, <1>4

\* What a program says when it changes its state is what the new state requires.
LEMMA FlightStep ==
  ASSUME PairInv, FlightInv, [Next]_vars
  PROVE  FlightInv'
<1>1. /\ prog \in {"target", "kamikaze", "cal_bot"} /\ mode \in Modes[prog]
      /\ tx \in Seq(Words) /\ bot \in [speed : Nat, auto : BOOLEAN]
  BY DEF PairInv, ClientTypes, FlightInv
<1>2. ASSUME at \in {"ack", "wait"}, Get PROVE link # "none"
  BY <1>2, Received
<1>3. \A next : \A cmds \in Seq(Words) :
        Tell(cmds, next) => (link' = "none" <=> link = "none")
  BY <1>1, Sent
<1>4. CASE Ack
  <2>1. PICK cmds \in {<<>>, Setup} :
          Tell(cmds, "ask") /\ cmds = IF prog # "kamikaze" THEN <<>> ELSE Setup
    BY <1>4 DEF Ack, Setup
  <2>2. cmds \in Seq(Words) /\ Silent(cmds, Autos)
        /\ (prog = "kamikaze" => LastOf(cmds, Speeds, "auto_speed_300"))
        /\ (prog # "kamikaze" => Silent(cmds, Speeds))
    BY <1>4, <2>1, Silence, SetupSays
  <2>3. UNCHANGED <<prog, mode, bot>> /\ link # "none" /\ at = "ack"
    BY <1>2, <1>4 DEF Ack
  <2>4. link' # "none"
    BY <1>3, <2>1, <2>2, <2>3
  <2>5. CASE link' = "up"
    <3>1. link = "up"
      BY <1>1, <2>1, <2>2, <2>3, <2>5, DueAfterTell
    <3>2. \A c, v : AutoDue(c, v) => AutoDue(c, v)'
      BY <1>1, <2>1, <2>2, <2>3, <2>5, DueAfterTell
    <3>3. CASE prog = "kamikaze"
      <4>1. SpeedDue("auto_speed_300", 300)'
        BY <1>1, <2>1, <2>2, <2>3, <2>5, <3>3, DueAfterTell
      <4> QED
        BY <1>1, <2>3, <2>5, <3>1, <3>2, <3>3, <4>1 DEF FlightInv
    <3>4. CASE prog # "kamikaze"
      <4>1. \A c, v : SpeedDue(c, v) => SpeedDue(c, v)'
        BY <1>1, <2>1, <2>2, <2>3, <2>5, <3>4, DueAfterTell
      <4> QED
        BY <1>1, <2>3, <2>5, <3>1, <3>2, <3>4, <4>1 DEF FlightInv
    <3> QED
      BY <3>3, <3>4
  <2> QED
    BY <1>1, <2>3, <2>4, <2>5 DEF FlightInv
<1>5. CASE Ask
  <2>1. at # "ack" /\ Tell(Batch, "wait") /\ UNCHANGED <<prog, mode, bot>>
    BY <1>5 DEF Ask
  <2>2. Batch \in Seq(Words)
        /\ (prog # "cal_bot" => Silent(Batch, Speeds) /\ Silent(Batch, Autos))
    <3>1. \A q \in Queries : /\ <<q>> \in Seq(Words)
                             /\ Silent(<<q>>, Speeds) /\ Silent(<<q>>, Autos)
      <4>1. \A q \in Queries : q \in Words /\ q \notin Speeds /\ q \notin Autos
        BY DEF Words, Queries, Speeds, Autos
      <4> QED
        BY <4>1, OneWord
    <3>2. CASE at = "again"
      <4>1. Batch = <<asked>> /\ asked \in Queries
        BY <3>2 DEF Batch, PairInv, ClientTypes
      <4> QED
        BY <3>1, <4>1
    <3>3. CASE at = "ask" /\ prog = "cal_bot"
      <4>1. Batch = Script[mode].send
        BY <3>3 DEF Batch
      <4> QED
        BY <1>1, <3>3, <4>1, ScriptAsks DEF Modes
    <3>4. CASE at = "ask" /\ prog # "cal_bot"
      <4>1. Batch \in {<<"radar_contacts">>, <<"bot_lvar">>}
        BY <3>4 DEF Batch
      <4>2. "radar_contacts" \in Queries /\ "bot_lvar" \in Queries
        BY DEF Queries
      <4> QED
        BY <3>1, <4>1, <4>2
    <3> QED
      BY <1>5, <3>2, <3>3, <3>4 DEF Ask
  <2> QED
    BY <1>1, <2>1, <2>2, NothingSet
<1>6. CASE Land
  <2>1. /\ Tell(Launch, "ask") /\ UNCHANGED <<prog, bot>> /\ prog = "target"
        /\ mode' = "run" /\ link # "none"
    BY <1>2, <1>6 DEF Land, Launch
  <2>2. link' # "none"
    BY <1>3, <2>1, LaunchSays
  <2>3. CASE link' = "up"
    <3>1. SpeedDue("auto_speed_100", 100)' /\ AutoDue("auto_on", TRUE)'
      BY <1>1, <2>1, <2>3, LaunchSays, DueAfterTell
    <3> QED
      BY <1>1, <2>1, <2>3, <3>1 DEF FlightInv
  <2> QED
    BY <1>1, <2>1, <2>2, <2>3 DEF FlightInv
<1>7. CASE Cruise
  <2>1. PICK dist \in 0..MaxDist, aligned \in BOOLEAN :
          /\ mode' = Steer(dist, aligned).to
          /\ Tell(Steer(dist, aligned).say, "ask")
    BY <1>7 DEF Cruise
  <2>2. /\ UNCHANGED <<prog, bot>> /\ prog = "target" /\ mode # "landing"
        /\ link # "none"
        /\ mode \in {"run", "tofar", "orient", "turning", "returning"}
    BY <1>1, <1>2, <1>7 DEF Cruise, Modes
  <2>3. Sensible(Steer(dist, aligned))
    BY <2>2, SteerSays
  <2>4. PICK say : /\ say = Steer(dist, aligned).say
                   /\ say \in Seq(Words) /\ Tell(say, "ask") /\ Silent(say, Autos)
                   /\ mode' \in {"run", "tofar", "orient", "turning", "returning"}
                   /\ \/ mode' \in Turning /\ LastOf(say, Speeds, "auto_speed_10")
                      \/ mode' \notin Turning /\ LastOf(say, Speeds, "auto_speed_100")
                      \/ (mode' \in Turning <=> mode \in Turning) /\ Silent(say, Speeds)
    BY <2>1, <2>3 DEF Sensible
  <2>5. link' # "none"
    BY <1>3, <2>2, <2>4
  <2>6. CASE link' = "up"
    <3>1. link = "up"
      BY <1>1, <2>2, <2>4, <2>6, DueAfterTell
    <3>2. AutoDue("auto_on", TRUE)'
      BY <1>1, <2>2, <2>4, <2>6, <3>1, DueAfterTell DEF FlightInv
    <3>3. CASE mode' \in Turning
      <4>1. SpeedDue("auto_speed_10", 10)'
        BY <1>1, <2>2, <2>4, <2>6, <3>1, <3>3, DueAfterTell DEF FlightInv, Turning
      <4> QED
        BY <1>1, <2>2, <2>4, <2>6, <3>2, <3>3, <4>1 DEF FlightInv, Turning
    <3>4. CASE mode' \notin Turning
      <4>1. SpeedDue("auto_speed_100", 100)'
        BY <1>1, <2>2, <2>4, <2>6, <3>1, <3>4, DueAfterTell DEF FlightInv, Turning
      <4> QED
        BY <1>1, <2>2, <2>4, <2>6, <3>2, <3>4, <4>1 DEF FlightInv, Turning
    <3> QED
      BY <3>3, <3>4
  <2> QED
    BY <1>1, <2>2, <2>5, <2>6 DEF FlightInv
<1>8. CASE Locate
  BY <1>1, <1>8, Silence, NothingSet DEF Locate
<1>9. CASE Hunt
  <2>1. /\ UNCHANGED <<prog, bot>> /\ prog = "kamikaze" /\ at # "ack"
        /\ link # "none" /\ mode \in {"new", "tracking", "searching"}
    BY <1>1, <1>2, <1>9 DEF Hunt, Modes
  <2>2. PICK cmds \in {Chase \o Aim, <<>> \o Aim, Halt, <<>>} :
          /\ Tell(cmds, "ask")
          /\ \/ mode' = "tracking" /\ mode # "tracking" /\ cmds = Chase \o Aim
             \/ mode' = "tracking" /\ mode = "tracking" /\ cmds = <<>> \o Aim
             \/ mode' = "searching" /\ mode = "searching" /\ cmds = <<>>
             \/ mode' = "searching" /\ cmds = Halt
    BY <1>9 DEF Hunt, Chase, Aim, Halt
  <2>3. /\ <<>> \in Seq(Words) /\ Silent(<<>>, Speeds) /\ Silent(<<>>, Autos)
        /\ Chase \in Seq(Words) /\ Silent(Chase, Speeds)
        /\ LastOf(Chase, Autos, "auto_on")
        /\ Aim \in Seq(Words) /\ Silent(Aim, Speeds) /\ Silent(Aim, Autos)
        /\ Halt \in Seq(Words) /\ Silent(Halt, Speeds) /\ LastOf(Halt, Autos, "auto_off")
    BY Silence, HuntSays
  <2>4. /\ Chase \o Aim \in Seq(Words) /\ Silent(Chase \o Aim, Speeds)
        /\ LastOf(Chase \o Aim, Autos, "auto_on")
        /\ <<>> \o Aim \in Seq(Words) /\ Silent(<<>> \o Aim, Speeds)
        /\ Silent(<<>> \o Aim, Autos)
    BY <2>3, SentAfter, SilentJoined, LastKept
  <2>5. cmds \in Seq(Words) /\ Silent(cmds, Speeds)
    BY <2>2, <2>3, <2>4
  <2>6. \/ mode' = "tracking" /\ LastOf(cmds, Autos, "auto_on")
        \/ mode' = "tracking" /\ mode = "tracking" /\ Silent(cmds, Autos)
        \/ mode' = "searching" /\ LastOf(cmds, Autos, "auto_off")
        \/ mode' = "searching" /\ mode = "searching" /\ Silent(cmds, Autos)
    BY <2>2, <2>3, <2>4, Zenon
  <2>7. link' # "none"
    BY <1>3, <2>1, <2>2, <2>5
  <2>8. CASE link' = "up"
    <3>1. link = "up"
      BY <1>1, <2>1, <2>2, <2>5, <2>8, DueAfterTell
    <3>2. SpeedDue("auto_speed_300", 300)'
      BY <1>1, <2>1, <2>2, <2>5, <2>8, <3>1, DueAfterTell DEF FlightInv
    <3>3. CASE mode' = "tracking"
      <4>1. AutoDue("auto_on", TRUE)'
        BY <1>1, <2>1, <2>2, <2>5, <2>6, <2>8, <3>1, <3>3, DueAfterTell DEF FlightInv
      <4> QED
        BY <1>1, <2>1, <2>8, <3>2, <3>3, <4>1 DEF FlightInv
    <3>4. CASE mode' = "searching"
      <4>1. AutoDue("auto_off", FALSE)'
        BY <1>1, <2>1, <2>2, <2>5, <2>6, <2>8, <3>1, <3>4, DueAfterTell DEF FlightInv
      <4> QED
        BY <1>1, <2>1, <2>8, <3>2, <3>4, <4>1 DEF FlightInv
    <3> QED
      BY <2>6, <3>3, <3>4
  <2> QED
    BY <1>1, <2>1, <2>7, <2>8 DEF FlightInv
<1>10. CASE Measure
  <2>1. prog = "cal_bot" /\ UNCHANGED <<prog, bot>> /\ link # "none"
    BY <1>2, <1>10 DEF Measure
  <2>2. link' # "none"
    BY <1>3, <1>10, <2>1, Silence DEF Measure, Quit
  <2> QED
    BY <1>1, <2>1, <2>2 DEF FlightInv
<1>11. CASE GetFails
  <2>1. link' # "none" /\ link' # "up" /\ UNCHANGED bot
    BY <1>11 DEF GetFails, Quit
  <2> QED
    BY <1>1, <2>1 DEF FlightInv
<1>12. CASE Connect
  <2>1. /\ link = "none" /\ link' = "up" /\ tx = <<>> /\ at = "ack"
        /\ UNCHANGED <<prog, mode, at, tx, bot>>
    BY <1>12 DEF Connect, client, PairInv
  <2>2. Silent(tx', Autos) /\ bot.auto = FALSE
    BY <2>1, Silence DEF FlightInv
  <2>3. AutoDue("auto_off", FALSE)'
    BY <2>1, <2>2 DEF AutoDue
  <2> QED
    BY <1>1, <2>1, <2>3 DEF FlightInv
<1>13. CASE ConnectFails
  <2>1. link' # "up" /\ UNCHANGED <<prog, mode, bot>> /\ link = "none"
    BY <1>13 DEF ConnectFails, Quit
  <2> QED
    BY <1>1, <2>1 DEF FlightInv
<1>14. CASE WorkerReads
  BY <1>14 DEF WorkerReads, client, FlightInv, SpeedDue, AutoDue
<1>15. CASE WorkerEnds
  BY <1>15 DEF WorkerEnds, client, FlightInv, SpeedDue, AutoDue
<1>16. CASE BotTakes
  <2>1. /\ UNCHANGED <<prog, mode, at, link>> /\ tx # <<>> /\ tx' = Tail(tx)
        /\ bot' = Told(bot, Head(tx)) /\ link = "up"
    BY <1>16 DEF BotTakes, client
  <2>2. /\ bot' \in [speed : Nat, auto : BOOLEAN]
        /\ SpeedDue("auto_speed_10", 10) => SpeedDue("auto_speed_10", 10)'
        /\ SpeedDue("auto_speed_100", 100) => SpeedDue("auto_speed_100", 100)'
        /\ SpeedDue("auto_speed_300", 300) => SpeedDue("auto_speed_300", 300)'
        /\ AutoDue("auto_on", TRUE) => AutoDue("auto_on", TRUE)'
        /\ AutoDue("auto_off", FALSE) => AutoDue("auto_off", FALSE)'
    BY <1>1, <2>1, DueAfterTaking
  <2>3. UNCHANGED <<prog, mode, at>> /\ link = "up" /\ link' = "up"
    BY <2>1
  <2>4. CASE prog = "target"
    BY <2>2, <2>3, <2>4 DEF FlightInv
  <2>5. CASE prog = "kamikaze"
    BY <2>2, <2>3, <2>5 DEF FlightInv
  <2>6. CASE prog = "cal_bot"
    BY <2>2, <2>3, <2>6 DEF FlightInv
  <2> QED
    BY <1>1, <2>4, <2>5, <2>6
<1>17. CASE LinkDrops
  BY <1>17 DEF LinkDrops, client, FlightInv
<1>18. CASE UNCHANGED vars
  BY <1>18 DEF vars, client, FlightInv, SpeedDue, AutoDue
<1> QED
  BY <1>4, <1>5, <1>6, <1>7, <1>8, <1>9, <1>10, <1>11, <1>12, <1>13, <1>14, <1>15,
     <1>16, <1>17, <1>18 DEF Next, Main

\* A bot that has taken all commands flies as the state of its program requires:
\* target's is slow from before it turns until it is aligned and only then,
\* kamikaze's is under way while it tracks and only then.
THEOREM BotFliesAsTold == Spec => []BotObeys
<1>1. Init => FlightInv
  BY ClientAssumption DEF Init, FlightInv
<1>2. PairInv /\ FlightInv /\ [Next]_vars => FlightInv'
  BY FlightStep
<1>3. PairInv /\ FlightInv => BotObeys
  <2> SUFFICES ASSUME PairInv, FlightInv, link = "up", tx = <<>>, at # "ack"
               PROVE  /\ prog = "target" /\ mode # "landing" =>
                           bot = [speed |-> IF mode \in {"orient", "turning"} THEN 10
                                            ELSE 100, auto |-> TRUE]
                      /\ prog = "kamikaze" =>
                           bot = [speed |-> 300, auto |-> mode = "tracking"]
    BY DEF BotObeys
  <2>1. \A S, c : ~LastOf(tx, S, c)
    BY DEF LastOf
  <2>2. /\ \A c, v : SpeedDue(c, v) => bot.speed = v
        /\ \A c, v : AutoDue(c, v) => bot.auto = v
    BY <2>1 DEF SpeedDue, AutoDue
  <2>3. /\ bot \in [speed : Nat, auto : BOOLEAN] /\ mode \in Modes[prog]
    BY DEF FlightInv, PairInv, ClientTypes
  <2>4. bot = [speed |-> bot.speed, auto |-> bot.auto]
    BY <2>3
  <2>5. ASSUME prog = "target", mode # "landing"
        PROVE  bot.speed = (IF mode \in {"orient", "turning"} THEN 10 ELSE 100)
               /\ bot.auto = TRUE
    BY <2>2, <2>3, <2>5 DEF FlightInv, Modes
  <2>6. ASSUME prog = "kamikaze" PROVE bot.speed = 300 /\ bot.auto = (mode = "tracking")
    BY <2>2, <2>3, <2>6 DEF FlightInv, Modes
  <2> QED
    BY <2>4, <2>5, <2>6
<1> QED
  BY <1>1, <1>2, <1>3, AnswersMatched, PTL DEF Spec

-----------------------------------------------------------------------------
(* Induction over numbers, from the least one of a set *)

\* A set of numbers that has any has a least one.
LEMMA LeastNumber ==
  ASSUME NEW T \in SUBSET Nat, T # {}
  PROVE  \E m \in T : \A k \in T : m <= k
<1> DEFINE R == OpToRel(<, Nat)
<1>1. IsWellFoundedOn(R, Nat)
  BY NatLessThanWellFounded
<1>2. R = {ss \in Nat \X Nat : ss[1] < ss[2]}
  BY DEF OpToRel
<1> HIDE DEF R
<1>3. PICK m \in T : \A k \in T : ~(<<k, m>> \in R)
  BY <1>1, WFMin
<1>4. \A k \in T : ~(k < m)
  BY <1>2, <1>3
<1> QED
  BY <1>4

\* A set of numbers that has 0, and with each number the next, has them all.
LEMMA NumberInduction ==
  ASSUME NEW S, 0 \in S, \A n \in Nat : n \in S => n + 1 \in S
  PROVE  Nat \subseteq S
<1> SUFFICES ASSUME Nat \ S # {} PROVE FALSE
  OBVIOUS
<1>1. PICK m \in Nat \ S : \A k \in Nat \ S : m <= k
  BY LeastNumber
<1>2. m # 0 /\ m - 1 \in Nat /\ ~(m - 1 \in Nat \ S)
  BY <1>1
<1> QED
  BY <1>2

\* Upwards and downwards in a range.
LEMMA RangeInduction ==
  ASSUME NEW N \in Nat, NEW S, 0 \in S, \A n \in 0..(N - 1) : n \in S => n + 1 \in S
  PROVE  0..N \subseteq S
<1> DEFINE U == {n \in Nat : n <= N => n \in S}
<1>1. 0 \in U
  OBVIOUS
<1>2. \A n \in Nat : n \in U => n + 1 \in U
  OBVIOUS
<1> HIDE DEF U
<1>3. Nat \subseteq U
  BY <1>1, <1>2, NumberInduction
<1> QED
  BY <1>3 DEF U

\* From the last number of a range down to 0.
LEMMA DownwardInduction ==
  ASSUME NEW N \in Nat, NEW S, N \in S, \A n \in 1..N : n \in S => n - 1 \in S
  PROVE  0..N \subseteq S
<1> DEFINE U == {n \in 0..N : N - n \in S}
<1>1. 0 \in U
  OBVIOUS
<1>2. \A n \in 0..(N - 1) : n \in U => n + 1 \in U
  <2> TAKE n \in 0..(N - 1)
  <2> HAVE n \in U
  <2>1. N - n \in 1..N /\ N - n \in S
    OBVIOUS
  <2>2. (N - n) - 1 \in S
    BY <2>1
  <2>3. (N - n) - 1 = N - (n + 1)
    OBVIOUS
  <2> QED
    BY <2>2, <2>3
<1> HIDE DEF U
<1>3. 0..N \subseteq U
  BY <1>1, <1>2, RangeInduction
<1>4. \A n \in 0..N : N - n \in 0..N /\ N - (N - n) = n
  OBVIOUS
<1>5. \A n \in 0..N : N - (N - n) \in S
  BY <1>3, <1>4 DEF U
<1> QED
  BY <1>4, <1>5

-----------------------------------------------------------------------------
(* Recursive functions exist *)

\* A loop: step n makes the n-th value of the one before.
Loops(f, N, v0, step) == f = [n \in 0..N |-> IF n = 0 THEN v0 ELSE step[<<n, f[n - 1]>>]]

\* Such a loop has a result.
LEMMA LoopExists ==
  ASSUME NEW V, NEW N \in Nat, NEW v0 \in V, NEW step, step \in [(1..N) \X V -> V]
  PROVE  \E f \in [0..N -> V] : Loops(f, N, v0, step)
<1> DEFINE Runs(f, m) == /\ f \in [0..m -> V] /\ f[0] = v0
                         /\ \A n \in 1..m : f[n] = step[<<n, f[n - 1]>>]
           S == {m \in 0..N : \E f : Runs(f, m)}
<1>1. 0 \in S
  <2>1. Runs([n \in 0..0 |-> v0], 0)
    OBVIOUS
  <2> HIDE DEF Runs
  <2> QED
    BY <2>1
<1>2. \A m \in 0..(N - 1) : m \in S => m + 1 \in S
  <2> TAKE m \in 0..(N - 1)
  <2> HAVE m \in S
  <2>1. PICK f : Runs(f, m)
    OBVIOUS
  <2> DEFINE g == [n \in 0..(m + 1) |-> IF n = m + 1 THEN step[<<m + 1, f[m]>>] ELSE f[n]]
  <2>2. step[<<m + 1, f[m]>>] \in V
    BY <2>1
  <2>3. g \in [0..(m + 1) -> V] /\ g[0] = v0
    BY <2>1, <2>2
  <2>4. ASSUME NEW n \in 1..(m + 1)
        PROVE  g[n] = step[<<n, g[n - 1]>>]
    <3>1. CASE n = m + 1
      <4>1. n - 1 = m /\ m \in 0..(m + 1) /\ m # m + 1
        BY <3>1
      <4>2. g[n - 1] = f[m]
        BY <4>1
      <4>3. g[n] = step[<<m + 1, f[m]>>]
        BY <3>1
      <4> QED
        BY <3>1, <4>2, <4>3
    <3>2. CASE n \in 1..m
      <4>1. n \in 0..(m + 1) /\ n # m + 1 /\ n - 1 \in 0..(m + 1) /\ n - 1 # m + 1
        BY <3>2
      <4>2. g[n] = f[n] /\ g[n - 1] = f[n - 1]
        BY <4>1
      <4> HIDE DEF g
      <4> QED
        BY <2>1, <3>2, <4>2
    <3> QED
      BY <3>1, <3>2
  <2> HIDE DEF g
  <2>5. Runs(g, m + 1)
    BY <2>3, <2>4
  <2> QED
    BY <2>5
<1>3. N \in S
  <2> HIDE DEF S
  <2> QED
    BY <1>1, <1>2, RangeInduction
<1>4. PICK f : Runs(f, N)
  BY <1>3
<1>5. f = [n \in 0..N |-> IF n = 0 THEN v0 ELSE step[<<n, f[n - 1]>>]]
  BY <1>4
<1> QED
  BY <1>4, <1>5 DEF Loops

\* A scan: each place has its own piece, and after it what a later place has.
Scans(f, N, jump, pre, last) ==
  f = [i \in 1..N |-> IF jump[i] = 0 THEN last[i] ELSE pre[i] \o f[jump[i]]]

Forward(N, jump) == /\ jump \in [1..N -> Nat]
                    /\ \A i \in 1..N : jump[i] = 0 \/ jump[i] \in (i + 1)..N

\* A scan that only goes on has a result.
LEMMA ScanExists ==
  ASSUME NEW V, NEW N \in Nat, NEW jump, Forward(N, jump),
         NEW pre \in [1..N -> Seq(V)], NEW last \in [1..N -> Seq(V)]
  PROVE  \E f \in [1..N -> Seq(V)] : Scans(f, N, jump, pre, last)
<1> DEFINE Fits(f, m) ==
             /\ f \in [m..N -> Seq(V)]
             /\ \A i \in m..N :
                  f[i] = IF jump[i] = 0 THEN last[i] ELSE pre[i] \o f[jump[i]]
           S == {m \in 0..N : \E f : Fits(f, m + 1)}
<1> USE DEF Forward
<1>1. N \in S
  <2>1. Fits([i \in {} |-> <<>>], N + 1)
    <3>1. (N + 1)..N = {}
      OBVIOUS
    <3> QED
      BY <3>1
  <2> HIDE DEF Fits
  <2> QED
    BY <2>1
<1>2. \A m \in 1..N : m \in S => m - 1 \in S
  <2> TAKE m \in 1..N
  <2> HAVE m \in S
  <2>1. PICK f : Fits(f, m + 1)
    OBVIOUS
  <2> DEFINE new == IF jump[m] = 0 THEN last[m] ELSE pre[m] \o f[jump[m]]
             g == [i \in m..N |-> IF i = m THEN new ELSE f[i]]
  <2>2. new \in Seq(V)
    <3>1. CASE jump[m] = 0
      BY <3>1
    <3>2. CASE jump[m] \in (m + 1)..N
      BY <2>1, <3>2
    <3> QED
      BY <3>1, <3>2
  <2> HIDE DEF new
  <2>3. g \in [m..N -> Seq(V)]
    BY <2>1, <2>2
  <2>4. \A i \in (m + 1)..N : g[i] = f[i]
    OBVIOUS
  <2>5. g[m] = new
    OBVIOUS
  <2> HIDE DEF g
  <2>6. \A i \in m..N : g[i] = IF jump[i] = 0 THEN last[i] ELSE pre[i] \o g[jump[i]]
    <3> TAKE i \in m..N
    <3>1. jump[i] = 0 \/ jump[i] \in (m + 1)..N
      OBVIOUS
    <3>2. CASE i = m
      BY <2>4, <2>5, <3>1, <3>2 DEF new
    <3>3. CASE i \in (m + 1)..N
      BY <2>1, <2>4, <3>1, <3>3
    <3> QED
      BY <3>2, <3>3
  <2>7. (m - 1) + 1 = m /\ m - 1 \in 0..N
    OBVIOUS
  <2>8. Fits(g, m)
    BY <2>3, <2>6
  <2> HIDE DEF Fits
  <2>9. \E h : Fits(h, (m - 1) + 1)
    <3> WITNESS g
    <3> QED
      BY <2>7, <2>8
  <2> QED
    BY <2>7, <2>9
<1>3. 0 \in S
  <2> HIDE DEF S
  <2>1. 0..N \subseteq S
    BY <1>1, <1>2, DownwardInduction
  <2> QED
    BY <2>1
<1>4. PICK f : Fits(f, 1)
  <2> HIDE DEF Fits
  <2> QED
    BY <1>3
<1>5. /\ f \in [1..N -> Seq(V)]
      /\ \A i \in 1..N : f[i] = IF jump[i] = 0 THEN last[i] ELSE pre[i] \o f[jump[i]]
  BY <1>4
<1>6. Scans(f, N, jump, pre, last)
  BY <1>5 DEF Scans
<1> QED
  BY <1>5, <1>6

\* And no other.
LEMMA ScanUnique ==
  ASSUME NEW N \in Nat, NEW jump, Forward(N, jump), NEW pre, NEW last,
         NEW f, Scans(f, N, jump, pre, last), NEW g, Scans(g, N, jump, pre, last)
  PROVE  f = g
<1> DEFINE S == {m \in 0..N : \A i \in (m + 1)..N : f[i] = g[i]}
<1>1. N \in S
  OBVIOUS
<1>2. \A m \in 1..N : m \in S => m - 1 \in S
  <2> TAKE m \in 1..N
  <2> HAVE m \in S
  <2>1. f[m] = (IF jump[m] = 0 THEN last[m] ELSE pre[m] \o f[jump[m]])
    BY DEF Scans
  <2>2. g[m] = (IF jump[m] = 0 THEN last[m] ELSE pre[m] \o g[jump[m]])
    BY DEF Scans
  <2>3. jump[m] = 0 \/ jump[m] \in (m + 1)..N
    BY DEF Forward
  <2>4. f[m] = g[m]
    BY <2>1, <2>2, <2>3
  <2>5. \A i \in ((m - 1) + 1)..N : i = m \/ i \in (m + 1)..N
    OBVIOUS
  <2> QED
    BY <2>4, <2>5
<1>3. 0 \in S
  <2> HIDE DEF S
  <2>1. 0..N \subseteq S
    BY <1>1, <1>2, DownwardInduction
  <2> QED
    BY <2>1
<1>4. \A i \in 1..N : f[i] = g[i]
  BY <1>3
<1> QED
  BY <1>4 DEF Scans

\* Two scans that make the same pieces, the one a place further on, agree.
Ahead(N, jf, pf, lf, jg, pg, lg) ==
  \A i \in 1..N : /\ jg[i] = 0 => jf[i + 1] = 0 /\ lf[i + 1] = lg[i]
                  /\ jg[i] # 0 => jf[i + 1] = jg[i] + 1 /\ pf[i + 1] = pg[i]

\* A scan of a text one character longer is, from the next place on, the scan of the text.
LEMMA ScanShift ==
  ASSUME NEW N \in Nat,
         NEW f, NEW jf, NEW pf, NEW lf, Scans(f, N + 1, jf, pf, lf),
         NEW g, NEW jg, NEW pg, NEW lg, Scans(g, N, jg, pg, lg), Forward(N, jg),
         Ahead(N, jf, pf, lf, jg, pg, lg)
  PROVE  \A i \in 1..N : f[i + 1] = g[i]
<1> DEFINE S == {m \in 0..N : \A i \in (m + 1)..N : f[i + 1] = g[i]}
<1>1. N \in S
  OBVIOUS
<1>2. \A m \in 1..N : m \in S => m - 1 \in S
  <2> TAKE m \in 1..N
  <2> HAVE m \in S
  <2>0. m + 1 \in 1..(N + 1) /\ (jg[m] = 0 \/ jg[m] \in (m + 1)..N)
    BY DEF Forward
  <2>1. g[m] = (IF jg[m] = 0 THEN lg[m] ELSE pg[m] \o g[jg[m]])
    BY DEF Scans
  <2>2. f[m + 1] = (IF jf[m + 1] = 0 THEN lf[m + 1] ELSE pf[m + 1] \o f[jf[m + 1]])
    BY <2>0 DEF Scans
  <2>3. f[m + 1] = g[m]
    <3>1. CASE jg[m] = 0
      <4>1. jf[m + 1] = 0 /\ lf[m + 1] = lg[m]
        BY <3>1 DEF Ahead
      <4> QED
        BY <2>1, <2>2, <3>1, <4>1
    <3>2. CASE jg[m] \in (m + 1)..N
      <4>1. f[jg[m] + 1] = g[jg[m]]
        BY <3>2
      <4>2. jg[m] # 0 /\ jf[m + 1] = jg[m] + 1 /\ pf[m + 1] = pg[m] /\ jf[m + 1] # 0
        BY <3>2 DEF Ahead
      <4> QED
        BY <2>1, <2>2, <4>1, <4>2
    <3> QED
      BY <2>0, <3>1, <3>2
  <2>4. \A i \in ((m - 1) + 1)..N : i = m \/ i \in (m + 1)..N
    OBVIOUS
  <2> QED
    BY <2>3, <2>4
<1>3. 0 \in S
  <2> HIDE DEF S
  <2>1. 0..N \subseteq S
    BY <1>1, <1>2, DownwardInduction
  <2> QED
    BY <2>1
<1> QED
  BY <1>3

-----------------------------------------------------------------------------
(* The texts: least and greatest places, and texts one character longer *)

\* Min and Max are what they say.
LEMMA MinIs ==
  ASSUME NEW T \in SUBSET Nat, T # {}
  PROVE  Min(T) \in T /\ \A k \in T : Min(T) <= k
BY LeastNumber DEF Min

\* An element not above the others is the Min.
LEMMA MinOf ==
  ASSUME NEW T \in SUBSET Nat, NEW m \in T, \A k \in T : m <= k
  PROVE  Min(T) = m
<1>1. Min(T) \in T /\ \A k \in T : Min(T) <= k
  BY MinIs
<1>2. Min(T) <= m /\ m <= Min(T) /\ Min(T) \in Nat /\ m \in Nat
  BY <1>1
<1> QED
  BY <1>2

\* An element not below the others is the Max.
LEMMA MaxOf ==
  ASSUME NEW T \in SUBSET Nat, NEW m \in T, \A k \in T : k <= m
  PROVE  Max(T) = m
<1>1. Max(T) \in T /\ \A k \in T : Max(T) >= k
  BY DEF Max
<1>2. m <= Max(T) /\ Max(T) <= m /\ Max(T) \in Nat /\ m \in Nat
  BY <1>1
<1> QED
  BY <1>2

\* A bounded set has its Max.
LEMMA MaxIs ==
  ASSUME NEW N \in Nat, NEW T \in SUBSET (0..N), T # {}
  PROVE  Max(T) \in T /\ \A k \in T : k <= Max(T)
<1> DEFINE U == {n \in Nat : \A k \in T : k <= n}
<1>1. N \in U
  OBVIOUS
<1>2. PICK m \in U : \A n \in U : m <= n
  BY <1>1, LeastNumber
<1>3. m \in T
  <2> SUFFICES ASSUME m \notin T PROVE FALSE
    OBVIOUS
  <2>1. \A k \in T : k <= m - 1
    BY <1>2
  <2>2. m - 1 \in Nat
    <3>1. PICK k \in T : k <= m - 1
      BY <2>1
    <3>2. k \in Nat /\ m \in Nat
      OBVIOUS
    <3> QED
      BY <3>1, <3>2
  <2>3. m - 1 \in U
    BY <2>1, <2>2
  <2> QED
    BY <1>2, <2>3
<1>4. Max(T) = m
  BY <1>2, <1>3, MaxOf
<1> QED
  BY <1>2, <1>3, <1>4

\* A character and a text behind it.
LEMMA ConsIs ==
  ASSUME NEW V, NEW a \in V, NEW y \in Seq(V)
  PROVE  /\ Cons(a, y) \in Seq(V) /\ Cons(a, y) # <<>>
         /\ Len(Cons(a, y)) = Len(y) + 1
         /\ Cons(a, y)[1] = a
         /\ \A i \in 1..Len(y) : Cons(a, y)[i + 1] = y[i]
         /\ Cons(a, y) = <<a>> \o y
BY DEF Cons

\* Characters are characters.
LEMMA Elements ==
  ASSUME NEW V, NEW s \in Seq(V)
  PROVE  \A i \in 1..Len(s) : s[i] \in V
OBVIOUS

\* A text behind a text.
LEMMA ConcatIs ==
  ASSUME NEW V, NEW s \in Seq(V), NEW t \in Seq(V)
  PROVE  /\ s \o t \in Seq(V) /\ Len(s \o t) = Len(s) + Len(t)
         /\ \A i \in 1..Len(s) : (s \o t)[i] = s[i]
         /\ \A i \in 1..Len(t) : (s \o t)[Len(s) + i] = t[i]
OBVIOUS

\* What the empty text has, and each text one character longer than one that has it, all texts have.
LEMMA TextInduction ==
  ASSUME NEW V, NEW S, <<>> \in S,
         \A a \in V : \A y \in Seq(V) : y \in S => Cons(a, y) \in S
  PROVE  Seq(V) \subseteq S
<1> DEFINE U == {n \in Nat : \A s \in Seq(V) : Len(s) = n => s \in S}
<1>1. 0 \in U
  <2>1. \A s \in Seq(V) : Len(s) = 0 => s = <<>>
    OBVIOUS
  <2> QED
    BY <2>1
<1>2. \A n \in Nat : n \in U => n + 1 \in U
  <2> TAKE n \in Nat
  <2> HAVE n \in U
  <2> SUFFICES ASSUME NEW s \in Seq(V), Len(s) = n + 1
               PROVE  s \in S
    OBVIOUS
  <2>1. /\ s[1] \in V /\ Tail(s) \in Seq(V) /\ Len(Tail(s)) = n
        /\ s = Cons(s[1], Tail(s))
    BY DEF Cons
  <2> QED
    BY <2>1
<1> HIDE DEF U
<1>3. Nat \subseteq U
  BY <1>1, <1>2, NumberInduction
<1>4. \A s \in Seq(V) : Len(s) \in U
  BY <1>3
<1> QED
  BY <1>4 DEF U

\* A text with a character is that character and the rest.
LEMMA TextSplit ==
  ASSUME NEW V, NEW s \in Seq(V), s # <<>>
  PROVE  \E a \in V, y \in Seq(V) : s = Cons(a, y)
<1>1. /\ s[1] \in V /\ Tail(s) \in Seq(V)
      /\ s = Cons(s[1], Tail(s))
  BY DEF Cons
<1> QED
  BY <1>1

\* The parts of a text one character longer.
LEMMA ConsParts ==
  ASSUME NEW V, NEW a \in V, NEW y \in Seq(V)
  PROVE  /\ \A i \in 1..(Len(y) + 1) : Rest(<<a>> \o y, i + 1) = Rest(y, i)
         /\ \A i \in 1..(Len(y) + 1), j \in 0..Len(y) :
              SubSeq(<<a>> \o y, i + 1, j + 1) = SubSeq(y, i, j)
         /\ \A j \in 0..Len(y) : SubSeq(<<a>> \o y, 1, j + 1) = <<a>> \o SubSeq(y, 1, j)
         /\ Rest(<<a>> \o y, 1) = <<a>> \o y
         /\ Rest(<<a>> \o y, Len(y) + 2) = <<>>
BY DEF Rest

-----------------------------------------------------------------------------
(* string::find() *)

\* Where a text has another in it, from a place on.
Hits(s, f, i) == {j \in i..(Len(s) - Len(f) + 1) : SubSeq(s, j, j + Len(f) - 1) = f}

\* find() returns the first place of all, or 0.
LEMMA FindIs ==
  ASSUME NEW V, NEW s \in Seq(V), NEW f \in Seq(V), NEW i \in Nat \ {0}
  PROVE  /\ Hits(s, f, i) = {} <=> Find(s, f, i) = 0
         /\ Hits(s, f, i) # {} => /\ Find(s, f, i) \in Hits(s, f, i)
                                  /\ \A k \in Hits(s, f, i) : Find(s, f, i) <= k
         /\ Find(s, f, i) \in Nat
         /\ Find(s, f, i) # 0 => Find(s, f, i) \in i..(Len(s) - Len(f) + 1)
<1>1. Find(s, f, i) = IF Hits(s, f, i) = {} THEN 0 ELSE Min(Hits(s, f, i))
  BY DEF Find, Hits
<1>2. Hits(s, f, i) \in SUBSET Nat /\ Hits(s, f, i) \subseteq i..(Len(s) - Len(f) + 1)
  BY DEF Hits
<1>3. CASE Hits(s, f, i) = {}
  BY <1>1, <1>3
<1>4. CASE Hits(s, f, i) # {}
  <2>1. /\ Find(s, f, i) \in Hits(s, f, i)
        /\ \A k \in Hits(s, f, i) : Find(s, f, i) <= k
    BY <1>1, <1>2, <1>4, MinIs
  <2>2. Find(s, f, i) \in i..(Len(s) - Len(f) + 1)
    BY <1>2, <2>1
  <2>3. Find(s, f, i) \in Nat /\ Find(s, f, i) # 0
    BY <2>2
  <2> QED
    BY <1>4, <2>1, <2>2, <2>3
<1> QED
  BY <1>3, <1>4

\* The first place is what find() returns.
LEMMA FindOf ==
  ASSUME NEW V, NEW s \in Seq(V), NEW f \in Seq(V), NEW i \in Nat \ {0},
         NEW m \in Hits(s, f, i), \A k \in Hits(s, f, i) : m <= k
  PROVE  Find(s, f, i) = m
<1>1. Find(s, f, i) \in Hits(s, f, i) /\ Find(s, f, i) <= m
  BY FindIs
<1>2. m <= Find(s, f, i)
  BY <1>1
<1>3. m \in Int /\ Find(s, f, i) \in Int
  BY <1>1 DEF Hits
<1> QED
  BY <1>1, <1>2, <1>3

\* With a character in front, what is found is a place further on.
LEMMA FindShift ==
  ASSUME NEW V, NEW a \in V, NEW y \in Seq(V), NEW f \in Seq(V) \ {<<>>}, NEW i \in 1..(Len(y) + 1)
  PROVE  Find(Cons(a, y), f, i + 1) = IF Find(y, f, i) = 0 THEN 0 ELSE Find(y, f, i) + 1
<1> DEFINE t == <<a>> \o y
           L == Len(f)
           n == Len(y)
<1>1. t \in Seq(V) /\ Len(t) = n + 1 /\ L \in Nat \ {0} /\ n \in Nat
  BY ConsIs DEF Cons
<1>0. \A k \in 1..(n + 1), j \in 0..n : SubSeq(t, k + 1, j + 1) = SubSeq(y, k, j)
  BY ConsParts
<1> HIDE DEF t, L
<1>2. \A j \in 1..(n - L + 1) :
        SubSeq(t, j + 1, (j + 1) + L - 1) = SubSeq(y, j, j + L - 1)
  <2> TAKE j \in 1..(n - L + 1)
  <2>1. j \in 1..(n + 1) /\ j + L - 1 \in 0..n /\ (j + 1) + L - 1 = (j + L - 1) + 1
    BY <1>1
  <2> HIDE DEF n
  <2> QED
    BY <1>0, <2>1
<1>3. Hits(y, f, i) = {j \in i..(n - L + 1) : SubSeq(y, j, j + L - 1) = f}
  BY DEF Hits, L
<1>4. Hits(t, f, i + 1) = {j \in (i + 1)..(n - L + 2) : SubSeq(t, j, j + L - 1) = f}
  <2>1. (n + 1) - L + 1 = n - L + 2
    BY <1>1
  <2> QED
    BY <1>1, <2>1 DEF Hits, L
<1>5. i \in Nat \ {0} /\ i + 1 \in Nat \ {0}
  OBVIOUS
<1> HIDE DEF n
<1>6. \A j \in Hits(y, f, i) : j + 1 \in Hits(t, f, i + 1)
  <2> TAKE j \in Hits(y, f, i)
  <2>1. j \in i..(n - L + 1) /\ SubSeq(y, j, j + L - 1) = f
    BY <1>3
  <2>2. j \in 1..(n - L + 1) /\ j + 1 \in (i + 1)..(n - L + 2)
    BY <1>1, <1>5, <2>1
  <2>3. SubSeq(t, j + 1, (j + 1) + L - 1) = f
    BY <1>2, <2>1, <2>2
  <2> QED
    BY <1>4, <2>2, <2>3
<1>7. \A j \in Hits(t, f, i + 1) : j - 1 \in Hits(y, f, i)
  <2> TAKE j \in Hits(t, f, i + 1)
  <2>1. j \in (i + 1)..(n - L + 2) /\ SubSeq(t, j, j + L - 1) = f
    BY <1>4
  <2>2. j - 1 \in 1..(n - L + 1) /\ j - 1 \in i..(n - L + 1) /\ (j - 1) + 1 = j
    BY <1>1, <1>5, <2>1
  <2>3. SubSeq(y, j - 1, (j - 1) + L - 1) = f
    BY <1>2, <2>1, <2>2
  <2> QED
    BY <1>3, <2>2, <2>3
<1>8. CASE Hits(y, f, i) = {}
  <2>1. Hits(t, f, i + 1) = {}
    BY <1>7, <1>8
  <2> QED
    BY <1>1, <1>5, <1>8, <2>1, FindIs DEF t, Cons
<1>9. CASE Hits(y, f, i) # {}
  <2> DEFINE m == Find(y, f, i)
  <2>1. m \in Hits(y, f, i) /\ m \in Nat /\ m # 0 /\ \A k \in Hits(y, f, i) : m <= k
    BY <1>5, <1>9, FindIs
  <2> HIDE DEF m
  <2>2. m + 1 \in Hits(t, f, i + 1)
    BY <1>6, <2>1
  <2>3. \A k \in Hits(t, f, i + 1) : m + 1 <= k
    <3> TAKE k \in Hits(t, f, i + 1)
    <3>1. m <= k - 1 /\ k \in Int
      BY <1>4, <1>7, <2>1
    <3> QED
      BY <2>1, <3>1
  <2>4. Find(t, f, i + 1) = m + 1
    BY <1>1, <1>5, <2>2, <2>3, FindOf
  <2> QED
    BY <2>1, <2>4 DEF m, t, Cons
<1> QED
  BY <1>8, <1>9

\* At the front.
LEMMA FindFront ==
  ASSUME NEW V, NEW t \in Seq(V), NEW f \in Seq(V) \ {<<>>}
  PROVE  /\ Len(f) <= Len(t) /\ SubSeq(t, 1, Len(f)) = f => Find(t, f, 1) = 1
         /\ ~(Len(f) <= Len(t) /\ SubSeq(t, 1, Len(f)) = f) => Find(t, f, 1) = Find(t, f, 2)
<1>1. Len(f) \in Nat \ {0} /\ 1 + Len(f) - 1 = Len(f)
  OBVIOUS
<1>2. CASE Len(f) <= Len(t) /\ SubSeq(t, 1, Len(f)) = f
  <2>1. 1 \in Hits(t, f, 1) /\ \A k \in Hits(t, f, 1) : 1 <= k
    BY <1>1, <1>2 DEF Hits
  <2> QED
    BY <1>2, <2>1, FindOf
<1>3. CASE ~(Len(f) <= Len(t) /\ SubSeq(t, 1, Len(f)) = f)
  <2>1. Hits(t, f, 1) = Hits(t, f, 2)
    BY <1>1, <1>3 DEF Hits
  <2>2. Find(t, f, 1) = Find(t, f, 2)
    BY <2>1 DEF Find, Hits
  <2> QED
    BY <1>3, <2>2
<1> QED
  BY <1>2, <1>3

-----------------------------------------------------------------------------
(* gsub() *)

\* The places gsub() goes through.
Onward(t, f) == [i \in 1..(Len(t) + 1) |-> IF Find(t, f, i) = 0 THEN 0 ELSE Find(t, f, i) + Len(f)]
Kept(t, f, p) == [i \in 1..(Len(t) + 1) |->
                    IF Find(t, f, i) = 0 THEN <<>> ELSE SubSeq(t, i, Find(t, f, i) - 1) \o p]
Ends(t) == [i \in 1..(Len(t) + 1) |-> Rest(t, i)]
GsubScan(g, t, f, p) == Scans(g, Len(t) + 1, Onward(t, f), Kept(t, f, p), Ends(t))

\* gsub() only goes on: what it looks for is not empty.
LEMMA OnwardForward ==
  ASSUME NEW V, NEW t \in Seq(V), NEW f \in Seq(V) \ {<<>>}
  PROVE  /\ Forward(Len(t) + 1, Onward(t, f))
         /\ \A i \in 1..(Len(t) + 1) : Onward(t, f)[i] = 0 <=> Find(t, f, i) = 0
<1>1. ASSUME NEW i \in 1..(Len(t) + 1)
      PROVE  /\ Onward(t, f)[i] = 0 \/ Onward(t, f)[i] \in (i + 1)..(Len(t) + 1)
             /\ Onward(t, f)[i] = 0 <=> Find(t, f, i) = 0
  <2>1. Onward(t, f)[i] = IF Find(t, f, i) = 0 THEN 0 ELSE Find(t, f, i) + Len(f)
    BY DEF Onward
  <2>2. Find(t, f, i) # 0 => Find(t, f, i) \in i..(Len(t) - Len(f) + 1)
    BY FindIs
  <2>3. Len(f) \in Nat \ {0} /\ Len(t) \in Nat
    OBVIOUS
  <2> QED
    BY <2>1, <2>2, <2>3
<1>2. Onward(t, f) \in [1..(Len(t) + 1) -> Nat]
  <2>1. Onward(t, f) = [i \in 1..(Len(t) + 1) |-> Onward(t, f)[i]]
    BY DEF Onward
  <2>2. \A i \in 1..(Len(t) + 1) : Onward(t, f)[i] \in Nat
    BY <1>1
  <2> QED
    BY <2>1, <2>2
<1> QED
  BY <1>1, <1>2 DEF Forward

\* gsub() is the scan of those places.
LEMMA GsubScans ==
  ASSUME NEW V, NEW t \in Seq(V), NEW f \in Seq(V) \ {<<>>}, NEW p \in Seq(V)
  PROVE  \E g \in [1..(Len(t) + 1) -> Seq(V)] :
           GsubScan(g, t, f, p) /\ (t # <<>> => Gsub(t, f, p) = g[1])
<1> DEFINE N == Len(t) + 1
           Body(g) == [i \in 1..N |->
                         LET where == Find(t, f, i)
                         IN IF where = 0 THEN Rest(t, i)
                            ELSE SubSeq(t, i, where - 1) \o p \o g[where + Len(f)]]
           from == CHOOSE g : g = Body(g)
<1>0. N \in Nat /\ Forward(N, Onward(t, f)) /\ \A i \in 1..N : Onward(t, f)[i] = 0 <=> Find(t, f, i) = 0
  BY OnwardForward
<1>1. Kept(t, f, p) \in [1..N -> Seq(V)] /\ Ends(t) \in [1..N -> Seq(V)]
  <2>1. ASSUME NEW i \in 1..N
        PROVE  /\ (IF Find(t, f, i) = 0 THEN <<>> ELSE SubSeq(t, i, Find(t, f, i) - 1) \o p) \in Seq(V)
               /\ Rest(t, i) \in Seq(V)
    <3>1. Find(t, f, i) # 0 => Find(t, f, i) \in i..(Len(t) - Len(f) + 1)
      BY FindIs
    <3>2. Len(f) \in Nat \ {0} /\ Len(t) \in Nat
      OBVIOUS
    <3>3. CASE Find(t, f, i) = 0
      BY <3>2, <3>3 DEF Rest
    <3>4. CASE Find(t, f, i) # 0
      <4>1. SubSeq(t, i, Find(t, f, i) - 1) \in Seq(V)
        BY <3>1, <3>2, <3>4
      <4> QED
        BY <3>2, <3>4, <4>1 DEF Rest
    <3> QED
      BY <3>3, <3>4
  <2> QED
    BY <2>1 DEF Kept, Ends
<1>2. PICK g \in [1..N -> Seq(V)] : GsubScan(g, t, f, p)
  <2> HIDE DEF N
  <2>1. \E g \in [1..N -> Seq(V)] : Scans(g, N, Onward(t, f), Kept(t, f, p), Ends(t))
    BY <1>0, <1>1, ScanExists
  <2> QED
    BY <2>1 DEF GsubScan, N
<1>3. ASSUME NEW h PROVE h = Body(h) <=> GsubScan(h, t, f, p)
  <2> DEFINE S == [i \in 1..N |-> IF Onward(t, f)[i] = 0 THEN Ends(t)[i]
                                  ELSE Kept(t, f, p)[i] \o h[Onward(t, f)[i]]]
  <2>1. ASSUME NEW i \in 1..N PROVE Body(h)[i] = S[i]
    <3>1. CASE Find(t, f, i) = 0
      BY <1>0, <3>1 DEF Ends
    <3>2. CASE Find(t, f, i) # 0
      <4>1. Onward(t, f)[i] # 0
        BY <1>0, <3>2
      <4>2. Onward(t, f)[i] = Find(t, f, i) + Len(f)
        BY <3>2 DEF Onward
      <4>3. Kept(t, f, p)[i] = SubSeq(t, i, Find(t, f, i) - 1) \o p
        BY <3>2 DEF Kept
      <4> QED
        BY <3>2, <4>1, <4>2, <4>3
    <3> QED
      BY <3>1, <3>2
  <2>2. Body(h) = S
    BY <2>1
  <2> QED
    BY <2>2, Zenon DEF GsubScan, Scans
<1>4. from = Body(from)
  BY <1>2, <1>3
<1>5. GsubScan(from, t, f, p)
  BY <1>3, <1>4
<1>6. from \in [1..N -> Seq(V)]
  <2>1. from = g
    BY <1>0, <1>2, <1>5, ScanUnique DEF GsubScan
  <2> QED
    BY <1>2, <2>1
<1>7. t # <<>> => Gsub(t, f, p) = from[1]
  BY Zenon DEF Gsub
<1> QED
  BY <1>5, <1>6, <1>7

\* Behind the first character gsub() does what it does without it.
LEMMA GsubTail ==
  ASSUME NEW V, NEW a \in V, NEW y \in Seq(V), NEW f \in Seq(V) \ {<<>>}, NEW p \in Seq(V),
         NEW g, GsubScan(g, Cons(a, y), f, p), NEW h, GsubScan(h, y, f, p)
  PROVE  \A i \in 1..(Len(y) + 1) : g[i + 1] = h[i]
<1> DEFINE t == <<a>> \o y
           N == Len(y) + 1
<1>1. t \in Seq(V) /\ Len(t) + 1 = N + 1 /\ N \in Nat
  BY ConsIs DEF Cons
<1>2. \A k \in 1..(Len(y) + 1), j \in 0..Len(y) : SubSeq(t, k + 1, j + 1) = SubSeq(y, k, j)
  OBVIOUS
<1>3. \A k \in 1..(Len(y) + 1) : Rest(t, k + 1) = Rest(y, k)
  BY DEF Rest
<1>4. \A k \in 1..N : Find(t, f, k + 1) = IF Find(y, f, k) = 0 THEN 0 ELSE Find(y, f, k) + 1
  BY FindShift DEF Cons
<1>5. Scans(g, N + 1, Onward(t, f), Kept(t, f, p), Ends(t)) /\ Scans(h, N, Onward(y, f), Kept(y, f, p), Ends(y))
  BY <1>1, Zenon DEF GsubScan, Cons
<1>6. Forward(N, Onward(y, f))
  BY OnwardForward
<1> HIDE DEF t
<1>7. ASSUME NEW i \in 1..N
      PROVE  /\ Onward(y, f)[i] = 0 => Onward(t, f)[i + 1] = 0 /\ Ends(t)[i + 1] = Ends(y)[i]
             /\ Onward(y, f)[i] # 0 => /\ Onward(t, f)[i + 1] = Onward(y, f)[i] + 1
                                      /\ Kept(t, f, p)[i + 1] = Kept(y, f, p)[i]
  <2> DEFINE m == Find(y, f, i)
  <2>1. m \in Nat /\ (m # 0 => m \in i..(Len(y) - Len(f) + 1)) /\ Len(f) \in Nat \ {0}
    <3>1. i \in Nat \ {0} /\ f \in Seq(V) /\ Len(f) \in Nat \ {0}
      OBVIOUS
    <3> QED
      BY <3>1, FindIs
  <2>2. Find(t, f, i + 1) = IF m = 0 THEN 0 ELSE m + 1
    BY <1>4
  <2>3. i + 1 \in 1..(Len(t) + 1)
    BY <1>1
  <2>4. Onward(y, f)[i] = IF m = 0 THEN 0 ELSE m + Len(f)
    BY DEF Onward
  <2>5. Kept(y, f, p)[i] = IF m = 0 THEN <<>> ELSE SubSeq(y, i, m - 1) \o p
    BY DEF Kept
  <2>6. Onward(t, f)[i + 1] = IF Find(t, f, i + 1) = 0 THEN 0 ELSE Find(t, f, i + 1) + Len(f)
    BY <2>3 DEF Onward
  <2>7. Kept(t, f, p)[i + 1] = IF Find(t, f, i + 1) = 0 THEN <<>>
                               ELSE SubSeq(t, i + 1, Find(t, f, i + 1) - 1) \o p
    BY <2>3 DEF Kept
  <2>8. Ends(t)[i + 1] = Ends(y)[i]
    BY <1>3, <2>3 DEF Ends
  <2>9. m # 0 => SubSeq(t, i + 1, (m + 1) - 1) = SubSeq(y, i, m - 1)
    <3> SUFFICES ASSUME m # 0 PROVE SubSeq(t, i + 1, (m + 1) - 1) = SubSeq(y, i, m - 1)
      OBVIOUS
    <3>1. m - 1 \in 0..Len(y) /\ (m + 1) - 1 = (m - 1) + 1
      BY <2>1
    <3> QED
      BY <1>2, <3>1
  <2> HIDE DEF m
  <2>10. CASE m = 0
    BY <2>1, <2>2, <2>4, <2>6, <2>8, <2>10
  <2>11. CASE m # 0
    <3>1. Onward(y, f)[i] = m + Len(f) /\ Find(t, f, i + 1) = m + 1 /\ m + 1 # 0
      BY <2>1, <2>2, <2>4, <2>11
    <3>2. Onward(t, f)[i + 1] = (m + 1) + Len(f) /\ Onward(y, f)[i] # 0
      <4>1. Onward(t, f)[i + 1] = Find(t, f, i + 1) + Len(f)
        BY <2>6, <3>1
      <4>2. m \in Nat /\ Len(f) \in Nat \ {0}
        BY <2>1
      <4> QED
        BY <3>1, <4>1, <4>2
    <3>3. Kept(t, f, p)[i + 1] = Kept(y, f, p)[i]
      BY <2>5, <2>7, <2>9, <2>11, <3>1
    <3> QED
      BY <2>1, <3>1, <3>2, <3>3
  <2> QED
    BY <2>10, <2>11
<1> HIDE DEF N
<1>8. Ahead(N, Onward(t, f), Kept(t, f, p), Ends(t), Onward(y, f), Kept(y, f, p), Ends(y))
  BY <1>7 DEF Ahead
<1>9. N \in Nat
  BY <1>1
<1>10. \A i \in 1..N : g[i + 1] = h[i]
  BY <1>5, <1>6, <1>8, <1>9, ScanShift
<1> QED
  BY <1>10 DEF N

\* gsub() of a text that may be empty, in which case it throws.
Gsub0(t, f, p) == IF t = <<>> THEN <<>> ELSE Gsub(t, f, p)

\* Concatenation.
LEMMA Concats ==
  ASSUME NEW V, NEW u \in Seq(V), NEW v \in Seq(V), NEW w \in Seq(V)
  PROVE  u \o v \in Seq(V) /\ (u \o v) \o w = u \o (v \o w) /\ <<>> \o u = u /\ u \o <<>> = u
OBVIOUS

\* One of these alone.
LEMMA ConcatAssoc ==
  ASSUME NEW V, NEW u \in Seq(V), NEW v \in Seq(V), NEW w \in Seq(V)
  PROVE  (u \o v) \o w = u \o (v \o w)
BY Concats

GsubRun(g, t, f, p) ==
  /\ GsubScan(g, t, f, p) /\ Gsub0(t, f, p) = g[1]
  /\ g[1] = IF Find(t, f, 1) = 0 THEN t
            ELSE (SubSeq(t, 1, Find(t, f, 1) - 1) \o p) \o g[Find(t, f, 1) + Len(f)]

\* The scan at the first character.
LEMMA GsubIs ==
  ASSUME NEW V, NEW t \in Seq(V), NEW f \in Seq(V) \ {<<>>}, NEW p \in Seq(V)
  PROVE  \E g \in [1..(Len(t) + 1) -> Seq(V)] : GsubRun(g, t, f, p)
<1>1. PICK g \in [1..(Len(t) + 1) -> Seq(V)] : GsubScan(g, t, f, p) /\ (t # <<>> => Gsub(t, f, p) = g[1])
  BY GsubScans
<1>2. 1 \in 1..(Len(t) + 1) /\ Len(f) \in Nat \ {0} /\ f \in Seq(V) /\ 1 \in Nat \ {0}
  OBVIOUS
<1>3. /\ Find(t, f, 1) \in Nat
      /\ Find(t, f, 1) # 0 => Find(t, f, 1) \in 1..(Len(t) - Len(f) + 1)
  BY <1>2, FindIs
<1>4. Onward(t, f)[1] = IF Find(t, f, 1) = 0 THEN 0 ELSE Find(t, f, 1) + Len(f)
  BY <1>2 DEF Onward
<1>5. Kept(t, f, p)[1] = IF Find(t, f, 1) = 0 THEN <<>> ELSE SubSeq(t, 1, Find(t, f, 1) - 1) \o p
  BY <1>2 DEF Kept
<1>6. Ends(t)[1] = t
  BY <1>2 DEF Ends, Rest
<1>7. g[1] = IF Onward(t, f)[1] = 0 THEN Ends(t)[1] ELSE Kept(t, f, p)[1] \o g[Onward(t, f)[1]]
  BY <1>1, <1>2 DEF GsubScan, Scans
<1>8. g[1] = IF Find(t, f, 1) = 0 THEN t
             ELSE (SubSeq(t, 1, Find(t, f, 1) - 1) \o p) \o g[Find(t, f, 1) + Len(f)]
  <2>1. CASE Find(t, f, 1) = 0
    BY <1>4, <1>6, <1>7, <2>1
  <2>2. CASE Find(t, f, 1) # 0
    <3>1. Onward(t, f)[1] = Find(t, f, 1) + Len(f) /\ Find(t, f, 1) + Len(f) # 0
      BY <1>2, <1>3, <1>4, <2>2
    <3> QED
      BY <1>5, <1>7, <2>2, <3>1
  <2> QED
    BY <2>1, <2>2
<1>9. Gsub0(t, f, p) = g[1]
  <2>1. CASE t = <<>>
    <3>1. Find(t, f, 1) = 0
      BY <1>2, <1>3, <2>1
    <3> QED
      BY <1>8, <2>1, <3>1 DEF Gsub0
  <2>2. CASE t # <<>>
    BY <1>1, <2>2 DEF Gsub0
  <2> QED
    BY <2>1, <2>2
<1>10. GsubRun(g, t, f, p)
  BY <1>1, <1>8, <1>9 DEF GsubRun
<1> QED
  BY <1>10

\* Step by step from the front: no match, a match of one character and one of two.
Starts(t, f) == Len(f) <= Len(t) /\ SubSeq(t, 1, Len(f)) = f

\* What gsub() does, by the first character.
LEMMA GsubStep ==
  ASSUME NEW V, NEW a \in V, NEW y \in Seq(V), NEW f \in Seq(V) \ {<<>>}, NEW p \in Seq(V)
  PROVE  /\ Gsub0(y, f, p) \in Seq(V)
         /\ ~Starts(Cons(a, y), f) => Gsub0(Cons(a, y), f, p) = Cons(a, Gsub0(y, f, p))
         /\ Len(f) = 1 /\ f[1] = a => Gsub0(Cons(a, y), f, p) = p \o Gsub0(y, f, p)
<1> DEFINE t == <<a>> \o y
           L == Len(f)
           m == Find(y, f, 1)
<1>1. t \in Seq(V) /\ Len(t) = Len(y) + 1
  BY ConsIs DEF Cons
<1>2. PICK h \in [1..(Len(y) + 1) -> Seq(V)] :
        /\ GsubScan(h, y, f, p) /\ Gsub0(y, f, p) = h[1]
        /\ h[1] = IF m = 0 THEN y ELSE (SubSeq(y, 1, m - 1) \o p) \o h[m + L]
  <2>1. PICK h \in [1..(Len(y) + 1) -> Seq(V)] : GsubRun(h, y, f, p)
    BY GsubIs
  <2> QED
    BY <2>1 DEF GsubRun
<1>3. PICK g \in [1..(Len(t) + 1) -> Seq(V)] :
        /\ GsubScan(g, t, f, p) /\ Gsub0(t, f, p) = g[1]
        /\ g[1] = IF Find(t, f, 1) = 0 THEN t
                  ELSE (SubSeq(t, 1, Find(t, f, 1) - 1) \o p) \o g[Find(t, f, 1) + L]
  <2>1. t \in Seq(V)
    BY <1>1
  <2> HIDE DEF t
  <2>2. PICK g \in [1..(Len(t) + 1) -> Seq(V)] : GsubRun(g, t, f, p)
    BY <2>1, GsubIs
  <2> QED
    BY <2>2 DEF GsubRun
<1>4. \A i \in 1..(Len(y) + 1) : g[i + 1] = h[i]
  <2>1. GsubScan(g, Cons(a, y), f, p) /\ GsubScan(h, y, f, p)
    BY <1>2, <1>3 DEF Cons
  <2> QED
    BY <2>1, GsubTail
<1>5. L \in Nat \ {0} /\ f \in Seq(V) /\ m \in Nat /\ (m # 0 => m \in 1..(Len(y) - L + 1))
  <2>1. 1 \in Nat \ {0} /\ f \in Seq(V) /\ L \in Nat \ {0}
    OBVIOUS
  <2> QED
    BY <2>1, FindIs
<1>6. Find(t, f, 2) = IF m = 0 THEN 0 ELSE m + 1
  <2>1. 1 \in 1..(Len(y) + 1)
    OBVIOUS
  <2>2. Find(t, f, 1 + 1) = IF m = 0 THEN 0 ELSE m + 1
    BY <2>1, FindShift DEF Cons
  <2> QED
    BY <2>2
<1>7. h[1] \in Seq(V)
  <2>1. 1 \in 1..(Len(y) + 1)
    OBVIOUS
  <2> QED
    BY <2>1
<1> HIDE DEF L, m
<1> HIDE DEF t
<1>8. ASSUME ~(L <= Len(y) + 1 /\ SubSeq(t, 1, L) = f)
      PROVE  g[1] = <<a>> \o h[1]
  <2>1. Find(t, f, 1) = IF m = 0 THEN 0 ELSE m + 1
    <3> HIDE DEF t, L
    <3> QED
      BY <1>1, <1>6, <1>8, FindFront DEF L
  <2>2. CASE m = 0
    BY <1>2, <1>3, <2>1, <2>2 DEF t
  <2>3. CASE m # 0
    <3>1. Find(t, f, 1) = m + 1 /\ m + 1 # 0 /\ (m + 1) - 1 = m /\ m + 1 + L = (m + L) + 1
          /\ m + L \in 1..(Len(y) + 1) /\ m - 1 \in 0..Len(y) /\ (m - 1) + 1 = m
      BY <1>5, <2>1, <2>3
    <3>2. g[1] = (SubSeq(t, 1, m) \o p) \o h[m + L]
      BY <1>3, <1>4, <3>1
    <3>3. SubSeq(t, 1, m) = <<a>> \o SubSeq(y, 1, m - 1)
      <4>1. SubSeq(<<a>> \o y, 1, (m - 1) + 1) = <<a>> \o SubSeq(y, 1, m - 1)
        BY <3>1, ConsParts
      <4> QED
        BY <3>1, <4>1 DEF t
    <3>4. h[1] = (SubSeq(y, 1, m - 1) \o p) \o h[m + L]
      BY <1>2, <2>3
    <3>5. SubSeq(y, 1, m - 1) \in Seq(V) /\ h[m + L] \in Seq(V) /\ <<a>> \in Seq(V)
      BY <1>2, <3>1
    <3> DEFINE u == SubSeq(y, 1, m - 1)
               x == h[m + L]
    <3>6. u \in Seq(V) /\ x \in Seq(V) /\ <<a>> \in Seq(V) /\ p \in Seq(V)
      BY <3>5
    <3> HIDE DEF u, x
    <3>7. (<<a>> \o u) \o p = <<a>> \o (u \o p) /\ u \o p \in Seq(V)
      <4>1. u \o p \in Seq(V)
        BY <3>6
      <4>2. (<<a>> \o u) \o p = <<a>> \o (u \o p)
        BY <3>6, ConcatAssoc
      <4> QED
        BY <4>1, <4>2
    <3> DEFINE v == u \o p
    <3>8. v \in Seq(V)
      BY <3>7
    <3> HIDE DEF v
    <3>9. (<<a>> \o v) \o x = <<a>> \o (v \o x)
      BY <3>6, <3>8, ConcatAssoc
    <3>10. (<<a>> \o (u \o p)) \o x = <<a>> \o ((u \o p) \o x)
      BY <3>9 DEF v
    <3> QED
      BY <3>2, <3>3, <3>4, <3>7, <3>10 DEF u, x
  <2> QED
    BY <2>2, <2>3
<1>9. ASSUME L = 1, f[1] = a
      PROVE  g[1] = p \o h[1]
  <2>1. /\ L = 1 /\ 1 <= Len(t) /\ 1 - 1 = 0 /\ 1 + 1 = 2
        /\ SubSeq(t, 1, 1) = <<a>> /\ SubSeq(t, 1, 0) = <<>>
    <3>1. L = 1
      BY <1>9
    <3>2. 1 <= Len(t)
      BY <1>1
    <3>3. SubSeq(t, 1, 1) = <<a>> /\ SubSeq(t, 1, 0) = <<>>
      <4>1. SubSeq(<<a>> \o y, 1, 0 + 1) = <<a>> \o SubSeq(y, 1, 0) /\ SubSeq(y, 1, 0) = <<>>
        BY ConsParts
      <4>2. SubSeq(t, 1, 0) = <<>>
        BY <1>1
      <4>3. 0 + 1 = 1 /\ <<a>> \o <<>> = <<a>>
        OBVIOUS
      <4> QED
        BY <4>1, <4>2, <4>3, Zenon DEF t
    <3> QED
      BY <3>1, <3>2, <3>3
  <2>2. Find(t, f, 1) = 1
    <3>1. f = <<a>>
      BY <1>9 DEF L
    <3>2. t \in Seq(V) /\ Len(f) <= Len(t) /\ SubSeq(t, 1, Len(f)) = f
      BY <1>1, <2>1, <3>1 DEF L
    <3> HIDE DEF t, L
    <3> QED
      BY <3>2, FindFront
  <2>3. g[2] = h[1]
    <3>1. g[1 + 1] = h[1]
      BY <1>4
    <3> QED
      BY <3>1
  <2>4. g[1] = (<<>> \o p) \o g[2]
    <3> HIDE DEF t
    <3> QED
      BY <1>3, <2>1, <2>2
  <2>5. <<>> \o p = p
    OBVIOUS
  <2> QED
    BY <2>3, <2>4, <2>5
<1> QED
  <2>1. ~Starts(t, f) => g[1] = <<a>> \o h[1]
    BY <1>1, <1>8 DEF Starts, L
  <2>2. t = Cons(a, y) /\ <<a>> \o h[1] = Cons(a, h[1])
    BY DEF Cons, t
  <2> HIDE DEF t
  <2> QED
    BY <1>2, <1>3, <1>7, <1>9, <2>1, <2>2 DEF L

\* gsub() makes a text.
LEMMA GsubType ==
  ASSUME NEW V, NEW y \in Seq(V), NEW f \in Seq(V) \ {<<>>}, NEW p \in Seq(V)
  PROVE  Gsub0(y, f, p) \in Seq(V)
<1>1. f[1] \in V
  OBVIOUS
<1> QED
  BY <1>1, GsubStep

\* No match at the front: the character stays.
LEMMA GsubSkip ==
  ASSUME NEW V, NEW a \in V, NEW y \in Seq(V), NEW f \in Seq(V) \ {<<>>}, NEW p \in Seq(V),
         ~Starts(Cons(a, y), f)
  PROVE  Gsub0(Cons(a, y), f, p) = Cons(a, Gsub0(y, f, p))
BY GsubStep

\* A match of one character.
LEMMA GsubOne ==
  ASSUME NEW V, NEW y \in Seq(V), NEW f \in Seq(V) \ {<<>>}, NEW p \in Seq(V), Len(f) = 1
  PROVE  Gsub0(Cons(f[1], y), f, p) = p \o Gsub0(y, f, p)
<1>1. f[1] \in V
  OBVIOUS
<1> QED
  BY <1>1, GsubStep

\* A match of two.
LEMMA GsubPair ==
  ASSUME NEW V, NEW y \in Seq(V), NEW f \in Seq(V) \ {<<>>}, NEW p \in Seq(V), Len(f) = 2
  PROVE  Gsub0(Cons(f[1], Cons(f[2], y)), f, p) = p \o Gsub0(y, f, p)
<1> DEFINE u == Cons(f[2], y)
           t == Cons(f[1], u)
<1>1. /\ f \in Seq(V) \ {<<>>} /\ Len(f) = 2 /\ f[1] \in V /\ f[2] \in V
      /\ u \in Seq(V) /\ Len(u) = Len(y) + 1 /\ u[1] = f[2]
      /\ t \in Seq(V) /\ Len(t) = Len(y) + 2
      /\ t[1] = f[1] /\ t[2] = f[2]
  <2>1. f[1] \in V /\ f[2] \in V
    <3>1. f \in Seq(V) /\ 1 \in 1..Len(f) /\ 2 \in 1..Len(f)
      OBVIOUS
    <3> QED
      BY <3>1, Elements
  <2>2. u \in Seq(V) /\ Len(u) = Len(y) + 1 /\ u[1] = f[2] /\ 1 \in 1..Len(u)
    BY <2>1 DEF Cons
  <2> HIDE DEF u
  <2>3. t \in Seq(V) /\ Len(t) = Len(u) + 1 /\ t[1] = f[1] /\ t[1 + 1] = u[1]
    BY <2>1, <2>2 DEF Cons
  <2> HIDE DEF t
  <2> QED
    BY <2>1, <2>2, <2>3
<1> HIDE DEF t, u
<1>2. SubSeq(t, 1, 2) = f /\ SubSeq(t, 1, 1 - 1) = <<>>
  <2>1. 2 <= Len(t) /\ t \in Seq(V)
    BY <1>1
  <2>2. SubSeq(t, 1, 2) \in Seq(V) /\ Len(SubSeq(t, 1, 2)) = 2
    BY <2>1
  <2>3. SubSeq(t, 1, 2)[1] = f[1] /\ SubSeq(t, 1, 2)[2] = f[2]
    BY <1>1, <2>1
  <2>4. SubSeq(t, 1, 2) = f
    BY <1>1, <2>2, <2>3
  <2> QED
    BY <2>1, <2>4
<1>3. \A x \in Seq(V) : \E g \in [1..(Len(x) + 1) -> Seq(V)] : GsubRun(g, x, f, p)
  BY GsubIs
<1>4. PICK h \in [1..(Len(y) + 1) -> Seq(V)] : GsubScan(h, y, f, p) /\ Gsub0(y, f, p) = h[1]
  BY <1>3 DEF GsubRun
<1>5. PICK k \in [1..(Len(u) + 1) -> Seq(V)] : GsubScan(k, u, f, p)
  BY <1>1, <1>3 DEF GsubRun
<1>6. PICK g \in [1..(Len(t) + 1) -> Seq(V)] :
        /\ GsubScan(g, t, f, p) /\ Gsub0(t, f, p) = g[1]
        /\ g[1] = IF Find(t, f, 1) = 0 THEN t
                  ELSE (SubSeq(t, 1, Find(t, f, 1) - 1) \o p) \o g[Find(t, f, 1) + Len(f)]
  BY <1>1, <1>3 DEF GsubRun
<1>7. Find(t, f, 1) = 1
  <2>1. t \in Seq(V) /\ f \in Seq(V) \ {<<>>} /\ Len(f) <= Len(t) /\ SubSeq(t, 1, Len(f)) = f
    BY <1>1, <1>2
  <2> QED
    BY <2>1, FindFront
<1>8. g[1] = (<<>> \o p) \o g[3]
  <2>1. Find(t, f, 1) # 0 /\ Find(t, f, 1) + Len(f) = 3 /\ SubSeq(t, 1, Find(t, f, 1) - 1) = <<>>
    BY <1>1, <1>2, <1>7
  <2> QED
    BY <1>6, <2>1
<1>9. g[3] = k[2]
  <2>1. GsubScan(g, Cons(f[1], u), f, p) /\ u \in Seq(V) /\ f[1] \in V
    BY <1>1, <1>6 DEF t
  <2>2. \A i \in 1..(Len(u) + 1) : g[i + 1] = k[i]
    BY <1>5, <2>1, GsubTail
  <2>3. 2 \in 1..(Len(u) + 1) /\ 2 + 1 = 3
    BY <1>1
  <2> QED
    BY <2>2, <2>3
<1>10. k[2] = h[1]
  <2>1. GsubScan(k, Cons(f[2], y), f, p) /\ f[2] \in V
    BY <1>1, <1>5 DEF u
  <2>2. \A i \in 1..(Len(y) + 1) : k[i + 1] = h[i]
    BY <1>4, <2>1, GsubTail
  <2>3. 1 \in 1..(Len(y) + 1) /\ 1 + 1 = 2
    OBVIOUS
  <2> QED
    BY <2>2, <2>3
<1>11. <<>> \o p = p
  OBVIOUS
<1> QED
  BY <1>4, <1>6, <1>8, <1>9, <1>10, <1>11 DEF t, u

-----------------------------------------------------------------------------
(* Escaping and the way back *)

\* A scan that goes on with the next place, to the end.
Each(N) == [j \in 1..(N + 1) |-> IF j > N THEN 0 ELSE j + 1]
Pieces(s) == [j \in 1..(Len(s) + 1) |->
                IF j > Len(s) THEN <<>> ELSE IF s[j] = Hash THEN <<Backslash, Hash>> ELSE <<s[j]>>]
Nothing(s) == [j \in 1..(Len(s) + 1) |-> <<>>]
EscapedScan(g, s) == Scans(g, Len(s) + 1, Each(Len(s)), Pieces(s), Nothing(s))

\* It only goes on.
LEMMA EachForward ==
  ASSUME NEW N \in Nat
  PROVE  Forward(N + 1, Each(N))
<1>1. \A j \in 1..(N + 1) : Each(N)[j] = IF j > N THEN 0 ELSE j + 1
  BY DEF Each
<1>2. \A j \in 1..(N + 1) : Each(N)[j] = 0 \/ Each(N)[j] \in (j + 1)..(N + 1)
  BY <1>1
<1>3. Each(N) \in [1..(N + 1) -> Nat]
  BY DEF Each
<1> QED
  BY <1>2, <1>3 DEF Forward

\* Escaping is that scan.
LEMMA EscapedIs ==
  ASSUME NEW s \in Seq(Codes)
  PROVE  \E g \in [1..(Len(s) + 1) -> Seq(Codes)] : EscapedScan(g, s) /\ Escaped(s) = g[1]
<1> DEFINE N == Len(s)
           Body(g) == [j \in 1..(N + 1) |->
                         IF j > N THEN <<>>
                         ELSE (IF s[j] = Hash THEN <<Backslash, Hash>> ELSE <<s[j]>>) \o g[j + 1]]
           from == CHOOSE g : g = Body(g)
<1>1. N + 1 \in Nat /\ N \in Nat /\ Forward(N + 1, Each(N))
  BY EachForward
<1>2. Pieces(s) \in [1..(N + 1) -> Seq(Codes)] /\ Nothing(s) \in [1..(N + 1) -> Seq(Codes)]
  <2>1. /\ <<>> \in Seq(Codes) /\ <<Backslash, Hash>> \in Seq(Codes)
        /\ \A a \in Codes : <<a>> \in Seq(Codes)
    BY DEF Hash, Backslash, Codes
  <2>2. \A j \in 1..N : s[j] \in Codes
    OBVIOUS
  <2>3. \A j \in 1..(N + 1) : ~(j > N) => j \in 1..N
    BY <1>1
  <2> QED
    BY <2>1, <2>2, <2>3 DEF Pieces, Nothing
<1>3. PICK g \in [1..(N + 1) -> Seq(Codes)] : EscapedScan(g, s)
  <2> DEFINE M == N + 1
  <2> HIDE DEF M
  <2>1. M \in Nat /\ Forward(M, Each(N)) /\ Pieces(s) \in [1..M -> Seq(Codes)] /\ Nothing(s) \in [1..M -> Seq(Codes)]
    BY <1>1, <1>2 DEF M
  <2>2. \E g \in [1..M -> Seq(Codes)] : Scans(g, M, Each(N), Pieces(s), Nothing(s))
    BY <2>1, ScanExists
  <2> QED
    BY <2>2 DEF EscapedScan, M
<1>4. ASSUME NEW h PROVE h = Body(h) <=> EscapedScan(h, s)
  <2> DEFINE S == [j \in 1..(N + 1) |-> IF Each(N)[j] = 0 THEN Nothing(s)[j]
                                        ELSE Pieces(s)[j] \o h[Each(N)[j]]]
  <2>1. ASSUME NEW j \in 1..(N + 1) PROVE Body(h)[j] = S[j]
    <3>1. CASE j > N
      BY <1>1, <3>1 DEF Each, Nothing
    <3>2. CASE j <= N
      <4>1. Each(N)[j] = j + 1 /\ j + 1 # 0
        BY <3>2 DEF Each
      <4>2. Pieces(s)[j] = IF s[j] = Hash THEN <<Backslash, Hash>> ELSE <<s[j]>>
        BY <3>2 DEF Pieces
      <4> QED
        BY <1>1, <3>2, <4>1, <4>2
    <3> QED
      BY <1>1, <3>1, <3>2
  <2>2. Body(h) = S
    BY <2>1
  <2> QED
    BY <2>2, Zenon DEF EscapedScan, Scans
<1>5. from = Body(from)
  BY <1>3, <1>4
<1>6. EscapedScan(from, s)
  BY <1>4, <1>5
<1>7. from = g
  BY <1>1, <1>3, <1>6, ScanUnique DEF EscapedScan
<1>8. Escaped(s) = from[1]
  BY Zenon DEF Escaped
<1> QED
  BY <1>3, <1>7, <1>8

\* What escaping does, by the first character.
LEMMA EscapedStep ==
  /\ Escaped(<<>>) = <<>>
  /\ \A a \in Codes : \A y \in Seq(Codes) :
       /\ Escaped(y) \in Seq(Codes)
       /\ Escaped(Cons(a, y)) = IF a = Hash THEN Cons(Backslash, Cons(Hash, Escaped(y)))
                                ELSE Cons(a, Escaped(y))
<1>1. Escaped(<<>>) = <<>>
  <2> DEFINE s == <<>>
  <2>1. s \in Seq(Codes) /\ Len(s) = 0
    OBVIOUS
  <2> HIDE DEF s
  <2>2. PICK g \in [1..(Len(s) + 1) -> Seq(Codes)] : EscapedScan(g, s) /\ Escaped(s) = g[1]
    BY <2>1, EscapedIs
  <2>3. g[1] = <<>>
    BY <2>1, <2>2 DEF EscapedScan, Scans, Each, Nothing
  <2> QED
    BY <2>2, <2>3 DEF s
<1>2. ASSUME NEW a \in Codes, NEW y \in Seq(Codes)
      PROVE  /\ Escaped(y) \in Seq(Codes)
             /\ Escaped(Cons(a, y)) = IF a = Hash THEN Cons(Backslash, Cons(Hash, Escaped(y)))
                                ELSE Cons(a, Escaped(y))
  <2> DEFINE t == Cons(a, y)
             N == Len(y) + 1
  <2>1. /\ t \in Seq(Codes) /\ Len(t) = Len(y) + 1 /\ t[1] = a /\ N \in Nat
        /\ \A i \in 1..Len(y) : t[i + 1] = y[i]
    BY DEF Cons
  <2> HIDE DEF t
  <2>2. PICK h \in [1..(Len(y) + 1) -> Seq(Codes)] : EscapedScan(h, y) /\ Escaped(y) = h[1]
    BY EscapedIs
  <2>3. PICK g \in [1..(Len(t) + 1) -> Seq(Codes)] : EscapedScan(g, t) /\ Escaped(t) = g[1]
    BY <2>1, EscapedIs
  <2>4. Ahead(N, Each(Len(t)), Pieces(t), Nothing(t), Each(Len(y)), Pieces(y), Nothing(y))
    <3> SUFFICES ASSUME NEW i \in 1..N
                 PROVE  /\ Each(Len(y))[i] = 0 => Each(Len(t))[i + 1] = 0 /\ Nothing(t)[i + 1] = Nothing(y)[i]
                        /\ Each(Len(y))[i] # 0 => /\ Each(Len(t))[i + 1] = Each(Len(y))[i] + 1
                                                  /\ Pieces(t)[i + 1] = Pieces(y)[i]
      BY DEF Ahead
    <3>1. i + 1 \in 1..(Len(t) + 1)
      BY <2>1
    <3>2. CASE i > Len(y)
      BY <2>1, <3>1, <3>2 DEF Each, Nothing
    <3>3. CASE i <= Len(y)
      <4>1. Each(Len(y))[i] = i + 1 /\ Each(Len(t))[i + 1] = (i + 1) + 1
        BY <2>1, <3>1, <3>3 DEF Each
      <4>2. Pieces(t)[i + 1] = Pieces(y)[i]
        BY <2>1, <3>1, <3>3 DEF Pieces
      <4> QED
        BY <4>1, <4>2
    <3> QED
      BY <2>1, <3>2, <3>3
  <2>5. Forward(N, Each(Len(y)))
    BY EachForward
  <2>6. Scans(g, N + 1, Each(Len(t)), Pieces(t), Nothing(t)) /\ Scans(h, N, Each(Len(y)), Pieces(y), Nothing(y))
    BY <2>1, <2>2, <2>3 DEF EscapedScan
  <2>7. g[1 + 1] = h[1]
    <3>1. 1 \in 1..N
      OBVIOUS
    <3> HIDE DEF N
    <3>2. \A i \in 1..N : g[i + 1] = h[i]
      <4>1. N \in Nat
        BY <2>1
      <4> QED
        BY <2>4, <2>5, <2>6, <4>1, ScanShift
    <3> QED
      BY <3>1, <3>2
  <2>8. g[1] = (IF a = Hash THEN <<Backslash, Hash>> ELSE <<a>>) \o g[2]
    <3>1. 1 \in 1..(Len(t) + 1) /\ ~(1 > Len(t))
      BY <2>1
    <3>2. Each(Len(t))[1] = 2 /\ Pieces(t)[1] = IF a = Hash THEN <<Backslash, Hash>> ELSE <<a>>
      BY <2>1, <3>1 DEF Each, Pieces
    <3>3. g[1] = Pieces(t)[1] \o g[2]
      <4>1. g[1] = IF Each(Len(t))[1] = 0 THEN Nothing(t)[1] ELSE Pieces(t)[1] \o g[Each(Len(t))[1]]
        BY <2>3, <3>1 DEF EscapedScan, Scans
      <4> QED
        BY <3>2, <4>1
    <3> QED
      BY <3>2, <3>3
  <2>9. h[1] \in Seq(Codes)
    <3>1. 1 \in 1..(Len(y) + 1)
      OBVIOUS
    <3> QED
      BY <3>1
  <2> QED
    <3>1. 1 + 1 = 2
      OBVIOUS
    <3>2. Escaped(t) = (IF a = Hash THEN <<Backslash, Hash>> ELSE <<a>>) \o Escaped(y)
      BY <2>2, <2>3, <2>7, <2>8, <3>1
    <3> DEFINE e == Escaped(y)
    <3>3. e \in Seq(Codes) /\ Hash \in Codes /\ Backslash \in Codes
      BY <2>2, <2>9 DEF Hash, Backslash, Codes
    <3> HIDE DEF e
    <3>4. <<Backslash, Hash>> \o e = Cons(Backslash, Cons(Hash, e)) /\ <<a>> \o e = Cons(a, e)
      BY <3>3 DEF Cons
    <3> QED
      BY <3>2, <3>3, <3>4, Zenon DEF e, t
<1> QED
  BY <1>1, <1>2

\* gsub() of what escapes the symbol undoes the escaping: what Field() does to a field.
LEMMA UnescapesHash ==
  \A s \in Seq(Codes) : Gsub0(Escaped(s), <<Backslash, Hash>>, <<Hash>>) = s
<1> DEFINE f == <<Backslash, Hash>>
           p == <<Hash>>
           S == {s \in Seq(Codes) : Gsub0(Escaped(s), f, p) = s}
<1>0. /\ f \in Seq(Codes) \ {<<>>} /\ p \in Seq(Codes) /\ Hash \in Codes /\ Backslash \in Codes /\ Hash # Backslash
      /\ Len(f) = 2 /\ f[1] = Backslash /\ f[2] = Hash
  BY DEF Hash, Backslash, Codes
<1>1. <<>> \in S
  BY EscapedStep DEF Gsub0
<1>2. ASSUME NEW a \in Codes, NEW y \in Seq(Codes), y \in S
      PROVE  Cons(a, y) \in S
  <2> DEFINE e == Escaped(y)
  <2>1. e \in Seq(Codes) /\ Gsub0(e, f, p) = y
    BY <1>2, EscapedStep
  <2>2. Escaped(Cons(a, y)) = IF a = Hash THEN Cons(Backslash, Cons(Hash, e)) ELSE Cons(a, e)
    BY EscapedStep
  <2>3. Cons(a, y) \in Seq(Codes)
    BY ConsIs
  <2>4. CASE a = Hash
    <3>1. Escaped(Cons(a, y)) = Cons(Backslash, Cons(Hash, e))
      BY <2>2, <2>4
    <3>2. Gsub0(Cons(f[1], Cons(f[2], e)), f, p) = p \o Gsub0(e, f, p)
      <4>1. f \in Seq(Codes) \ {<<>>} /\ p \in Seq(Codes) /\ Len(f) = 2 /\ e \in Seq(Codes)
        BY <1>0, <2>1
      <4> HIDE DEF f, p, e
      <4> QED
        BY <4>1, GsubPair
    <3>3. p \o y = Cons(a, y)
      BY <2>4 DEF Cons
    <3> HIDE DEF e, f, p
    <3>4. Gsub0(Escaped(Cons(a, y)), f, p) = Cons(a, y)
      BY <1>0, <2>1, <3>1, <3>2, <3>3
    <3> QED
      BY <2>3, <3>4 DEF f, p
  <2>5. CASE a # Hash
    <3>1. Escaped(Cons(a, y)) = Cons(a, e)
      BY <2>2, <2>5
    <3>2. ~Starts(Cons(a, e), f)
      <4> SUFFICES ASSUME Starts(Cons(a, e), f)
                   PROVE  FALSE
        OBVIOUS
      <4>1. Len(e) >= 1 /\ e[1] = Hash
        <5> DEFINE u == Cons(a, e)
        <5>1. u \in Seq(Codes) /\ Len(u) = Len(e) + 1 /\ (Len(e) >= 1 => u[2] = e[1])
          <6> HIDE DEF e
          <6> QED
            BY <2>1 DEF Cons
        <5>2. Len(e) >= 1 /\ SubSeq(u, 1, 2)[2] = Hash
          <6> HIDE DEF e, u, f
          <6>1. Len(u) >= 2 /\ SubSeq(u, 1, 2) = f
            BY <1>0 DEF Starts, u
          <6> QED
            BY <1>0, <2>1, <5>1, <6>1
        <5> HIDE DEF u
        <5>3. SubSeq(u, 1, 2)[2] = u[2]
          BY <5>1, <5>2
        <5> QED
          BY <5>1, <5>2, <5>3
      <4>2. y # <<>>
        <5>1. e # <<>>
          BY <4>1
        <5> QED
          BY <5>1, EscapedStep
      <4>3. PICK b \in Codes, z \in Seq(Codes) : y = Cons(b, z)
        BY <4>2, TextSplit
      <4>4. e = (IF b = Hash THEN Cons(Backslash, Cons(Hash, Escaped(z))) ELSE Cons(b, Escaped(z)))
            /\ Escaped(z) \in Seq(Codes)
        BY <4>3, EscapedStep
      <4>5. CASE b = Hash
        <5>1. e[1] = Backslash
          BY <1>0, <4>4, <4>5 DEF Cons
        <5> QED
          BY <1>0, <4>1, <5>1
      <4>6. CASE b # Hash
        <5>1. e[1] = b
          BY <4>4, <4>6 DEF Cons
        <5> QED
          BY <4>1, <4>6, <5>1
      <4> QED
        BY <4>5, <4>6
    <3>3. Gsub0(Cons(a, e), f, p) = Cons(a, Gsub0(e, f, p))
      <4>1. e \in Seq(Codes) /\ p \in Seq(Codes) /\ f \in Seq(Codes) \ {<<>>}
        BY <1>0, <2>1
      <4> HIDE DEF p, f, e
      <4> QED
        BY <3>2, <4>1, GsubSkip
    <3> QED
      BY <2>1, <2>3, <3>1, <3>3
  <2> QED
    BY <2>4, <2>5
<1> HIDE DEF S
<1>3. Seq(Codes) \subseteq S
  BY <1>1, <1>2, TextInduction
<1> QED
  BY <1>3 DEF S

\* What escaping leaves of a text: each symbol has a backslash before it, the
\* characters are its own, and so are the ends.
Escapes(s, e) ==
  /\ e \in Seq(Codes)
  /\ \A i \in 1..Len(e) : e[i] = Hash => i > 1 /\ e[i - 1] = Backslash
  /\ \A i \in 1..Len(e) : e[i] \in {Hash, Backslash} \/ \E j \in 1..Len(s) : e[i] = s[j]
  /\ s = <<>> => e = <<>>
  /\ s # <<>> => /\ Len(e) >= 1 /\ e[Len(e)] = s[Len(s)]
                 /\ e[1] \in {Backslash, s[1]}

\* One more character that is not the symbol.
LEMMA EscapesOne ==
  ASSUME NEW a \in Codes, NEW y \in Seq(Codes), NEW e \in Seq(Codes), Escapes(y, e), a # Hash
  PROVE  Escapes(Cons(a, y), Cons(a, e))
<1> DEFINE t == Cons(a, y)
           d == Cons(a, e)
<1>1. /\ t \in Seq(Codes) /\ t # <<>> /\ Len(t) = Len(y) + 1 /\ t[1] = a
      /\ \A i \in 1..Len(y) : t[i + 1] = y[i]
  BY DEF Cons
<1>2. /\ d \in Seq(Codes) /\ Len(d) = Len(e) + 1 /\ d[1] = a
      /\ \A i \in 1..Len(e) : d[i + 1] = e[i]
  BY DEF Cons
<1> HIDE DEF t, d
<1>3. \A i \in 1..Len(d) : i = 1 \/ (i - 1 \in 1..Len(e) /\ (i - 1) + 1 = i)
  BY <1>2
<1>4. \A i \in 1..Len(d) : i = 1 \/ d[i] = e[i - 1]
  BY <1>2, <1>3
<1>5. \A i \in 1..Len(d) : d[i] = Hash => i > 1 /\ d[i - 1] = Backslash
  <2> SUFFICES ASSUME NEW i \in 1..Len(d), d[i] = Hash
               PROVE  i > 1 /\ d[i - 1] = Backslash
    OBVIOUS
  <2>1. i # 1 /\ i - 1 \in 1..Len(e) /\ e[i - 1] = Hash
    BY <1>2, <1>3, <1>4
  <2>2. i - 1 > 1 /\ e[(i - 1) - 1] = Backslash
    BY <2>1 DEF Escapes
  <2>3. i - 1 \in 1..Len(d) /\ i - 1 # 1
    BY <1>2, <2>1, <2>2
  <2>4. d[i - 1] = e[(i - 1) - 1]
    BY <1>4, <2>3
  <2> QED
    BY <2>1, <2>2, <2>4
<1>6. \A i \in 1..Len(d) : d[i] \in {Hash, Backslash} \/ \E j \in 1..Len(t) : d[i] = t[j]
  <2> TAKE i \in 1..Len(d)
  <2>1. CASE i = 1
    BY <1>1, <1>2, <2>1
  <2>2. CASE i # 1
    <3>1. i - 1 \in 1..Len(e) /\ d[i] = e[i - 1]
      BY <1>3, <1>4, <2>2
    <3>2. CASE e[i - 1] \in {Hash, Backslash}
      BY <3>1, <3>2
    <3>3. CASE \E j \in 1..Len(y) : e[i - 1] = y[j]
      <4>1. PICK j \in 1..Len(y) : e[i - 1] = y[j]
        BY <3>3
      <4>2. j + 1 \in 1..Len(t) /\ t[j + 1] = y[j]
        BY <1>1
      <4> QED
        BY <3>1, <4>1, <4>2
    <3> QED
      BY <3>1, <3>2, <3>3 DEF Escapes
  <2> QED
    BY <2>1, <2>2
<1>7. d[Len(d)] = t[Len(t)]
  <2>1. CASE y = <<>>
    <3>1. e = <<>>
      BY <2>1 DEF Escapes
    <3> QED
      BY <1>1, <1>2, <2>1, <3>1
  <2>2. CASE y # <<>>
    <3>1. Len(e) >= 1 /\ e[Len(e)] = y[Len(y)] /\ Len(y) \in 1..Len(y) /\ Len(e) \in 1..Len(e)
      BY <2>2 DEF Escapes
    <3>2. d[Len(e) + 1] = e[Len(e)] /\ t[Len(y) + 1] = y[Len(y)]
      BY <1>1, <1>2, <3>1
    <3> QED
      BY <1>1, <1>2, <3>1, <3>2
  <2> QED
    BY <2>1, <2>2
<1>8. Len(d) >= 1 /\ d[1] \in {Backslash, t[1]}
  BY <1>1, <1>2
<1> QED
  BY <1>1, <1>2, <1>5, <1>6, <1>7, <1>8 DEF Escapes, t, d

\* One more symbol.
LEMMA EscapesHash ==
  ASSUME NEW y \in Seq(Codes), NEW e \in Seq(Codes), Escapes(y, e)
  PROVE  Escapes(Cons(Hash, y), Cons(Backslash, Cons(Hash, e)))
<1> DEFINE t == Cons(Hash, y)
           d == Cons(Backslash, Cons(Hash, e))
<1>0. Hash \in Codes /\ Backslash \in Codes /\ Hash # Backslash
  BY DEF Hash, Backslash, Codes
<1>1. /\ t \in Seq(Codes) /\ t # <<>> /\ Len(t) = Len(y) + 1 /\ t[1] = Hash
      /\ \A i \in 1..Len(y) : t[i + 1] = y[i]
  BY <1>0 DEF Cons
<1>2. /\ d \in Seq(Codes) /\ Len(d) = Len(e) + 2 /\ d[1] = Backslash /\ d[2] = Hash
      /\ \A i \in 1..Len(e) : d[i + 2] = e[i]
  <2> DEFINE c == Cons(Hash, e)
  <2>1. /\ c \in Seq(Codes) /\ Len(c) = Len(e) + 1 /\ c[1] = Hash
        /\ \A i \in 1..Len(e) : c[i + 1] = e[i]
    BY <1>0 DEF Cons
  <2> HIDE DEF c
  <2>2. /\ Cons(Backslash, c) \in Seq(Codes) /\ Len(Cons(Backslash, c)) = Len(c) + 1
        /\ Cons(Backslash, c)[1] = Backslash
        /\ \A i \in 1..Len(c) : Cons(Backslash, c)[i + 1] = c[i]
    BY <1>0, <2>1 DEF Cons
  <2>3. /\ d \in Seq(Codes) /\ Len(d) = Len(c) + 1 /\ d[1] = Backslash
        /\ \A i \in 1..Len(c) : d[i + 1] = c[i]
    BY <2>2 DEF c
  <2> HIDE DEF d
  <2>4. 1 \in 1..Len(c) /\ d[1 + 1] = c[1]
    BY <2>1, <2>3
  <2>5. ASSUME NEW i \in 1..Len(e) PROVE d[i + 2] = e[i]
    <3>1. i + 1 \in 1..Len(c) /\ (i + 1) + 1 = i + 2
      BY <2>1
    <3> QED
      BY <2>1, <2>3, <3>1
  <2> QED
    BY <2>1, <2>3, <2>4, <2>5
<1> HIDE DEF t, d
<1>3. \A i \in 1..Len(d) : i = 1 \/ i = 2 \/ (i - 2 \in 1..Len(e) /\ (i - 2) + 2 = i)
  BY <1>2
<1>4. \A i \in 1..Len(d) : i = 1 \/ i = 2 \/ d[i] = e[i - 2]
  BY <1>2, <1>3
<1>5. \A i \in 1..Len(d) : d[i] = Hash => i > 1 /\ d[i - 1] = Backslash
  <2> SUFFICES ASSUME NEW i \in 1..Len(d), d[i] = Hash
               PROVE  i > 1 /\ d[i - 1] = Backslash
    OBVIOUS
  <2>1. CASE i = 2
    BY <1>2, <2>1
  <2>2. CASE i # 2
    <3>1. i # 1 /\ i - 2 \in 1..Len(e) /\ e[i - 2] = Hash
      BY <1>0, <1>2, <1>3, <1>4, <2>2
    <3>2. i - 2 > 1 /\ e[(i - 2) - 1] = Backslash
      BY <3>1 DEF Escapes
    <3>3. i - 1 \in 1..Len(d) /\ i - 1 # 1 /\ i - 1 # 2 /\ (i - 1) - 2 = (i - 2) - 1
      BY <1>2, <3>1, <3>2
    <3>4. d[i - 1] = e[(i - 1) - 2]
      BY <1>4, <3>3
    <3> QED
      BY <3>1, <3>2, <3>3, <3>4
  <2> QED
    BY <2>1, <2>2
<1>6. \A i \in 1..Len(d) : d[i] \in {Hash, Backslash} \/ \E j \in 1..Len(t) : d[i] = t[j]
  <2> TAKE i \in 1..Len(d)
  <2>1. CASE i = 1 \/ i = 2
    BY <1>2, <2>1
  <2>2. CASE i # 1 /\ i # 2
    <3>1. i - 2 \in 1..Len(e) /\ d[i] = e[i - 2]
      BY <1>3, <1>4, <2>2
    <3>2. CASE e[i - 2] \in {Hash, Backslash}
      BY <3>1, <3>2
    <3>3. CASE \E j \in 1..Len(y) : e[i - 2] = y[j]
      <4>1. PICK j \in 1..Len(y) : e[i - 2] = y[j]
        BY <3>3
      <4>2. j + 1 \in 1..Len(t) /\ t[j + 1] = y[j]
        BY <1>1
      <4> QED
        BY <3>1, <4>1, <4>2
    <3> QED
      BY <3>1, <3>2, <3>3 DEF Escapes
  <2> QED
    BY <2>1, <2>2
<1>7. d[Len(d)] = t[Len(t)]
  <2>1. CASE y = <<>>
    <3>1. e = <<>>
      BY <2>1 DEF Escapes
    <3> QED
      BY <1>1, <1>2, <2>1, <3>1
  <2>2. CASE y # <<>>
    <3>1. Len(e) >= 1 /\ e[Len(e)] = y[Len(y)] /\ Len(y) \in 1..Len(y) /\ Len(e) \in 1..Len(e)
      BY <2>2 DEF Escapes
    <3>2. d[Len(e) + 2] = e[Len(e)] /\ t[Len(y) + 1] = y[Len(y)]
      BY <1>1, <1>2, <3>1
    <3> QED
      BY <1>1, <1>2, <3>1, <3>2
  <2> QED
    BY <2>1, <2>2
<1>8. Len(d) >= 1 /\ d[1] \in {Backslash, t[1]}
  BY <1>1, <1>2
<1> QED
  BY <1>1, <1>2, <1>5, <1>6, <1>7, <1>8 DEF Escapes, t, d

\* So does Escaped().
LEMMA EscapedEscapes ==
  \A s \in Seq(Codes) : Escapes(s, Escaped(s))
<1> DEFINE S == {s \in Seq(Codes) : Escapes(s, Escaped(s))}
<1>1. <<>> \in S
  <2> DEFINE s == <<>>
  <2>1. s \in Seq(Codes) /\ Len(s) = 0
    OBVIOUS
  <2>2. Escapes(s, s)
    BY <2>1 DEF Escapes
  <2> QED
    BY <2>1, <2>2, EscapedStep
<1>2. ASSUME NEW a \in Codes, NEW y \in Seq(Codes), y \in S
      PROVE  Cons(a, y) \in S
  <2> DEFINE e == Escaped(y)
  <2>1. e \in Seq(Codes) /\ Escapes(y, e)
    BY <1>2, EscapedStep
  <2>2. Escaped(Cons(a, y)) = IF a = Hash THEN Cons(Backslash, Cons(Hash, e)) ELSE Cons(a, e)
    BY EscapedStep
  <2>3. Cons(a, y) \in Seq(Codes)
    BY DEF Cons
  <2> HIDE DEF e
  <2>4. Escapes(Cons(a, y), Escaped(Cons(a, y)))
    BY <2>1, <2>2, EscapesHash, EscapesOne
  <2> QED
    BY <2>3, <2>4
<1> HIDE DEF S
<1>3. Seq(Codes) \subseteq S
  BY <1>1, <1>2, TextInduction
<1> QED
  BY <1>3 DEF S

-----------------------------------------------------------------------------
(* Trimming, cutting and parsing a line *)

\* trim() keeps what is between the first and the last character that is not white.
LEMMA TrimIs ==
  ASSUME NEW V, NEW s \in Seq(V), NEW lo \in 1..Len(s), NEW hi \in 1..Len(s),
         s[lo] \notin White, s[hi] \notin White,
         \A i \in 1..Len(s) : i < lo \/ i > hi => s[i] \in White
  PROVE  Trim(s) = SubSeq(s, lo, hi)
<1> DEFINE kept == {i \in DOMAIN s : s[i] \notin {Tab, Newline, Blank}}
<1>1. DOMAIN s = 1..Len(s) /\ Len(s) \in Nat
  OBVIOUS
<1>2. lo \in kept /\ hi \in kept /\ kept \in SUBSET Nat
  BY <1>1 DEF White
<1>3. \A k \in kept : lo <= k /\ k <= hi
  BY <1>1 DEF White
<1>4. Trim(s) = IF kept = {} THEN s ELSE SubSeq(s, Min(kept), Max(kept))
  BY DEF Trim
<1> HIDE DEF kept
<1>5. Min(kept) = lo
  BY <1>2, <1>3, MinOf
<1>6. Max(kept) = hi
  BY <1>2, <1>3, MaxOf
<1> QED
  BY <1>2, <1>4, <1>5, <1>6

\* A part of a text.
LEMMA PartIs ==
  ASSUME NEW V, NEW s \in Seq(V), NEW lo \in 1..(Len(s) + 1), NEW hi \in 0..Len(s), lo <= hi + 1
  PROVE  /\ SubSeq(s, lo, hi) \in Seq(V) /\ Len(SubSeq(s, lo, hi)) = hi - lo + 1
         /\ \A i \in 1..(hi - lo + 1) : SubSeq(s, lo, hi)[i] = s[lo + i - 1]
OBVIOUS

\* Texts with the same characters are the same.
LEMMA SameText ==
  ASSUME NEW V, NEW s \in Seq(V), NEW t \in Seq(V), Len(s) = Len(t),
         \A i \in 1..Len(s) : s[i] = t[i]
  PROVE  s = t
OBVIOUS

\* A text that holds, by itself or with white before it, is trimmed to itself.
LEMMA FieldOf ==
  ASSUME NEW s, Holds(s), NEW x \in Seq(Codes), NEW k \in Nat,
         Len(x) = k + Len(Escaped(s)),
         \A i \in 1..k : x[i] \in White,
         \A i \in 1..Len(Escaped(s)) : x[k + i] = Escaped(s)[i]
  PROVE  Field(x) = s
<1> DEFINE e == Escaped(s)
<1>1. s \in Seq(Codes) /\ s # <<>> /\ s[1] \notin White /\ s[Len(s)] \notin White
  BY DEF Holds
<1>2. /\ e \in Seq(Codes) /\ Len(e) >= 1 /\ e[1] \in {Backslash, s[1]} /\ e[Len(e)] = s[Len(s)]
  BY <1>1, EscapedEscapes DEF Escapes
<1>3. Backslash \notin White
  BY DEF Backslash, White, Tab, Newline, Blank
<1>4. Len(x) = k + Len(e) /\ Len(e) \in Nat /\ \A i \in 1..Len(e) : x[k + i] = e[i]
  BY <1>2
<1> HIDE DEF e
<1>5. k + 1 \in 1..Len(x) /\ Len(x) \in 1..Len(x) /\ 1 \in 1..Len(e) /\ Len(e) \in 1..Len(e)
  BY <1>2, <1>4
<1>6. x[k + 1] = e[1] /\ x[k + Len(e)] = e[Len(e)]
  BY <1>4, <1>5
<1>7. x[k + 1] \notin White /\ x[Len(x)] \notin White
  BY <1>1, <1>2, <1>3, <1>4, <1>6
<1>8. \A i \in 1..Len(x) : i < k + 1 \/ i > Len(x) => x[i] \in White
  BY <1>4
<1>9. Trim(x) = SubSeq(x, k + 1, Len(x))
  BY <1>5, <1>7, <1>8, TrimIs
<1>10. SubSeq(x, k + 1, Len(x)) = e
  <2> DEFINE u == SubSeq(x, k + 1, Len(x))
  <2>1. k + 1 \in 1..(Len(x) + 1) /\ Len(x) \in 0..Len(x) /\ k + 1 <= Len(x) + 1 /\ Len(x) - (k + 1) + 1 = Len(e)
    BY <1>4, <1>5
  <2>2. u \in Seq(Codes) /\ Len(u) = Len(e) /\ \A i \in 1..Len(e) : u[i] = x[(k + 1) + i - 1]
    BY <2>1, PartIs
  <2>3. \A i \in 1..Len(e) : (k + 1) + i - 1 = k + i
    OBVIOUS
  <2> HIDE DEF u
  <2>4. \A i \in 1..Len(u) : u[i] = e[i]
    BY <1>4, <2>2, <2>3
  <2>5. u = e
    BY <1>2, <2>2, <2>4, SameText
  <2> QED
    BY <2>5 DEF u
<1>11. Gsub0(e, <<Backslash, Hash>>, <<Hash>>) = s
  BY <1>1, UnescapesHash DEF e
<1>12. e # <<>>
  BY <1>2
<1> QED
  BY <1>9, <1>10, <1>11, <1>12 DEF Field, Gsub0

\* A line of a name and a value, and what is where in it.
Line(n, v) == <<Blank>> \o n \o <<Tab, Blank>> \o v \o <<Blank, Hash, Backslash, Hash, Blank>>
Places(line, n, v) ==
  /\ line \in Seq(Codes) /\ Len(line) = Len(n) + Len(v) + 8
  /\ line[1] = Blank
  /\ \A i \in 1..Len(n) : line[i + 1] = n[i]
  /\ line[Len(n) + 2] = Tab /\ line[Len(n) + 3] = Blank
  /\ \A i \in 1..Len(v) : line[Len(n) + 3 + i] = v[i]
  /\ line[Len(n) + Len(v) + 4] = Blank /\ line[Len(n) + Len(v) + 5] = Hash

\* What is where in a line.
LEMMA LinePlaces ==
  ASSUME NEW n \in Seq(Codes), NEW v \in Seq(Codes)
  PROVE  Places(Line(n, v), n, v)
<1> DEFINE line == Line(n, v)
<1>0. Blank \in Codes /\ Tab \in Codes /\ Hash \in Codes /\ Backslash \in Codes
  BY DEF Blank, Tab, Hash, Backslash, Codes
<1> DEFINE a == <<Blank>> \o n
           b == a \o <<Tab, Blank>>
           c == b \o v
           w == <<Blank, Hash, Backslash, Hash, Blank>>
<1>1. /\ a \in Seq(Codes) /\ Len(a) = Len(n) + 1 /\ a[1] = Blank
      /\ \A i \in 1..Len(n) : a[i + 1] = n[i]
  BY <1>0
<1> HIDE DEF a
<1>2. /\ b \in Seq(Codes) /\ Len(b) = Len(a) + 2
      /\ \A i \in 1..Len(a) : b[i] = a[i]
      /\ b[Len(a) + 1] = Tab /\ b[Len(a) + 2] = Blank
  BY <1>0, <1>1
<1> HIDE DEF b
<1>3. /\ c \in Seq(Codes) /\ Len(c) = Len(b) + Len(v)
      /\ \A i \in 1..Len(b) : c[i] = b[i]
      /\ \A i \in 1..Len(v) : c[Len(b) + i] = v[i]
  <2>1. b \in Seq(Codes)
    BY <1>2
  <2> QED
    BY <2>1, ConcatIs
<1> HIDE DEF c
<1>4. w \in Seq(Codes) /\ Len(w) = 5 /\ w[1] = Blank /\ w[2] = Hash
  BY <1>0
<1> HIDE DEF w
<1>5. /\ c \o w \in Seq(Codes) /\ Len(c \o w) = Len(c) + 5
      /\ \A i \in 1..Len(c) : (c \o w)[i] = c[i]
      /\ (c \o w)[Len(c) + 1] = Blank /\ (c \o w)[Len(c) + 2] = Hash
  <2>1. c \in Seq(Codes) /\ w \in Seq(Codes)
    BY <1>3, <1>4
  <2>2. /\ c \o w \in Seq(Codes) /\ Len(c \o w) = Len(c) + Len(w)
        /\ \A i \in 1..Len(c) : (c \o w)[i] = c[i]
        /\ \A i \in 1..Len(w) : (c \o w)[Len(c) + i] = w[i]
    BY <2>1, ConcatIs
  <2>3. 1 \in 1..Len(w) /\ 2 \in 1..Len(w)
    BY <1>4
  <2> QED
    BY <1>4, <2>2, <2>3
<1>6. line = c \o w
  BY DEF a, b, c, w, Line
<1> HIDE DEF line
<1>7. /\ line \in Seq(Codes) /\ Len(line) = Len(c) + 5
      /\ \A i \in 1..Len(c) : line[i] = c[i]
      /\ line[Len(c) + 1] = Blank /\ line[Len(c) + 2] = Hash
  BY <1>5, <1>6, Zenon
<1>8. Len(n) \in Nat /\ Len(v) \in Nat /\ Len(a) = Len(n) + 1 /\ Len(b) = Len(n) + 3 /\ Len(c) = Len(n) + Len(v) + 3
  BY <1>1, <1>2, <1>3
<1>9. \A i \in 1..Len(b) : line[i] = b[i]
  <2> TAKE i \in 1..Len(b)
  <2>1. i \in 1..Len(c)
    BY <1>8
  <2> QED
    BY <1>3, <1>7, <2>1
<1>10. \A i \in 1..Len(a) : line[i] = a[i]
  <2> TAKE i \in 1..Len(a)
  <2>1. i \in 1..Len(b)
    BY <1>8
  <2> QED
    BY <1>2, <1>9, <2>1
<1>11. line[1] = Blank
  <2>1. 1 \in 1..Len(a)
    BY <1>8
  <2> QED
    BY <1>1, <1>10, <2>1
<1>12. ASSUME NEW i \in 1..Len(n)
       PROVE  line[i + 1] = n[i]
  <2>1. i + 1 \in 1..Len(a)
    BY <1>8
  <2> QED
    BY <1>1, <1>10, <2>1
<1>13. line[Len(n) + 2] = Tab /\ line[Len(n) + 3] = Blank
  <2>1. /\ Len(n) + 2 \in 1..Len(b) /\ Len(n) + 3 \in 1..Len(b)
        /\ Len(a) + 1 = Len(n) + 2 /\ Len(a) + 2 = Len(n) + 3
    BY <1>8
  <2> QED
    BY <1>2, <1>9, <2>1
<1>14. ASSUME NEW i \in 1..Len(v)
       PROVE  line[Len(n) + 3 + i] = v[i]
  <2>1. Len(b) + i \in 1..Len(c) /\ Len(b) + i = Len(n) + 3 + i
    BY <1>8
  <2> QED
    BY <1>3, <1>7, <2>1
<1>15. line[Len(n) + Len(v) + 4] = Blank /\ line[Len(n) + Len(v) + 5] = Hash
  <2>1. Len(c) + 1 = Len(n) + Len(v) + 4 /\ Len(c) + 2 = Len(n) + Len(v) + 5
    BY <1>8
  <2> QED
    BY <1>7, <2>1
<1>16. Len(line) = Len(n) + Len(v) + 8
  BY <1>7, <1>8
<1> QED
  BY <1>7, <1>11, <1>12, <1>13, <1>14, <1>15, <1>16 DEF Places, line

\* The comment behind the value is cut off, and nothing before it.
LEMMA UncommentedLine ==
  ASSUME NEW p, Names(p.name), Holds(p.value)
  PROVE  Uncommented(LineOf(p)) =
           SubSeq(LineOf(p), 1, Len(Escaped(p.name)) + Len(Escaped(p.value)) + 4)
<1> DEFINE n == Escaped(p.name)
           v == Escaped(p.value)
           line == LineOf(p)
           M == Len(n)
           K == Len(v)
           C == M + K + 5
           cuts == {i \in DOMAIN line : line[i] = Hash /\ (i > 1 => line[i - 1] # Backslash)}
<1>1. /\ n \in Seq(Codes) /\ v \in Seq(Codes) /\ M \in Nat /\ K \in Nat
      /\ \A i \in 1..M : n[i] = Hash => i > 1 /\ n[i - 1] = Backslash
      /\ \A i \in 1..K : v[i] = Hash => i > 1 /\ v[i - 1] = Backslash
  BY EscapedEscapes DEF Names, Holds, Escapes
<1>2. line = Line(n, v)
  BY DEF LineOf, Line
<1> HIDE DEF n, v, line
<1>3. /\ line \in Seq(Codes) /\ Len(line) = M + K + 8
      /\ line[1] = Blank
      /\ \A i \in 1..M : line[i + 1] = n[i]
      /\ line[M + 2] = Tab /\ line[M + 3] = Blank
      /\ \A i \in 1..K : line[M + 3 + i] = v[i]
      /\ line[M + K + 4] = Blank /\ line[M + K + 5] = Hash
  <2>1. n \in Seq(Codes) /\ v \in Seq(Codes)
    BY <1>1
  <2>2. Places(Line(n, v), n, v)
    BY <2>1, LinePlaces
  <2> QED
    BY <1>2, <2>2 DEF Places
<1>4. Hash # Blank /\ Hash # Tab /\ Backslash # Blank
  BY DEF Hash, Blank, Tab, Backslash
<1> HIDE DEF M, K
<1>5. C \in cuts
  <2>1. DOMAIN line = 1..Len(line)
    BY <1>3
  <2>2. C \in 1..Len(line) /\ C - 1 = M + K + 4
    BY <1>1, <1>3
  <2>3. line[C] = Hash /\ line[C - 1] # Backslash
    <3>1. line[M + K + 5] = Hash /\ line[M + K + 4] # Backslash
      BY <1>3, <1>4
    <3> QED
      BY <2>2, <3>1
  <2> QED
    BY <2>1, <2>2, <2>3
<1>6. \A i \in cuts : C <= i
  <2> SUFFICES ASSUME NEW i \in cuts, i < C
               PROVE  FALSE
    BY <1>1, <1>3
  <2>1. i \in 1..Len(line) /\ line[i] = Hash /\ (i > 1 => line[i - 1] # Backslash)
    BY <1>3
  <2>0. i \in Nat /\ i >= 1 /\ i < M + K + 5 /\ M \in Nat /\ K \in Nat
    BY <1>1, <2>1
  <2>2. i = 1 \/ i - 1 \in 1..M \/ i = M + 2 \/ i = M + 3 \/ i - (M + 3) \in 1..K \/ i = M + K + 4
    BY <2>0
  <2>3. CASE i - 1 \in 1..M
    <3>1. n[i - 1] = Hash
      <4>1. line[(i - 1) + 1] = n[i - 1] /\ (i - 1) + 1 = i
        BY <1>3, <2>1, <2>3
      <4> QED
        BY <2>1, <4>1
    <3>2. i - 1 > 1 /\ n[(i - 1) - 1] = Backslash /\ i > 1
      BY <1>1, <2>1, <2>3, <3>1
    <3>3. (i - 1) - 1 \in 1..M /\ ((i - 1) - 1) + 1 = i - 1
      <4>1. i - 1 > 1
        BY <3>2
      <4> QED
        BY <2>0, <2>3, <4>1
    <3>4. line[i - 1] = Backslash
      BY <1>3, <3>2, <3>3
    <3> QED
      BY <2>1, <3>2, <3>4
  <2>4. CASE i - (M + 3) \in 1..K
    <3> DEFINE j == i - (M + 3)
    <3>1. j \in 1..K /\ M + 3 + j = i /\ M + 3 + (j - 1) = i - 1 /\ i > 1
      BY <2>0, <2>4
    <3> HIDE DEF j
    <3>2. v[j] = Hash
      BY <1>3, <2>1, <3>1
    <3>3. j > 1 /\ v[j - 1] = Backslash
      BY <1>1, <3>1, <3>2
    <3>4. j - 1 \in 1..K
      <4>1. j > 1 /\ j \in 1..K
        BY <3>1, <3>3
      <4> QED
        BY <2>0, <4>1
    <3>5. line[i - 1] = Backslash
      BY <1>3, <3>1, <3>3, <3>4
    <3> QED
      BY <2>1, <3>1, <3>5
  <2> QED
    BY <1>3, <1>4, <2>1, <2>2, <2>3, <2>4
<1>7. cuts \in SUBSET Nat
  BY <1>3
<1>8. Uncommented(line) = IF cuts = {} THEN line ELSE SubSeq(line, 1, Min(cuts) - 1)
  BY DEF Uncommented
<1> HIDE DEF cuts
<1>9. Min(cuts) = C
  BY <1>5, <1>6, <1>7, MinOf
<1>10. C - 1 = M + K + 4
  BY <1>1
<1>11. Uncommented(line) = SubSeq(line, 1, M + K + 4)
  BY <1>5, <1>8, <1>9, <1>10
<1> QED
  BY <1>11 DEF line, n, v, M, K

\* What is parsed of a line is the pair it was written for.
LEMMA ParsedLine ==
  ASSUME NEW p, Names(p.name), Holds(p.value)
  PROVE  Parsed(LineOf(p)) = <<[name |-> p.name, value |-> p.value]>>
<1> DEFINE n == Escaped(p.name)
           v == Escaped(p.value)
           line == LineOf(p)
           M == Len(n)
           K == Len(v)
           cut == SubSeq(line, 1, M + K + 4)
           in == SubSeq(cut, 2, M + K + 3)
           x == Rest(in, M + 1)
           ends == {i \in DOMAIN in : in[i] \in {Tab, Blank}}
<1>1. /\ n \in Seq(Codes) /\ v \in Seq(Codes) /\ M \in Nat /\ K \in Nat /\ M >= 1 /\ K >= 1
      /\ n[1] \notin White /\ v[K] \notin White
      /\ \A i \in 1..M : n[i] \notin {Tab, Blank}
  <2>1. /\ p.name \in Seq(Codes) /\ p.name # <<>> /\ p.name[1] \notin White
        /\ \A i \in 1..Len(p.name) : p.name[i] \notin {Tab, Blank}
        /\ p.value \in Seq(Codes) /\ p.value # <<>> /\ p.value[Len(p.value)] \notin White
    BY DEF Names, Holds
  <2>2. Escapes(p.name, n) /\ Escapes(p.value, v)
    BY <2>1, EscapedEscapes
  <2> HIDE DEF n, v
  <2>3. /\ n \in Seq(Codes) /\ v \in Seq(Codes) /\ M >= 1 /\ K >= 1
        /\ n[1] \in {Backslash, p.name[1]} /\ v[K] = p.value[Len(p.value)]
    BY <2>1, <2>2 DEF Escapes
  <2>4. Backslash \notin White /\ Hash \notin {Tab, Blank} /\ Backslash \notin {Tab, Blank}
    BY DEF Backslash, Hash, White, Tab, Newline, Blank
  <2>5. ASSUME NEW i \in 1..M PROVE n[i] \notin {Tab, Blank}
    <3>1. n[i] \in {Hash, Backslash} \/ \E j \in 1..Len(p.name) : n[i] = p.name[j]
      BY <2>2 DEF Escapes
    <3> QED
      BY <2>1, <2>4, <3>1
  <2> QED
    BY <2>1, <2>3, <2>4, <2>5
<1>2. Places(line, n, v)
  <2>1. line = Line(n, v)
    BY DEF LineOf, Line
  <2> QED
    BY <1>1, <2>1, LinePlaces
<1>3. Uncommented(line) = cut
  BY UncommentedLine
<1> HIDE DEF line
<1>4. /\ line \in Seq(Codes) /\ Len(line) = M + K + 8 /\ line[1] = Blank
      /\ \A i \in 1..M : line[i + 1] = n[i]
      /\ line[M + 2] = Tab /\ line[M + 3] = Blank
      /\ \A i \in 1..K : line[M + 3 + i] = v[i]
      /\ line[M + K + 4] = Blank
  BY <1>2 DEF Places
<1>0. M \in Nat /\ K \in Nat /\ M >= 1 /\ K >= 1
  BY <1>1
<1> HIDE DEF n, v, M, K
<1>5. /\ cut \in Seq(Codes) /\ Len(cut) = M + K + 4
      /\ \A i \in 1..(M + K + 4) : cut[i] = line[i]
  <2>1. /\ 1 \in 1..(Len(line) + 1) /\ M + K + 4 \in 0..Len(line) /\ 1 <= (M + K + 4) + 1
        /\ (M + K + 4) - 1 + 1 = M + K + 4 /\ line \in Seq(Codes)
    BY <1>0, <1>4
  <2>2. /\ cut \in Seq(Codes) /\ Len(cut) = (M + K + 4) - 1 + 1
        /\ \A i \in 1..((M + K + 4) - 1 + 1) : cut[i] = line[1 + i - 1]
    BY <2>1, PartIs
  <2>3. \A i \in 1..(M + K + 4) : 1 + i - 1 = i
    OBVIOUS
  <2> QED
    BY <2>1, <2>2, <2>3
<1> HIDE DEF cut
<1>6. Trim(cut) = in
  <2>1. cut[2] = n[1] /\ cut[M + K + 3] = v[K]
    <3>1. /\ 2 \in 1..(M + K + 4) /\ M + K + 3 \in 1..(M + K + 4)
          /\ 1 \in 1..M /\ K \in 1..K /\ 1 + 1 = 2 /\ M + 3 + K = M + K + 3
      BY <1>0
    <3>2. line[1 + 1] = n[1] /\ line[M + 3 + K] = v[K]
      BY <1>4, <3>1
    <3> QED
      BY <1>5, <3>1, <3>2
  <2>2. cut[2] \notin White /\ cut[M + K + 3] \notin White
    BY <1>1, <2>1
  <2>3. 2 \in 1..Len(cut) /\ M + K + 3 \in 1..Len(cut)
    BY <1>0, <1>5
  <2>4. \A i \in 1..Len(cut) : i < 2 \/ i > M + K + 3 => cut[i] \in White
    <3> SUFFICES ASSUME NEW i \in 1..Len(cut), i < 2 \/ i > M + K + 3
                 PROVE  cut[i] \in White
      OBVIOUS
    <3>1. i = 1 \/ i = M + K + 4
      BY <1>0, <1>5
    <3> QED
      BY <1>4, <1>5, <3>1 DEF White
  <2>5. cut \in Seq(Codes)
    BY <1>5
  <2> QED
    BY <2>2, <2>3, <2>4, <2>5, TrimIs
<1>7. /\ in \in Seq(Codes) /\ Len(in) = M + K + 2
      /\ \A i \in 1..(M + K + 2) : in[i] = line[i + 1]
  <2>1. /\ 2 \in 1..(Len(cut) + 1) /\ M + K + 3 \in 0..Len(cut) /\ 2 <= (M + K + 3) + 1
        /\ (M + K + 3) - 2 + 1 = M + K + 2 /\ cut \in Seq(Codes)
    BY <1>0, <1>5
  <2>2. /\ in \in Seq(Codes) /\ Len(in) = (M + K + 3) - 2 + 1
        /\ \A i \in 1..((M + K + 3) - 2 + 1) : in[i] = cut[2 + i - 1]
    BY <2>1, PartIs
  <2>3. \A i \in 1..(M + K + 2) : 2 + i - 1 = i + 1 /\ i + 1 \in 1..(M + K + 4)
    BY <1>0
  <2> QED
    BY <1>5, <2>1, <2>2, <2>3
<1> HIDE DEF in
<1>8. ends # {} /\ Min(ends) = M + 1
  <2>1. DOMAIN in = 1..(M + K + 2)
    BY <1>7
  <2>2. M + 1 \in 1..(M + K + 2) /\ (M + 1) + 1 = M + 2
    BY <1>0
  <2>3. M + 1 \in ends
    <3>1. in[M + 1] = Tab
      BY <1>4, <1>7, <2>2
    <3> QED
      BY <2>1, <2>2, <3>1
  <2>4. \A i \in ends : M + 1 <= i
    <3> SUFFICES ASSUME NEW i \in ends, i < M + 1 PROVE FALSE
      BY <1>0, <2>1
    <3>1. i \in 1..M /\ i \in 1..(M + K + 2)
      BY <1>0, <2>1
    <3>2. in[i] = n[i]
      BY <1>4, <1>7, <3>1
    <3> QED
      BY <1>1, <3>1, <3>2
  <2>5. ends \in SUBSET Nat
    BY <2>1
  <2> HIDE DEF ends
  <2> QED
    BY <2>3, <2>4, <2>5, MinOf
<1> DEFINE h == SubSeq(in, 1, M)
<1>9. Field(h) = p.name
  <2>1. /\ 1 \in 1..(Len(in) + 1) /\ M \in 0..Len(in) /\ 1 <= M + 1
        /\ M - 1 + 1 = M /\ in \in Seq(Codes)
    BY <1>0, <1>7
  <2>2. h \in Seq(Codes) /\ Len(h) = M - 1 + 1 /\ \A i \in 1..(M - 1 + 1) : h[i] = in[1 + i - 1]
    BY <2>1, PartIs
  <2> HIDE DEF h
  <2>3. \A i \in 1..M : 1 + i - 1 = i /\ i \in 1..(M + K + 2)
    BY <1>0
  <2>4. \A i \in 1..M : h[0 + i] = n[i]
    <3> TAKE i \in 1..M
    <3>1. 0 + i = i
      OBVIOUS
    <3> QED
      BY <1>4, <1>7, <2>1, <2>2, <2>3, <3>1
  <2>5. Len(h) = 0 + M /\ 0 \in Nat /\ \A i \in 1..0 : h[i] \in White
    BY <1>0, <2>1, <2>2
  <2>6. Holds(p.name)
    BY DEF Names
  <2> QED
    BY <2>2, <2>4, <2>5, <2>6, FieldOf DEF n, M
<1>10. Field(x) = p.value
  <2>1. /\ M + 1 \in 1..(Len(in) + 1) /\ Len(in) \in 0..Len(in) /\ M + 1 <= Len(in) + 1
        /\ Len(in) - (M + 1) + 1 = 2 + K /\ in \in Seq(Codes)
    BY <1>0, <1>7
  <2>2. x \in Seq(Codes) /\ Len(x) = 2 + K /\ \A i \in 1..(2 + K) : x[i] = in[(M + 1) + i - 1]
    BY <2>1, PartIs DEF Rest
  <2> HIDE DEF x
  <2>3. \A i \in 1..(2 + K) : (M + 1) + i - 1 = M + i /\ M + i \in 1..(M + K + 2)
    BY <1>0
  <2>4. \A i \in 1..(2 + K) : x[i] = line[(M + i) + 1]
    BY <1>7, <2>2, <2>3
  <2>5. \A i \in 1..K : x[2 + i] = v[i]
    <3> TAKE i \in 1..K
    <3>1. 2 + i \in 1..(2 + K) /\ (M + (2 + i)) + 1 = M + 3 + i
      BY <1>0
    <3> QED
      BY <1>4, <2>4, <3>1
  <2>6. \A i \in 1..2 : x[i] \in White
    <3> TAKE i \in 1..2
    <3>1. i \in 1..(2 + K) /\ ((M + i) + 1 = M + 2 \/ (M + i) + 1 = M + 3)
      BY <1>0
    <3> QED
      BY <1>4, <2>4, <3>1 DEF White
  <2>7. 2 \in Nat
    OBVIOUS
  <2> QED
    BY <2>2, <2>5, <2>6, <2>7, FieldOf DEF v, K
<1>11. Min(ends) - 1 = M
  BY <1>0, <1>8
<1>12. Parsed(line) = <<[name |-> Field(SubSeq(in, 1, Min(ends) - 1)), value |-> Field(Rest(in, Min(ends)))]>>
  BY <1>3, <1>6, <1>8, Zenon DEF Parsed
<1> QED
  BY <1>8, <1>9, <1>10, <1>11, <1>12 DEF line

-----------------------------------------------------------------------------
(* Reading a file *)

\* A text with something in front.
LEMMA FrontIs ==
  ASSUME NEW V, NEW a \in V, NEW y \in Seq(V)
  PROVE  /\ <<a>> \o y \in Seq(V) /\ Len(<<a>> \o y) = Len(y) + 1
         /\ (<<a>> \o y)[1] = a /\ \A i \in 1..Len(y) : (<<a>> \o y)[i + 1] = y[i]
OBVIOUS

\* A text from a place on is what is there and the text from the next place on.
LEMMA RestParts ==
  ASSUME NEW V, NEW s \in Seq(V), NEW i \in 1..Len(s)
  PROVE  <<s[i]>> \o Rest(s, i + 1) = Rest(s, i)
<1> DEFINE N == Len(s)
           r == Rest(s, i + 1)
           q == Rest(s, i)
           u == <<s[i]>> \o r
<1>1. N \in Nat /\ i \in 1..N /\ s[i] \in V
  OBVIOUS
<1>2. r \in Seq(V) /\ Len(r) = N - i /\ \A j \in 1..(N - i) : r[j] = s[i + j]
  <2>1. /\ i + 1 \in 1..(Len(s) + 1) /\ Len(s) \in 0..Len(s) /\ i + 1 <= Len(s) + 1
        /\ Len(s) - (i + 1) + 1 = N - i
    BY <1>1
  <2>2. r \in Seq(V) /\ Len(r) = N - i /\ \A j \in 1..(N - i) : r[j] = s[(i + 1) + j - 1]
    BY <2>1, PartIs DEF Rest
  <2>3. \A j \in 1..(N - i) : (i + 1) + j - 1 = i + j
    BY <1>1
  <2> QED
    BY <2>2, <2>3
<1>3. q \in Seq(V) /\ Len(q) = N - i + 1 /\ \A j \in 1..(N - i + 1) : q[j] = s[i + j - 1]
  <2>1. i \in 1..(Len(s) + 1) /\ Len(s) \in 0..Len(s) /\ i <= Len(s) + 1
    BY <1>1
  <2> QED
    BY <2>1, PartIs DEF Rest
<1> HIDE DEF r, q, N
<1>4. u \in Seq(V) /\ Len(u) = N - i + 1 /\ \A j \in 1..(N - i + 1) : u[j] = s[i + j - 1]
  <2>1. u \in Seq(V) /\ Len(u) = Len(r) + 1 /\ u[1] = s[i] /\ \A j \in 1..Len(r) : u[j + 1] = r[j]
    BY <1>1, <1>2, FrontIs
  <2>0. N - i + 1 = (N - i) + 1
    BY <1>1
  <2> HIDE DEF u
  <2>2. ASSUME NEW j \in 1..(N - i + 1) PROVE u[j] = s[i + j - 1]
    <3>1. CASE j = 1
      BY <1>1, <2>1, <3>1
    <3>2. CASE j # 1
      <4>1. j - 1 \in 1..(N - i) /\ (j - 1) + 1 = j /\ i + (j - 1) = i + j - 1
        BY <1>1, <3>2
      <4> QED
        BY <1>2, <2>1, <4>1
    <3> QED
      BY <3>1, <3>2
  <2> QED
    BY <1>1, <1>2, <2>1, <2>2
<1> HIDE DEF u
<1>5. u = q
  <2>1. Len(u) = Len(q) /\ \A j \in 1..Len(u) : u[j] = q[j]
    BY <1>3, <1>4
  <2> QED
    BY <1>3, <1>4, <2>1, SameText
<1> QED
  BY <1>5 DEF u, q, r

\* The pairs from a place on are those of its line and of the lines behind it.
LEMMA PairsScan ==
  ASSUME NEW V, NEW w \in Seq(V)
  PROVE  \A g : g = [i \in 1..(Len(w) + 1) |-> IF i > Len(w) THEN <<>> ELSE <<w[i]>> \o g[i + 1]]
                  <=> g = [i \in 1..(Len(w) + 1) |-> Rest(w, i)]
<1> DEFINE N == Len(w)
           pre == [i \in 1..(N + 1) |-> IF i > N THEN <<>> ELSE <<w[i]>>]
           last == [i \in 1..(N + 1) |-> <<>>]
           rests == [i \in 1..(N + 1) |-> Rest(w, i)]
<1>1. N \in Nat /\ N + 1 \in Nat /\ Forward(N + 1, Each(N))
  BY EachForward
<1>2. ASSUME NEW g
      PROVE  g = [i \in 1..(N + 1) |-> IF i > N THEN <<>> ELSE <<w[i]>> \o g[i + 1]]
               <=> Scans(g, N + 1, Each(N), pre, last)
  <2> DEFINE A == [i \in 1..(N + 1) |-> IF i > N THEN <<>> ELSE <<w[i]>> \o g[i + 1]]
             B == [i \in 1..(N + 1) |-> IF Each(N)[i] = 0 THEN last[i] ELSE pre[i] \o g[Each(N)[i]]]
  <2>1. ASSUME NEW i \in 1..(N + 1) PROVE A[i] = B[i]
    <3>1. CASE i > N
      BY <1>1, <3>1 DEF Each
    <3>2. CASE i <= N
      <4>1. Each(N)[i] = i + 1 /\ i + 1 # 0
        BY <3>2 DEF Each
      <4>2. pre[i] = <<w[i]>>
        BY <3>2
      <4> QED
        BY <1>1, <3>2, <4>1, <4>2
    <3> QED
      BY <1>1, <3>1, <3>2
  <2>2. A = B
    BY <2>1
  <2> QED
    BY <2>2, Zenon DEF Scans
<1>3. Scans(rests, N + 1, Each(N), pre, last)
  <2> DEFINE A == [i \in 1..(N + 1) |-> IF i > N THEN <<>> ELSE <<w[i]>> \o rests[i + 1]]
  <2>1. ASSUME NEW i \in 1..(N + 1) PROVE rests[i] = A[i]
    <3>1. CASE i > N
      BY <1>1, <3>1 DEF Rest
    <3>2. CASE i <= N
      <4>1. i + 1 \in 1..(N + 1) /\ i \in 1..N
        BY <1>1, <3>2
      <4>2. A[i] = <<w[i]>> \o Rest(w, i + 1)
        BY <3>2, <4>1
      <4>3. <<w[i]>> \o Rest(w, i + 1) = Rest(w, i)
        BY <4>1, RestParts
      <4>4. rests[i] = Rest(w, i)
        OBVIOUS
      <4> HIDE DEF rests, A
      <4> QED
        BY <4>2, <4>3, <4>4
    <3>3. i > N \/ i <= N
      BY <1>1
    <3> HIDE DEF rests, A
    <3> QED
      BY <3>1, <3>2, <3>3
  <2>2. rests = A
    BY <2>1
  <2> HIDE DEF rests, pre, last
  <2> QED
    BY <1>2, <2>2
<1> HIDE DEF pre, last, rests
<1>4. ASSUME NEW g PROVE Scans(g, N + 1, Each(N), pre, last) <=> g = rests
  <2> DEFINE M == N + 1
  <2>1. M \in Nat /\ Forward(M, Each(N)) /\ Scans(rests, M, Each(N), pre, last)
    BY <1>1, <1>3
  <2> HIDE DEF M
  <2>2. Scans(g, M, Each(N), pre, last) => g = rests
    BY <2>1, ScanUnique
  <2> QED
    BY <2>1, <2>2 DEF M
<1> QED
  BY <1>2, <1>4 DEF rests

\* The file has the lines of the pairs, and is read as they are.
LEMMA ReadsPairs ==
  ASSUME NEW w, Writable(w),
         NEW files, files = [file \in {DefaultFile} |-> [i \in DOMAIN w |-> LineOf(w[i])]]
  PROVE  ReadFile(files, DefaultFile) = w
<1> DEFINE N == Len(w)
           lines == files[DefaultFile]
           Body(file, read, g) ==
             [i \in 1..(Len(files[file]) + 1) |->
                IF i > Len(files[file]) THEN <<>>
                ELSE LET p == Parsed(files[file][i])
                     IN CASE p = <<>> -> g[i + 1]
                          [] p # <<>> /\ Thrown \in {p[1].name, p[1].value} -> <<>>
                          [] p # <<>> /\ p[1].name = Include ->
                               (IF p[1].value \in DOMAIN files THEN read[p[1].value] ELSE <<>>) \o g[i + 1]
                          [] OTHER -> p \o g[i + 1]]
           From(file, read) == CHOOSE g : g = Body(file, read, g)
           Read(read) == [file \in DOMAIN files |-> From(file, read)[1]]
           read0 == CHOOSE read : read = Read(read)
           rests == [i \in 1..(N + 1) |-> Rest(w, i)]
<1>1. w \in Seq(Pair) /\ N \in Nat /\ DOMAIN w = 1..N
  BY DEF Writable
<1>2. DOMAIN files = {DefaultFile} /\ Len(lines) = N /\ \A i \in 1..N : lines[i] = LineOf(w[i])
  <2>2. DOMAIN files = {DefaultFile} /\ lines = [i \in 1..N |-> LineOf(w[i])]
    BY <1>1
  <2> HIDE DEF lines
  <2> QED
    BY <1>1, <2>2
<1>3. ASSUME NEW i \in 1..N
      PROVE  Parsed(lines[i]) = <<w[i]>> /\ w[i].name # Include /\ Thrown \notin {w[i].name, w[i].value}
  <2>1. w[i] \in Pair /\ Names(w[i].name) /\ Holds(w[i].value) /\ w[i].name # Include
    BY <1>1 DEF Writable
  <2>2. Parsed(LineOf(w[i])) = <<[name |-> w[i].name, value |-> w[i].value]>>
    BY <2>1, ParsedLine
  <2>3. w[i] = [name |-> w[i].name, value |-> w[i].value]
    BY <2>1 DEF Pair
  <2>4. ASSUME NEW s \in Seq(Codes) PROVE s # Thrown
    <3>1. Thrown[1] = -1 /\ Len(Thrown) = 1 /\ -1 \notin Codes
      BY DEF Thrown, Codes
    <3>2. Len(s) = 1 => s[1] \in Codes
      OBVIOUS
    <3> QED
      BY <3>1, <3>2
  <2>5. w[i].name \in Seq(Codes) /\ w[i].value \in Seq(Codes)
    BY <2>1 DEF Pair
  <2> QED
    BY <1>2, <2>1, <2>2, <2>3, <2>4, <2>5
<1>4. ASSUME NEW read, NEW g
      PROVE  Body(DefaultFile, read, g) =
               [i \in 1..(N + 1) |-> IF i > N THEN <<>> ELSE <<w[i]>> \o g[i + 1]]
  <2> DEFINE Item(line, rest) ==
               LET p == Parsed(line)
               IN CASE p = <<>> -> rest
                    [] p # <<>> /\ Thrown \in {p[1].name, p[1].value} -> <<>>
                    [] p # <<>> /\ p[1].name = Include ->
                         (IF p[1].value \in DOMAIN files THEN read[p[1].value] ELSE <<>>) \o rest
                    [] OTHER -> p \o rest
             A == [i \in 1..(N + 1) |-> IF i > N THEN <<>> ELSE <<w[i]>> \o g[i + 1]]
             B == [i \in 1..(Len(lines) + 1) |->
                     IF i > Len(lines) THEN <<>> ELSE Item(lines[i], g[i + 1])]
  <2>1. Body(DefaultFile, read, g) = B
    BY Zenon
  <2>2. ASSUME NEW line, NEW rest, NEW q, Parsed(line) = <<q>>,
               q.name # Include, Thrown \notin {q.name, q.value}
        PROVE  Item(line, rest) = <<q>> \o rest
    <3>1. <<q>> # <<>> /\ <<q>>[1] = q
      OBVIOUS
    <3> QED
      BY <2>2, <3>1
  <2> HIDE DEF Item, Body, lines
  <2>3. ASSUME NEW i \in 1..(N + 1) PROVE B[i] = A[i]
    <3>1. CASE i > N
      BY <1>2, <3>1
    <3>2. CASE i <= N
      <4>1. i \in 1..N
        BY <1>1, <3>2
      <4>2. Item(lines[i], g[i + 1]) = <<w[i]>> \o g[i + 1]
        BY <1>3, <2>2, <4>1
      <4>3. B[i] = Item(lines[i], g[i + 1])
        BY <1>1, <1>2, <3>2
      <4>4. A[i] = <<w[i]>> \o g[i + 1]
        BY <1>1, <3>2
      <4> HIDE DEF A, B
      <4> QED
        BY <4>2, <4>3, <4>4
    <3> QED
      BY <1>1, <3>1, <3>2
  <2>4. A = B
    BY <1>2, <2>3
  <2> QED
    BY <2>1, <2>4
<1>5. ASSUME NEW read PROVE From(DefaultFile, read) = rests
  <2>1. \A g : g = Body(DefaultFile, read, g) <=> g = rests
    <3> TAKE g
    <3>1. g = [i \in 1..(N + 1) |-> IF i > N THEN <<>> ELSE <<w[i]>> \o g[i + 1]] <=> g = rests
      BY <1>1, PairsScan
    <3> HIDE DEF Body, rests
    <3> QED
      BY <1>4, <3>1
  <2> HIDE DEF Body, rests
  <2> QED
    BY <2>1
<1>6. rests[1] = w
  BY <1>1 DEF Rest
<1>7. ASSUME NEW read PROVE Read(read) = [file \in {DefaultFile} |-> w]
  <2> HIDE DEF From, rests
  <2> QED
    BY <1>2, <1>5, <1>6
<1>8. read0 = [file \in {DefaultFile} |-> w]
  <2> HIDE DEF Read
  <2> QED
    BY <1>7
<1>9. ReadFile(files, DefaultFile) = IF DefaultFile \in DOMAIN files THEN read0[DefaultFile] ELSE <<>>
  BY Zenon DEF ReadFile
<1> HIDE DEF read0
<1> QED
  BY <1>2, <1>8, <1>9

-----------------------------------------------------------------------------
(* Overriding *)

Named(X, Y) == [name : X, value : Y]

Overrides(v, arg, w) ==
  /\ Instances(w, arg.name) # {}
  /\ w[Min(Instances(w, arg.name))].value = arg.value
  /\ Instances(v, arg.name) # {} => Instances(w, arg.name) = Instances(v, arg.name)
  /\ Instances(v, arg.name) = {} => Instances(w, arg.name) = {Len(v) + 1}
  /\ \A k : k # arg.name => /\ Instances(w, k) = Instances(v, k)
                            /\ \A j \in Instances(v, k) : w[j] = v[j]

\* Overriding a pair: the first instance of its name has its value, an instance
\* is added only if there was none, and the pairs of other names stay.
LEMMA OverrideIs ==
  ASSUME NEW X, NEW Y, NEW v \in Seq(Named(X, Y)), NEW arg \in Named(X, Y)
  PROVE  Override(v, arg) \in Seq(Named(X, Y)) /\ Overrides(v, arg, Override(v, arg))
<1> DEFINE P == [name : X, value : Y]
           w == Override(v, arg)
           n == arg.name
           own == Instances(v, n)
<1>1. /\ v \in Seq(P) /\ Len(v) \in Nat /\ DOMAIN v = 1..Len(v)
      /\ \A i \in 1..Len(v) : v[i] \in P
  <2>1. v \in Seq(P)
    BY DEF Named
  <2> HIDE DEF P
  <2> QED
    BY <2>1
<1>2. \A k : Instances(v, k) = {i \in 1..Len(v) : v[i].name = k}
  BY <1>1 DEF Instances
<1>0. arg \in P
  BY DEF Named
<1> HIDE DEF w
<1> SUFFICES /\ w \in Seq(P) /\ Instances(w, n) # {}
             /\ w[Min(Instances(w, n))].value = arg.value
             /\ Instances(v, n) # {} => Instances(w, n) = Instances(v, n)
             /\ Instances(v, n) = {} => Instances(w, n) = {Len(v) + 1}
             /\ \A k : k # n => /\ Instances(w, k) = Instances(v, k)
                                /\ \A j \in Instances(v, k) : w[j] = v[j]
  BY Zenon DEF Overrides, w, Named
<1>3. CASE own = {}
  <2>1. w = Append(v, arg)
    BY <1>3 DEF Override, w
  <2>2. /\ w \in Seq(P) /\ Len(w) = Len(v) + 1 /\ w[Len(v) + 1] = arg
        /\ \A i \in 1..Len(v) : w[i] = v[i]
    BY <1>0, <1>1, <2>1
  <2>3. DOMAIN w = 1..(Len(v) + 1)
    BY <2>2
  <2>4. \A k : Instances(w, k) = {i \in 1..(Len(v) + 1) : w[i].name = k}
    BY <2>3 DEF Instances
  <2>5. Instances(w, n) = {Len(v) + 1}
    <3>1. \A i \in 1..Len(v) : v[i].name # n
      BY <1>2, <1>3
    <3>2. \A i \in 1..(Len(v) + 1) : w[i].name = n <=> i = Len(v) + 1
      <4> TAKE i \in 1..(Len(v) + 1)
      <4>1. CASE i = Len(v) + 1
        BY <2>2, <4>1
      <4>2. CASE i \in 1..Len(v)
        BY <1>1, <2>2, <3>1, <4>2
      <4> QED
        BY <1>1, <4>1, <4>2
    <3>3. Len(v) + 1 \in 1..(Len(v) + 1)
      BY <1>1
    <3> QED
      BY <2>4, <3>2, <3>3
  <2>6. Min({Len(v) + 1}) = Len(v) + 1
    <3> DEFINE m == Len(v) + 1
    <3>1. {m} \in SUBSET Nat /\ m \in {m} /\ \A k \in {m} : m <= k
      BY <1>1
    <3> HIDE DEF m
    <3>2. Min({m}) = m
      BY <3>1, MinOf
    <3> QED
      BY <3>2 DEF m
  <2>7. ASSUME NEW k, k # n
        PROVE  Instances(w, k) = Instances(v, k) /\ \A j \in Instances(v, k) : w[j] = v[j]
    <3>1. \A i \in 1..(Len(v) + 1) : w[i].name = k <=> (i \in 1..Len(v) /\ v[i].name = k)
      <4> TAKE i \in 1..(Len(v) + 1)
      <4>1. CASE i = Len(v) + 1
        BY <1>1, <2>2, <2>7, <4>1
      <4>2. CASE i \in 1..Len(v)
        BY <2>2, <4>2
      <4> QED
        BY <1>1, <4>1, <4>2
    <3>2. 1..Len(v) \subseteq 1..(Len(v) + 1)
      BY <1>1
    <3> QED
      BY <1>2, <2>2, <2>4, <3>1, <3>2
  <2> QED
    BY <1>3, <2>2, <2>5, <2>6, <2>7
<1>4. CASE own # {}
  <2> DEFINE m == Min(own)
  <2>1. m \in 1..Len(v) /\ v[m].name = n
    <3>1. own \in SUBSET Nat /\ own = {i \in 1..Len(v) : v[i].name = n}
      BY <1>1, <1>2
    <3> HIDE DEF own
    <3>2. Min(own) \in own
      BY <1>4, <3>1, MinIs
    <3> QED
      BY <3>1, <3>2
  <2> DEFINE q == [v[m] EXCEPT !.value = arg.value]
  <2>2. w = [v EXCEPT ![m] = q]
    <3>1. w = [v EXCEPT ![Min(Instances(v, arg.name))].value = arg.value]
      BY <1>4 DEF Override, w
    <3> QED
      BY <3>1
  <2>3. q \in P /\ q.name = v[m].name /\ q.value = arg.value
    BY <1>0, <1>1, <2>1
  <2> HIDE DEF q, m
  <2>4. /\ w \in Seq(P) /\ DOMAIN w = 1..Len(v) /\ w[m] = q
        /\ \A i \in 1..Len(v) : i # m => w[i] = v[i]
    BY <1>1, <2>1, <2>2, <2>3
  <2>5. \A i \in 1..Len(v) : w[i].name = v[i].name
    BY <2>3, <2>4
  <2>6. ASSUME NEW k PROVE Instances(w, k) = Instances(v, k)
    BY <1>2, <2>4, <2>5 DEF Instances
  <2>7. w[Min(Instances(w, n))].value = arg.value
    BY <2>3, <2>4, <2>6 DEF m
  <2>8. ASSUME NEW k, k # n, NEW j \in Instances(v, k) PROVE w[j] = v[j]
    <3>1. j \in 1..Len(v) /\ v[j].name = k
      BY <1>2
    <3>2. j # m
      BY <2>1, <2>8, <3>1
    <3> QED
      BY <2>4, <3>1, <3>2
  <2> QED
    BY <1>4, <2>4, <2>6, <2>7, <2>8
<1> QED
  BY <1>3, <1>4

\* The arguments of a name among the first n, and what the command line leaves
\* of the pairs: the last argument of each name, and the pairs of the file as
\* many as they were.
Saying(said, n, k) == {j \in 1..n : said[j] # <<>> /\ said[j][1].name = k}

Overridden(said, n, v0, v) ==
  \A k : /\ Saying(said, n, k) = {} => Instances(v, k) = Instances(v0, k)
         /\ Saying(said, n, k) # {} =>
              /\ Instances(v, k) # {}
              /\ v[Min(Instances(v, k))].value = said[Max(Saying(said, n, k))][1].value
              /\ Instances(v0, k) # {} => Instances(v, k) = Instances(v0, k)
              /\ Instances(v0, k) = {} => \E m : Instances(v, k) = {m}

\* One more argument.
LEMMA OverriddenStep ==
  ASSUME NEW X, NEW Y, NEW v0, NEW v \in Seq(Named(X, Y)),
         NEW said, NEW n \in Nat,
         said[n + 1] # <<>> => said[n + 1][1] \in Named(X, Y),
         Overridden(said, n, v0, v),
         NEW w, w = IF said[n + 1] = <<>> THEN v ELSE Override(v, said[n + 1][1])
  PROVE  w \in Seq(Named(X, Y)) /\ Overridden(said, n + 1, v0, w)
<1> DEFINE arg == said[n + 1][1]
<1>1. CASE said[n + 1] = <<>>
  <2>1. w = v
    BY <1>1
  <2>2. \A k : Saying(said, n + 1, k) = Saying(said, n, k)
    <3> TAKE k
    <3>1. \A j \in 1..(n + 1) : said[j] # <<>> => j \in 1..n
      BY <1>1
    <3>2. 1..n \subseteq 1..(n + 1)
      OBVIOUS
    <3> QED
      BY <3>1, <3>2 DEF Saying
  <2>3. Overridden(said, n, v0, w) = Overridden(said, n + 1, v0, w)
    BY <2>2, Zenon DEF Overridden
  <2> QED
    BY <2>1, <2>3
<1>2. CASE said[n + 1] # <<>>
  <2>0. arg \in Named(X, Y) /\ w = Override(v, arg)
    BY <1>2
  <2> HIDE DEF arg
  <2>6. w \in Seq(Named(X, Y)) /\ Overrides(v, arg, w)
    BY <2>0, OverrideIs
  <2>1. /\ Instances(w, arg.name) # {}
        /\ w[Min(Instances(w, arg.name))].value = arg.value
        /\ Instances(v, arg.name) # {} => Instances(w, arg.name) = Instances(v, arg.name)
        /\ Instances(v, arg.name) = {} => Instances(w, arg.name) = {Len(v) + 1}
        /\ \A k : k # arg.name => /\ Instances(w, k) = Instances(v, k)
                                  /\ \A j \in Instances(v, k) : w[j] = v[j]
    BY <2>6 DEF Overrides
  <2>2. ASSUME NEW k, k # arg.name
        PROVE  Saying(said, n + 1, k) = Saying(said, n, k)
    <3>1. \A j \in 1..(n + 1) : j \in 1..n \/ j = n + 1
      OBVIOUS
    <3>2. 1..n \subseteq 1..(n + 1)
      OBVIOUS
    <3> QED
      BY <2>2, <3>1, <3>2 DEF Saying, arg
  <2>3. Max(Saying(said, n + 1, arg.name)) = n + 1 /\ Saying(said, n + 1, arg.name) # {}
    <3> DEFINE T == Saying(said, n + 1, arg.name)
    <3>1. T \in SUBSET Nat /\ n + 1 \in T /\ \A k \in T : k <= n + 1
      BY <1>2 DEF Saying, arg
    <3> HIDE DEF T
    <3>2. Max(T) = n + 1
      BY <3>1, MaxOf
    <3> QED
      BY <3>1, <3>2 DEF T
  <2>4. Saying(said, n, arg.name) # {} => Instances(v, arg.name) # {}
    BY DEF Overridden
  <2>5. ASSUME NEW k
        PROVE  /\ Saying(said, n + 1, k) = {} => Instances(w, k) = Instances(v0, k)
               /\ Saying(said, n + 1, k) # {} =>
                    /\ Instances(w, k) # {}
                    /\ w[Min(Instances(w, k))].value = said[Max(Saying(said, n + 1, k))][1].value
                    /\ Instances(v0, k) # {} => Instances(w, k) = Instances(v0, k)
                    /\ Instances(v0, k) = {} => \E m : Instances(w, k) = {m}
    <3>0. /\ Saying(said, n, k) = {} => Instances(v, k) = Instances(v0, k)
          /\ Saying(said, n, k) # {} =>
               /\ Instances(v, k) # {}
               /\ v[Min(Instances(v, k))].value = said[Max(Saying(said, n, k))][1].value
               /\ Instances(v0, k) # {} => Instances(v, k) = Instances(v0, k)
               /\ Instances(v0, k) = {} => \E m : Instances(v, k) = {m}
      BY DEF Overridden
    <3>1. CASE k = arg.name
      <4>1. w[Min(Instances(w, k))].value = said[Max(Saying(said, n + 1, k))][1].value
        BY <2>1, <2>3, <3>1 DEF arg
      <4>2. Instances(v0, k) # {} => Instances(w, k) = Instances(v0, k)
        BY <2>1, <3>0, <3>1
      <4>3. Instances(v0, k) = {} => \E m : Instances(w, k) = {m}
        BY <2>1, <3>0, <3>1
      <4> QED
        BY <2>1, <2>3, <3>1, <4>1, <4>2, <4>3
    <3>2. CASE k # arg.name
      <4>1. Saying(said, n + 1, k) = Saying(said, n, k) /\ Instances(w, k) = Instances(v, k)
        BY <2>1, <2>2, <3>2
      <4>2. Instances(v, k) # {} => w[Min(Instances(v, k))] = v[Min(Instances(v, k))]
        <5>1. Instances(v, k) \in SUBSET Nat
          BY DEF Instances
        <5>2. Instances(v, k) # {} => Min(Instances(v, k)) \in Instances(v, k)
          BY <5>1, MinIs
        <5> QED
          BY <2>1, <3>2, <5>2
      <4> QED
        BY <3>0, <4>1, <4>2
    <3> QED
      BY <3>1, <3>2
  <2> QED
    BY <2>5, <2>6 DEF Overridden
<1> QED
  BY <1>1, <1>2

\* What the arguments say, when each is a name and a value or nothing.
SaidAs(said, args) == said = [i \in DOMAIN args |-> Argument(i, args[i])]

\* The loop over the arguments.
LEMMA ReadAllIs ==
  ASSUME NEW args, NEW N \in Nat, DOMAIN args = 1..N, Len(args) = N,
         NEW said, SaidAs(said, args),
         \A i \in 1..N : said[i] # <<>> => said[i][1].name # ConfigFile
                                           /\ said[i][1] = [name |-> said[i][1].name, value |-> said[i][1].value],
         NEW files, NEW filename, NEW w, w = ReadFile(files, filename), w \in Seq(Pair)
  PROVE  Overridden(said, N, w, ReadAll(args, files, filename))
<1> DEFINE named == {i \in DOMAIN args : said[i] # <<>> /\ said[i][1].name = ConfigFile}
           file == IF named = {} THEN filename ELSE said[Max(named)][1].value
           Body(h) == [i \in 0..Len(args) |->
                         CASE i = 0 -> ReadFile(files, file)
                           [] i > 0 /\ said[i] = <<>> -> h[i - 1]
                           [] OTHER -> Override(h[i - 1], said[i][1])]
           after == CHOOSE h : h = Body(h)
           X == Seq(Codes) \union {said[i][1].name : i \in 1..N}
           Y == Seq(Codes) \union {said[i][1].value : i \in 1..N}
           V == Seq(Named(X, Y))
           step == [x \in (1..N) \X V |->
                      IF said[x[1]] = <<>> THEN x[2] ELSE Override(x[2], said[x[1]][1])]
<1>1. ReadFile(files, file) = w
  <2>1. named = {}
    OBVIOUS
  <2> HIDE DEF named
  <2>2. file = filename
    BY <2>1
  <2> HIDE DEF file
  <2> QED
    BY <2>2
<1>2. ASSUME NEW i \in 1..N, said[i] # <<>>
      PROVE  said[i][1] \in Named(X, Y)
  <2> DEFINE n == said[i][1].name
             v == said[i][1].value
  <2>1. said[i][1] = [name |-> n, value |-> v]
    BY <1>2
  <2>2. n \in X /\ v \in Y
    OBVIOUS
  <2> HIDE DEF n, v, X, Y
  <2> QED
    BY <2>1, <2>2 DEF Named
<1>3. w \in V
  <2>1. Pair \subseteq Named(X, Y)
    <3>1. Seq(Codes) \subseteq X /\ Seq(Codes) \subseteq Y
      OBVIOUS
    <3> HIDE DEF X, Y
    <3> QED
      BY <3>1 DEF Pair, Named
  <2> DEFINE P == Pair
             Q == Named(X, Y)
  <2>2. P \subseteq Q /\ w \in Seq(P)
    BY <2>1
  <2> HIDE DEF P, Q
  <2>3. w \in Seq(Q)
    BY <2>2
  <2> QED
    BY <2>3 DEF Q
<1>4. step \in [(1..N) \X V -> V]
  <2>1. ASSUME NEW i \in 1..N, NEW v \in V
        PROVE  (IF said[i] = <<>> THEN v ELSE Override(v, said[i][1])) \in V
    <3>1. CASE said[i] = <<>>
      BY <3>1
    <3>2. CASE said[i] # <<>>
      <4>1. said[i][1] \in Named(X, Y) /\ v \in Seq(Named(X, Y))
        BY <1>2, <3>2
      <4> HIDE DEF X, Y
      <4> QED
        BY <3>2, <4>1, OverrideIs
    <3> QED
      BY <3>1, <3>2
  <2> HIDE DEF V
  <2> QED
    BY <2>1
<1> HIDE DEF X, Y, V, step
<1>5. PICK f \in [0..N -> V] : f = [n \in 0..N |-> IF n = 0 THEN w ELSE step[<<n, f[n - 1]>>]]
  <2>1. \E f \in [0..N -> V] : Loops(f, N, w, step)
    BY <1>3, <1>4, LoopExists
  <2> QED
    BY <2>1 DEF Loops
<1> HIDE DEF file
<1>6. f = Body(f)
  <2> DEFINE B == Body(f)
  <2>1. ASSUME NEW i \in 0..N PROVE f[i] = B[i]
    <3>1. CASE i = 0
      BY <1>1, <1>5, <3>1
    <3>2. CASE i # 0
      <4>1. i \in 1..N /\ i - 1 \in 0..N /\ i > 0
        BY <3>2
      <4>2. <<i, f[i - 1]>> \in (1..N) \X V
        BY <1>5, <4>1
      <4>3. f[i] = step[<<i, f[i - 1]>>]
        BY <1>5, <3>2
      <4>4. f[i] = IF said[i] = <<>> THEN f[i - 1] ELSE Override(f[i - 1], said[i][1])
        BY <4>2, <4>3 DEF step
      <4>5. B[i] = IF said[i] = <<>> THEN f[i - 1] ELSE Override(f[i - 1], said[i][1])
        BY <3>2, <4>1
      <4> QED
        BY <4>4, <4>5
    <3> QED
      BY <3>1, <3>2
  <2>2. f = [i \in 0..N |-> f[i]] /\ B = [i \in 0..N |-> B[i]]
    BY <1>5
  <2> HIDE DEF B
  <2>3. f = B
    BY <2>1, <2>2
  <2> QED
    BY <2>3 DEF B
<1>7. after = Body(after)
  <2> HIDE DEF Body
  <2> QED
    BY <1>6
<1> HIDE DEF after
<1>8. after[0] = w
  <2>1. after[0] = Body(after)[0] /\ 0 \in 0..Len(args)
    BY <1>7
  <2> QED
    BY <1>1, <2>1
<1>9. ASSUME NEW n \in 0..(N - 1)
      PROVE  after[n + 1] = IF said[n + 1] = <<>> THEN after[n] ELSE Override(after[n], said[n + 1][1])
  <2>1. n + 1 \in 0..Len(args) /\ n + 1 # 0 /\ n + 1 > 0 /\ (n + 1) - 1 = n
    OBVIOUS
  <2>2. after[n + 1] = Body(after)[n + 1]
    BY <1>7
  <2> QED
    BY <2>1, <2>2
<1> DEFINE S == {n \in 0..N : after[n] \in V /\ Overridden(said, n, w, after[n])}
<1>10. 0 \in S
  <2>1. \A k : Saying(said, 0, k) = {}
    BY DEF Saying
  <2>2. Overridden(said, 0, w, w)
    BY <2>1 DEF Overridden
  <2> QED
    BY <1>3, <1>8, <2>2
<1>11. \A n \in 0..(N - 1) : n \in S => n + 1 \in S
  <2> TAKE n \in 0..(N - 1)
  <2> HAVE n \in S
  <2>1. n \in Nat /\ n + 1 \in 0..N /\ n + 1 \in 1..N
    OBVIOUS
  <2>2. after[n] \in Seq(Named(X, Y)) /\ Overridden(said, n, w, after[n])
    BY DEF V
  <2>3. said[n + 1] # <<>> => said[n + 1][1] \in Named(X, Y)
    BY <1>2, <2>1
  <2>4. after[n + 1] = IF said[n + 1] = <<>> THEN after[n] ELSE Override(after[n], said[n + 1][1])
    BY <1>9
  <2> HIDE DEF S
  <2>5. after[n + 1] \in Seq(Named(X, Y)) /\ Overridden(said, n + 1, w, after[n + 1])
    BY <2>1, <2>2, <2>3, <2>4, OverriddenStep
  <2> QED
    BY <2>1, <2>5 DEF S, V
<1>12. N \in S
  <2> HIDE DEF S
  <2>1. 0..N \subseteq S
    BY <1>10, <1>11, RangeInduction
  <2> QED
    BY <2>1
<1>13. ReadAll(args, files, filename) = after[Len(args)]
  <2> DEFINE Named1(sd) == {i \in DOMAIN args : sd[i] # <<>> /\ sd[i][1].name = ConfigFile}
             File(sd) == IF Named1(sd) = {} THEN filename ELSE sd[Max(Named1(sd))][1].value
             All(sd) == (CHOOSE h :
                           h = [i \in 0..Len(args) |->
                                  CASE i = 0 -> ReadFile(files, File(sd))
                                    [] i > 0 /\ sd[i] = <<>> -> h[i - 1]
                                    [] OTHER -> Override(h[i - 1], sd[i][1])])[Len(args)]
  <2>1. ReadAll(args, files, filename) = All([i \in DOMAIN args |-> Argument(i, args[i])])
    BY Zenon DEF ReadAll
  <2>2. All(said) = after[Len(args)]
    BY Zenon DEF after, file
  <2> HIDE DEF All
  <2> QED
    BY <2>1, <2>2, Zenon DEF SaidAs
<1> QED
  BY <1>12, <1>13

-----------------------------------------------------------------------------
(* split() *)

\* The places split() goes through.
Cuts(t, f) == [i \in 1..(Len(t) + 1) |->
                 IF Find(t, f, i) = 0 THEN <<>> ELSE <<SubSeq(t, i, Find(t, f, i) - 1)>>]
Lasts(t) == [i \in 1..(Len(t) + 1) |-> <<Rest(t, i)>>]
SplitScan(g, t, f) == Scans(g, Len(t) + 1, Onward(t, f), Cuts(t, f), Lasts(t))

\* split() is the scan of those places.
LEMMA SplitScans ==
  ASSUME NEW V, NEW t \in Seq(V), NEW c, <<c>> \in Seq(V) \ {<<>>}
  PROVE  \E g \in [1..(Len(t) + 1) -> Seq(Seq(V))] :
           SplitScan(g, t, <<c>>) /\ (t # <<>> => Split(t, c) = g[1])
<1> DEFINE N == Len(t) + 1
           f == <<c>>
           Body(g) == [i \in 1..N |->
                         LET loc == Find(t, <<c>>, i)
                         IN IF loc = 0 THEN <<Rest(t, i)>>
                            ELSE <<SubSeq(t, i, loc - 1)>> \o g[loc + 1]]
           from == CHOOSE g : g = Body(g)
<1>9. f \in Seq(V) \ {<<>>} /\ Len(f) = 1
  OBVIOUS
<1>8. f = <<c>>
  OBVIOUS
<1> HIDE DEF f
<1>0. N \in Nat /\ Forward(N, Onward(t, f)) /\ \A i \in 1..N : Onward(t, f)[i] = 0 <=> Find(t, f, i) = 0
  BY <1>9, OnwardForward
<1>1. Cuts(t, f) \in [1..N -> Seq(Seq(V))] /\ Lasts(t) \in [1..N -> Seq(Seq(V))]
  <2>1. ASSUME NEW i \in 1..N
        PROVE  /\ (IF Find(t, f, i) = 0 THEN <<>> ELSE <<SubSeq(t, i, Find(t, f, i) - 1)>>) \in Seq(Seq(V))
               /\ <<Rest(t, i)>> \in Seq(Seq(V))
    <3>7. i \in Nat \ {0} /\ f \in Seq(V)
      BY <1>9
    <3>1. Find(t, f, i) # 0 => Find(t, f, i) \in i..(Len(t) - Len(f) + 1)
      BY <3>7, FindIs
    <3>2. Len(f) \in Nat \ {0} /\ Len(t) \in Nat
      BY <1>9
    <3>0. Rest(t, i) \in Seq(V)
      BY <3>2 DEF Rest
    <3>6. \A x \in Seq(V) : <<x>> \in Seq(Seq(V))
      OBVIOUS
    <3>3. CASE Find(t, f, i) = 0
      BY <3>0, <3>3, <3>6
    <3>4. CASE Find(t, f, i) # 0
      <4>1. SubSeq(t, i, Find(t, f, i) - 1) \in Seq(V)
        BY <3>1, <3>2, <3>4
      <4> QED
        BY <3>0, <3>4, <3>6, <4>1
    <3> QED
      BY <3>3, <3>4
  <2> QED
    BY <2>1 DEF Cuts, Lasts
<1>2. PICK g \in [1..N -> Seq(Seq(V))] : SplitScan(g, t, f)
  <2> HIDE DEF N
  <2> DEFINE W == Seq(V)
  <2>0. Cuts(t, f) \in [1..N -> Seq(W)] /\ Lasts(t) \in [1..N -> Seq(W)]
    BY <1>1
  <2> HIDE DEF W
  <2>1. \E g \in [1..N -> Seq(W)] : Scans(g, N, Onward(t, f), Cuts(t, f), Lasts(t))
    BY <1>0, <2>0, ScanExists
  <2> QED
    BY <2>1 DEF SplitScan, N, W
<1>3. ASSUME NEW h PROVE h = Body(h) <=> SplitScan(h, t, f)
  <2> DEFINE S == [i \in 1..N |-> IF Onward(t, f)[i] = 0 THEN Lasts(t)[i]
                                  ELSE Cuts(t, f)[i] \o h[Onward(t, f)[i]]]
             B == Body(h)
  <2>1. ASSUME NEW i \in 1..N PROVE B[i] = S[i]
    <3>0. B[i] = IF Find(t, f, i) = 0 THEN <<Rest(t, i)>>
                 ELSE <<SubSeq(t, i, Find(t, f, i) - 1)>> \o h[Find(t, f, i) + 1]
      BY <1>8
    <3>5. S[i] = IF Onward(t, f)[i] = 0 THEN Lasts(t)[i]
                 ELSE Cuts(t, f)[i] \o h[Onward(t, f)[i]]
      OBVIOUS
    <3> HIDE DEF B, S
    <3>1. CASE Find(t, f, i) = 0
      <4>1. Lasts(t)[i] = <<Rest(t, i)>>
        BY DEF Lasts
      <4> QED
        BY <1>0, <3>0, <3>1, <3>5, <4>1
    <3>2. CASE Find(t, f, i) # 0
      <4>1. Onward(t, f)[i] # 0
        BY <1>0, <3>2
      <4>2. Onward(t, f)[i] = Find(t, f, i) + 1
        BY <1>9, <3>2 DEF Onward
      <4>3. Cuts(t, f)[i] = <<SubSeq(t, i, Find(t, f, i) - 1)>>
        BY <3>2 DEF Cuts
      <4> QED
        BY <3>0, <3>2, <3>5, <4>1, <4>2, <4>3
    <3> QED
      BY <3>1, <3>2
  <2>2. Body(h) = S
    <3>1. B = [i \in 1..N |-> B[i]] /\ S = [i \in 1..N |-> S[i]]
      BY Zenon
    <3> HIDE DEF B, S
    <3>2. B = S
      BY <2>1, <3>1
    <3> QED
      BY <3>2 DEF B
  <2> QED
    BY <2>2, Zenon DEF SplitScan, Scans
<1>4. from = Body(from)
  <2>1. g = Body(g)
    BY <1>2, <1>3
  <2> HIDE DEF Body
  <2> QED
    BY <2>1
<1>5. SplitScan(from, t, f)
  BY <1>3, <1>4
<1>6. from \in [1..N -> Seq(Seq(V))]
  <2> HIDE DEF from
  <2>1. from = g
    BY <1>0, <1>2, <1>5, ScanUnique DEF SplitScan
  <2> QED
    BY <1>2, <2>1
<1>7. t # <<>> => Split(t, c) = from[1]
  BY Zenon DEF Split
<1> QED
  BY <1>5, <1>6, <1>7, <1>8

\* The first part of a text: up to the first symbol, or all of it.
LEMMA SplitFirst ==
  ASSUME NEW V, NEW t \in Seq(V), t # <<>>, NEW c, <<c>> \in Seq(V) \ {<<>>}
  PROVE  /\ Split(t, c) # <<>>
         /\ Split(t, c)[1] = IF Find(t, <<c>>, 1) = 0 THEN t
                             ELSE SubSeq(t, 1, Find(t, <<c>>, 1) - 1)
<1> DEFINE f == <<c>>
           m == Find(t, f, 1)
<1>1. f = <<c>> /\ f \in Seq(V) \ {<<>>} /\ Len(f) = 1 /\ 1 \in 1..(Len(t) + 1) /\ 1 \in Nat \ {0}
  OBVIOUS
<1> HIDE DEF f
<1>2. PICK g \in [1..(Len(t) + 1) -> Seq(Seq(V))] : SplitScan(g, t, f) /\ Split(t, c) = g[1]
  BY <1>1, SplitScans
<1>3. m \in Nat /\ (m # 0 => m \in 1..Len(t))
  <2>1. m \in Nat /\ (m # 0 => m \in 1..(Len(t) - Len(f) + 1))
    BY <1>1, FindIs
  <2>2. Len(t) - Len(f) + 1 = Len(t)
    BY <1>1
  <2> QED
    BY <2>1, <2>2
<1>4. g[1] = IF Onward(t, f)[1] = 0 THEN Lasts(t)[1] ELSE Cuts(t, f)[1] \o g[Onward(t, f)[1]]
  BY <1>1, <1>2 DEF SplitScan, Scans
<1>5. Onward(t, f)[1] = (IF m = 0 THEN 0 ELSE m + 1)
  BY <1>1 DEF Onward
<1>6. Lasts(t)[1] = <<t>>
  <2>1. Rest(t, 1) = t
    BY DEF Rest
  <2> QED
    BY <1>1, <2>1 DEF Lasts
<1>7. Cuts(t, f)[1] = (IF m = 0 THEN <<>> ELSE <<SubSeq(t, 1, m - 1)>>)
  BY <1>1 DEF Cuts
<1> HIDE DEF m
<1>8. CASE m = 0
  <2>1. g[1] = <<t>>
    BY <1>4, <1>5, <1>6, <1>8
  <2>2. <<t>> # <<>> /\ <<t>>[1] = t
    OBVIOUS
  <2> QED
    BY <1>1, <1>2, <1>8, <2>1, <2>2 DEF m
<1>9. CASE m # 0
  <2> DEFINE a == SubSeq(t, 1, m - 1)
             x == g[m + 1]
  <2>1. g[1] = <<a>> \o x
    BY <1>3, <1>4, <1>5, <1>7, <1>9
  <2>2. m + 1 \in 1..(Len(t) + 1)
    BY <1>3, <1>9
  <2>3. x \in Seq(Seq(V))
    BY <2>2
  <2>4. a \in Seq(V)
    BY <1>3, <1>9
  <2> DEFINE W == Seq(V)
  <2>5. a \in W /\ x \in Seq(W)
    BY <2>3, <2>4
  <2> HIDE DEF a, x, W
  <2>6. <<a>> \o x # <<>> /\ (<<a>> \o x)[1] = a
    <3>1. Len(<<a>> \o x) = Len(x) + 1 /\ (<<a>> \o x)[1] = a
      BY <2>5, FrontIs
    <3>2. Len(x) \in Nat
      BY <2>5
    <3> QED
      BY <3>1, <3>2
  <2> QED
    BY <1>1, <1>2, <1>9, <2>1, <2>6 DEF m, a
<1> QED
  BY <1>8, <1>9

-----------------------------------------------------------------------------
(* The arguments *)

Arg(t) == <<[name |-> t[1], value |-> ArgumentValue(t)]>>

\* An argument says its first part and what follows, an empty one nothing.
LEMMA ArgumentIs ==
  ASSUME NEW text \in Seq(Codes), NEW i \in Nat, i # 1
  PROVE  /\ text = <<>> => Argument(i, text) = <<>>
         /\ text # <<>> => /\ Argument(i, text) = Arg(Split(text, Equals))
                           /\ Split(text, Equals) # <<>>
<1>1. <<Equals>> \in Seq(Codes) \ {<<>>}
  BY DEF Equals, Codes
<1> DEFINE t == Split(text, Equals)
<1>2. Argument(i, text) = IF t = <<>> THEN <<>> ELSE Arg(t)
  BY Zenon DEF Argument, Arg
<1>3. CASE text = <<>>
  BY <1>2, <1>3 DEF Split
<1>4. CASE text # <<>>
  <2>1. t # <<>>
    BY <1>1, <1>4, SplitFirst
  <2> QED
    BY <1>2, <1>4, <2>1
<1> QED
  BY <1>3, <1>4

\* The program's own name is not taken for that of a configuration file.
LEMMA ArgumentZero ==
  ASSUME NEW text \in Seq(Codes)
  PROVE  /\ Argument(1, text) = Arg(Split(ExecName \o <<Equals>> \o text, Equals))
         /\ Argument(1, text) # <<>>
         /\ Split(ExecName \o <<Equals>> \o text, Equals)[1] # ConfigFile
<1> DEFINE s == ExecName \o <<Equals>> \o text
           t == Split(s, Equals)
           m == Find(s, <<Equals>>, 1)
<1>1. <<Equals>> \in Seq(Codes) \ {<<>>} /\ Len(<<Equals>>) = 1 /\ <<Equals>> \in Seq(Codes)
  BY DEF Equals, Codes
<1>2. s \in Seq(Codes) /\ Len(s) >= 2 /\ s[1] = 1
  <2>1. ExecName \in Seq(Codes) /\ Len(ExecName) = 1 /\ ExecName[1] = 1
    BY DEF ExecName, Codes
  <2> DEFINE u == ExecName \o <<Equals>>
  <2>6. u = <<1>> \o <<Equals>> /\ 1 \in Codes
    BY DEF ExecName, Codes
  <2>2. u \in Seq(Codes) /\ Len(u) = 2 /\ u[1] = 1
    <3>1. /\ <<1>> \o <<Equals>> \in Seq(Codes) /\ Len(<<1>> \o <<Equals>>) = Len(<<Equals>>) + 1
          /\ (<<1>> \o <<Equals>>)[1] = 1
      BY <1>1, <2>6, FrontIs
    <3> HIDE DEF u
    <3> QED
      BY <1>1, <2>6, <3>1
  <2> HIDE DEF u
  <2>3. u \o text \in Seq(Codes) /\ Len(u \o text) = Len(u) + Len(text) /\ \A i \in 1..Len(u) : (u \o text)[i] = u[i]
    BY <2>2, ConcatIs
  <2>4. 1 \in 1..Len(u) /\ Len(text) \in Nat
    BY <2>2
  <2>5. s = u \o text
    BY DEF u
  <2> HIDE DEF s
  <2> QED
    BY <2>2, <2>3, <2>4, <2>5
<1> HIDE DEF s
<1>3. /\ Split(s, Equals) # <<>>
      /\ Split(s, Equals)[1] = IF m = 0 THEN s ELSE SubSeq(s, 1, m - 1)
  <2>1. s # <<>>
    BY <1>2
  <2> QED
    BY <1>1, <1>2, <2>1, SplitFirst
<1>4. m \in Nat /\ (m # 0 => m \in 1..Len(s))
  <2>1. 1 \in Nat \ {0}
    OBVIOUS
  <2>2. m \in Nat /\ (m # 0 => m \in 1..(Len(s) - Len(<<Equals>>) + 1))
    BY <1>1, <1>2, <2>1, FindIs
  <2>3. Len(s) - Len(<<Equals>>) + 1 = Len(s)
    BY <1>1, <1>2
  <2> QED
    BY <2>2, <2>3
<1> HIDE DEF m
<1>5. t[1] # ConfigFile
  <2>1. ConfigFile[1] = 2 /\ Len(ConfigFile) = 1
    BY DEF ConfigFile
  <2>2. CASE m = 0
    <3>1. t[1] = s
      BY <1>3, <2>2
    <3> QED
      BY <1>2, <2>1, <3>1
  <2>3. CASE m # 0
    <3> DEFINE u == SubSeq(s, 1, m - 1)
    <3>1. t[1] = u
      BY <1>3, <2>3
    <3>2. Len(u) = m - 1 /\ (m - 1 >= 1 => u[1] = s[1])
      BY <1>2, <1>4, <2>3
    <3> HIDE DEF u
    <3>3. Len(u) = Len(ConfigFile) => u[1] # ConfigFile[1]
      <4> HAVE Len(u) = Len(ConfigFile)
      <4>1. m - 1 >= 1
        BY <2>1, <3>2
      <4> QED
        BY <1>2, <2>1, <3>2, <4>1
    <3> QED
      BY <3>1, <3>3
  <2> QED
    BY <2>2, <2>3
<1>6. Argument(1, text) = IF t = <<>> THEN <<>> ELSE Arg(t)
  BY Zenon DEF Argument, Arg, s
<1>7. Argument(1, text) = Arg(t)
  BY <1>3, <1>6
<1>8. Arg(t) # <<>>
  BY DEF Arg
<1> QED
  BY <1>5, <1>7, <1>8 DEF s

Later(said, N, k) == {j \in 2..N : said[j] # <<>> /\ said[j][1].name = k}

\* What get() and the instances are after the command line is read.
LEMMA CommandLine ==
  ASSUME NEW args, NEW N \in Nat, DOMAIN args = 1..N, Len(args) = N,
         NEW said, SaidAs(said, args),
         NEW w, w \in Seq(Pair), NEW v, Overridden(said, N, w, v),
         NEW k, Later(said, N, k) # {}
  PROVE  /\ Get1(v, k) = Argument(2, args[Max(Later(said, N, k))])[1].value
         /\ Cardinality(Instances(v, k)) = Max({1, Cardinality(Instances(w, k))})
<1> DEFINE all == Saying(said, N, k)
           later == Later(said, N, k)
           m == Max(later)
<1>0. later = {j \in 2..N : said[j] # <<>> /\ said[j][1].name = k} /\ later # {}
  BY DEF Later
<1> HIDE DEF later
<1>1. m \in later /\ \A j \in later : j <= m
  <2>1. later \in SUBSET (0..N)
    BY <1>0
  <2> QED
    BY <1>0, <2>1, MaxIs
<1> HIDE DEF m
<1>2. m \in all /\ Max(all) = m /\ all # {}
  <2>1. m \in 2..N /\ m \in Nat
    BY <1>0, <1>1
  <2>2. m \in all
    BY <1>0, <1>1, <2>1 DEF Saying
  <2>3. \A j \in all : j <= m
    <3> TAKE j \in all
    <3>1. j \in 1..N /\ (j = 1 \/ j \in later)
      BY <1>0 DEF Saying
    <3> QED
      BY <1>1, <2>1, <3>1
  <2>4. all \in SUBSET Nat
    BY DEF Saying
  <2> HIDE DEF all
  <2> QED
    BY <2>2, <2>3, <2>4, MaxOf
<1>3. /\ Instances(v, k) # {}
      /\ v[Min(Instances(v, k))].value = said[m][1].value
      /\ Instances(w, k) # {} => Instances(v, k) = Instances(w, k)
      /\ Instances(w, k) = {} => \E x : Instances(v, k) = {x}
  BY <1>2 DEF Overridden
<1>4. Get1(v, k) = said[m][1].value
  BY <1>3, Zenon DEF Get1, Exists
<1>5. said[m] = Argument(2, args[m])
  <2>1. m \in 1..N /\ m # 1 /\ 2 # 1
    BY <1>0, <1>1
  <2>2. said[m] = Argument(m, args[m])
    BY <2>1 DEF SaidAs
  <2>3. Argument(m, args[m]) = Argument(2, args[m])
    BY <2>1 DEF Argument
  <2> QED
    BY <2>2, <2>3
<1>6. Cardinality(Instances(v, k)) = Max({1, Cardinality(Instances(w, k))})
  <2> DEFINE own == Cardinality(Instances(w, k))
  <2>1. IsFiniteSet(Instances(w, k)) /\ own \in Nat
    <3>1. Instances(w, k) \in SUBSET (1..Len(w)) /\ Len(w) \in Int /\ 1 \in Int
      BY DEF Instances
    <3>2. IsFiniteSet(1..Len(w))
      BY <3>1, FS_Interval
    <3>3. IsFiniteSet(Instances(w, k))
      BY <3>1, <3>2, FS_Subset
    <3> QED
      BY <3>3, FS_CardinalityType
  <2>2. own = 0 <=> Instances(w, k) = {}
    BY <2>1, FS_EmptySet
  <2> HIDE DEF own
  <2>3. CASE Instances(w, k) = {}
    <3>1. Cardinality(Instances(v, k)) = 1
      BY <1>3, <2>3, FS_Singleton
    <3>2. Max({1, own}) = 1
      <4>1. {1, own} \in SUBSET Nat /\ 1 \in {1, own} /\ \A x \in {1, own} : x <= 1
        BY <2>1, <2>2, <2>3
      <4> DEFINE T == {1, own}
      <4>2. T \in SUBSET Nat /\ 1 \in T /\ \A x \in T : x <= 1
        BY <4>1
      <4> HIDE DEF T
      <4>3. Max(T) = 1
        BY <4>2, MaxOf
      <4> QED
        BY <4>3 DEF T
    <3> QED
      BY <3>1, <3>2 DEF own
  <2>4. CASE Instances(w, k) # {}
    <3>1. Cardinality(Instances(v, k)) = own
      BY <1>3, <2>4 DEF own
    <3>2. Max({1, own}) = own
      <4> DEFINE T == {1, own}
      <4>1. T \in SUBSET Nat /\ own \in T /\ \A x \in T : x <= own
        BY <2>1, <2>2, <2>4
      <4> HIDE DEF T
      <4>2. Max(T) = own
        BY <4>1, MaxOf
      <4> QED
        BY <4>2 DEF T
    <3> QED
      BY <3>1, <3>2 DEF own
  <2> QED
    BY <2>3, <2>4
<1> QED
  BY <1>4, <1>5, <1>6 DEF m, later

-----------------------------------------------------------------------------
(* What is read *)

\* As long as the inputs are remembered, they are inputs, and what was read is
\* what they say.
StartInv ==
  /\ argv # <<>> => /\ \E a \in Arguments : argv = <<<<112>>>> \o a
                    /\ pairs \in Written
                    /\ values # <<>> => values = ReadAll(argv, Files, DefaultFile)
  /\ pairs \in Written \union {<<>>}

\* It holds at first.
LEMMA StartFirst == StartInit => StartInv
<1> SUFFICES ASSUME StartInit PROVE StartInv
  OBVIOUS
<1>1. argv \in {<<<<112>>>> \o a : a \in Arguments} /\ pairs \in Written /\ values = <<>>
  BY DEF StartInit
<1> QED
  BY <1>1 DEF StartInv

\* Every step keeps StartInv.
LEMMA StartStep ==
  StartInv /\ [StartNext]_<<vars, conf>> => StartInv'
<1> SUFFICES ASSUME StartInv, [StartNext]_<<vars, conf>>
             PROVE  StartInv'
  OBVIOUS
<1>1. ASSUME UNCHANGED conf PROVE StartInv'
  BY <1>1 DEF StartInv, conf, Files
<1>2. CASE ReadConfig
  <2>1. argv' = argv /\ pairs' = pairs /\ values' = ReadAll(argv, Files, DefaultFile)
    BY <1>2 DEF ReadConfig
  <2>2. Files' = Files
    BY <2>1 DEF Files
  <2> QED
    BY <2>1, <2>2 DEF StartInv
<1>3. ASSUME \/ UNCHANGED conf
             \/ argv' = <<>> /\ pairs' = <<>>
      PROVE  StartInv'
  <2>1. CASE argv' = <<>> /\ pairs' = <<>>
    BY <2>1 DEF StartInv
  <2> QED
    BY <1>1, <1>3, <2>1
<1>4. CASE StartNext /\ ~ReadConfig
  <2>1. UNCHANGED conf \/ (argv' = <<>> /\ pairs' = <<>>)
    BY <1>4 DEF StartNext, Started
  <2> QED
    BY <1>3, <2>1
<1>5. CASE UNCHANGED <<vars, conf>>
  BY <1>1, <1>5
<1> QED
  BY <1>2, <1>4, <1>5

\* What is read of the file written from the pairs is the pairs.
LEMMA FileRead ==
  ASSUME pairs \in Written
  PROVE  ReadFile(Files, DefaultFile) = pairs
<1>1. Writable(pairs)
  BY StartAssumption
<1>2. Files = [file \in {DefaultFile} |-> [i \in DOMAIN pairs |-> LineOf(pairs[i])]]
  BY DEF Files
<1> QED
  BY <1>1, <1>2, ReadsPairs

\* It implies what PairsReadBack says.
LEMMA StartInvReads == StartInv => PairsReadBack
BY FileRead DEF StartInv, PairsReadBack

\* A file of names with values, a pair to a line with a comment behind it, reads as
\* these pairs, however many and whatever the fields (rules 1 to 4 of confreader.h;
\* a name without a value, rule 5, is not such a pair).
THEOREM PairsAlwaysReadBack == StartSpec => []PairsReadBack
<1> QED
  BY StartFirst, StartStep, StartInvReads, PTL DEF StartSpec

\* The parts of what was said, as the loop sees them.
LEMMA CommandSaid ==
  ASSUME StartInv, argv # <<>>
  PROVE  LET N == Len(argv)
             said == [i \in DOMAIN argv |-> Argument(i, argv[i])]
         IN /\ N \in Nat /\ DOMAIN argv = 1..N
            /\ \A i \in 1..N : said[i] # <<>> =>
                 /\ said[i][1].name # ConfigFile
                 /\ said[i][1] = [name |-> said[i][1].name, value |-> said[i][1].value]
            /\ Said = {j \in 2..N : said[j] # <<>>}
            /\ \A j \in Said : said[j][1].name = NameSaid(j)
<1> DEFINE N == Len(argv)
           said == [i \in DOMAIN argv |-> Argument(i, argv[i])]
<1>1. PICK a \in Arguments : argv = <<<<112>>>> \o a
  BY DEF StartInv
<1>2. /\ a \in Seq(Seq(Codes))
      /\ \A i \in 1..Len(a) : a[i] # <<>> => Split(a[i], Equals)[1] # ConfigFile
  BY StartAssumption
<1>3. /\ N \in Nat /\ N = Len(a) + 1 /\ DOMAIN argv = 1..N
      /\ argv[1] = <<112>> /\ \A i \in 1..Len(a) : argv[i + 1] = a[i]
  <2> DEFINE V == Seq(Codes)
             c == <<112>>
  <2>1. c \in V /\ a \in Seq(V)
    BY <1>2 DEF Codes
  <2> HIDE DEF V, c
  <2>2. /\ <<c>> \o a \in Seq(V) /\ Len(<<c>> \o a) = Len(a) + 1
        /\ (<<c>> \o a)[1] = c /\ \A i \in 1..Len(a) : (<<c>> \o a)[i + 1] = a[i]
    BY <2>1, FrontIs
  <2>3. argv = <<c>> \o a
    BY <1>1 DEF c
  <2>4. /\ argv \in Seq(V) /\ Len(argv) = Len(a) + 1
        /\ argv[1] = c /\ \A i \in 1..Len(a) : argv[i + 1] = a[i]
    BY <2>2, <2>3
  <2>5. Len(a) \in Nat /\ DOMAIN argv = 1..Len(argv)
    BY <2>1, <2>4
  <2> QED
    BY <2>4, <2>5 DEF c
<1>4. ASSUME NEW i \in 2..N
      PROVE  /\ argv[i] \in Seq(Codes)
             /\ argv[i] # <<>> => Split(argv[i], Equals)[1] # ConfigFile
  <2>1. i - 1 \in 1..Len(a) /\ (i - 1) + 1 = i
    BY <1>3
  <2>2. argv[i] = a[i - 1] /\ a[i - 1] \in Seq(Codes)
    <3>1. argv[(i - 1) + 1] = a[i - 1]
      BY <1>3, <2>1
    <3>2. a[i - 1] \in Seq(Codes)
      BY <1>2, <2>1
    <3> QED
      BY <2>1, <3>1, <3>2
  <2> QED
    BY <1>2, <2>1, <2>2
<1>5. \A i \in 1..N : said[i] = Argument(i, argv[i])
  BY <1>3
<1> HIDE DEF said, N
<1>6. ASSUME NEW i \in 2..N
      PROVE  /\ argv[i] = <<>> => said[i] = <<>>
             /\ argv[i] # <<>> => said[i] = Arg(Split(argv[i], Equals))
  <2>1. i \in 1..N /\ i \in Nat /\ i # 1
    BY <1>3
  <2> QED
    BY <1>4, <1>5, <2>1, ArgumentIs
<1>7. \A t : Arg(t) # <<>> /\ Arg(t)[1].name = t[1]
             /\ Arg(t)[1] = [name |-> Arg(t)[1].name, value |-> Arg(t)[1].value]
  BY DEF Arg
<1>8. said[1] = Arg(Split(ExecName \o <<Equals>> \o argv[1], Equals))
      /\ Split(ExecName \o <<Equals>> \o argv[1], Equals)[1] # ConfigFile
  <2>1. argv[1] \in Seq(Codes) /\ 1 \in 1..N
    BY <1>3 DEF Codes
  <2> QED
    BY <1>5, <2>1, ArgumentZero
<1>9. ASSUME NEW i \in 1..N, said[i] # <<>>
      PROVE  /\ said[i][1].name # ConfigFile
             /\ said[i][1] = [name |-> said[i][1].name, value |-> said[i][1].value]
  <2>1. CASE i = 1
    BY <1>7, <1>8, <2>1
  <2>2. CASE i \in 2..N
    BY <1>4, <1>6, <1>7, <1>9, <2>2
  <2> QED
    BY <1>3, <2>1, <2>2
<1>10. Said = {j \in 2..N : argv[j] # <<>>}
  BY DEF Said, N
<1>11. Said = {j \in 2..N : said[j] # <<>>}
  BY <1>6, <1>7, <1>10
<1>12. ASSUME NEW j \in Said PROVE said[j][1].name = NameSaid(j)
  <2>1. j \in 2..N /\ argv[j] # <<>>
    BY <1>10
  <2> QED
    BY <1>6, <1>7, <2>1 DEF NameSaid
<1> QED
  BY <1>3, <1>9, <1>11, <1>12 DEF said, N

\* And what CommandLineWins says.
LEMMA StartInvWins == StartInv => CommandLineWins
<1> SUFFICES ASSUME StartInv, argv # <<>>, values # <<>>, NEW i \in Said
             PROVE  LET later == {j \in Said : NameSaid(j) = NameSaid(i)}
                        own == Cardinality(Instances(pairs, NameSaid(i)))
                    IN /\ Get1(values, NameSaid(i)) = Argument(2, argv[Max(later)])[1].value
                       /\ Cardinality(Instances(values, NameSaid(i))) = Max({1, own})
  BY DEF CommandLineWins
<1> DEFINE N == Len(argv)
           said == [j \in DOMAIN argv |-> Argument(j, argv[j])]
           later == {j \in Said : NameSaid(j) = NameSaid(i)}
           k == NameSaid(i)
<1>1. /\ N \in Nat /\ DOMAIN argv = 1..N
      /\ \A j \in 1..N : said[j] # <<>> =>
           /\ said[j][1].name # ConfigFile
           /\ said[j][1] = [name |-> said[j][1].name, value |-> said[j][1].value]
      /\ Said = {j \in 2..N : said[j] # <<>>}
      /\ \A j \in Said : said[j][1].name = NameSaid(j)
  BY CommandSaid
<1>2. SaidAs(said, argv)
  BY DEF SaidAs
<1> HIDE DEF said
<1>3. pairs = ReadFile(Files, DefaultFile) /\ pairs \in Seq(Pair)
  <2>1. pairs \in Written
    BY DEF StartInv
  <2>2. Writable(pairs)
    BY <2>1, StartAssumption
  <2> QED
    BY <2>1, <2>2, FileRead DEF Writable
<1>4. values = ReadAll(argv, Files, DefaultFile)
  BY DEF StartInv
<1> HIDE DEF N
<1>5. Overridden(said, N, pairs, values)
  <2>1. Len(argv) = N
    BY DEF N
  <2>2. Overridden(said, N, pairs, ReadAll(argv, Files, DefaultFile))
    BY <1>1, <1>2, <1>3, <2>1, ReadAllIs
  <2> QED
    BY <1>4, <2>2
<1> HIDE DEF k
<1>6. later = Later(said, N, k) /\ later # {}
  <2>1. i \in later
    OBVIOUS
  <2> QED
    BY <1>1, <2>1 DEF k, Later
<1> HIDE DEF later
<1>7. /\ Get1(values, k) = Argument(2, argv[Max(later)])[1].value
      /\ Cardinality(Instances(values, k)) = Max({1, Cardinality(Instances(pairs, k))})
  <2>1. Len(argv) = N /\ N \in Nat /\ DOMAIN argv = 1..N
    BY <1>1 DEF N
  <2>2. pairs \in Seq(Pair) /\ Later(said, N, k) # {}
    BY <1>3, <1>6
  <2>3. /\ Get1(values, k) = Argument(2, argv[Max(Later(said, N, k))])[1].value
        /\ Cardinality(Instances(values, k)) = Max({1, Cardinality(Instances(pairs, k))})
    BY <1>2, <1>5, <2>1, <2>2, CommandLine
  <2> QED
    BY <1>6, <2>3
<1> QED
  BY <1>7, Zenon DEF k, later

\* The last argument of a name wins over the file and the arguments before it.
THEOREM CommandLineAlways == StartSpec => []CommandLineWins
<1> QED
  BY StartFirst, StartStep, StartInvWins, PTL DEF StartSpec

-----------------------------------------------------------------------------
(* gsub() of one character is split(), joined *)

\* The scan that joins texts.
JoinNext(N) == [j \in 1..N |-> IF j = N THEN 0 ELSE j + 1]
JoinPart(parts, c) == [j \in 1..Len(parts) |-> parts[j] \o <<c>>]
JoinScan(g, parts, c) == Scans(g, Len(parts), JoinNext(Len(parts)), JoinPart(parts, c), parts)

\* It only goes on.
LEMMA JoinForward ==
  ASSUME NEW N \in Nat
  PROVE  Forward(N, JoinNext(N))
<1>1. \A j \in 1..N : JoinNext(N)[j] = IF j = N THEN 0 ELSE j + 1
  BY DEF JoinNext
<1>2. \A j \in 1..N : JoinNext(N)[j] = 0 \/ JoinNext(N)[j] \in (j + 1)..N
  BY <1>1
<1>3. JoinNext(N) \in [1..N -> Nat]
  BY DEF JoinNext
<1> QED
  BY <1>2, <1>3 DEF Forward

\* Joining is that scan.
LEMMA JoinedIs ==
  ASSUME NEW V, NEW c \in V, NEW parts \in Seq(Seq(V)), parts # <<>>
  PROVE  \E g \in [1..Len(parts) -> Seq(V)] : JoinScan(g, parts, c) /\ Joined(parts, c) = g[1]
<1> DEFINE N == Len(parts)
           Body(g) == [j \in DOMAIN parts |->
                         IF j = Len(parts) THEN parts[j] ELSE parts[j] \o <<c>> \o g[j + 1]]
           from == CHOOSE g : g = Body(g)
<1>1. N \in Nat /\ Forward(N, JoinNext(N)) /\ DOMAIN parts = 1..N
  BY JoinForward
<1>2. JoinPart(parts, c) \in [1..N -> Seq(V)] /\ parts \in [1..N -> Seq(V)]
  <2>1. <<c>> \in Seq(V) /\ \A j \in 1..N : parts[j] \in Seq(V)
    OBVIOUS
  <2>2. \A j \in 1..N : parts[j] \o <<c>> \in Seq(V)
    <3> TAKE j \in 1..N
    <3> DEFINE x == parts[j]
               b == <<c>>
    <3>1. x \in Seq(V) /\ b \in Seq(V)
      BY <2>1
    <3> HIDE DEF x, b
    <3>2. x \o b \in Seq(V)
      BY <3>1
    <3> QED
      BY <3>2 DEF x, b
  <2>3. JoinPart(parts, c) = [j \in 1..N |-> parts[j] \o <<c>>]
    BY DEF JoinPart
  <2>4. parts = [j \in 1..N |-> parts[j]]
    BY <1>1
  <2> HIDE DEF N
  <2> QED
    BY <2>1, <2>2, <2>3, <2>4
<1>3. PICK g \in [1..N -> Seq(V)] : JoinScan(g, parts, c)
  <2> HIDE DEF N
  <2>1. \E g \in [1..N -> Seq(V)] : Scans(g, N, JoinNext(N), JoinPart(parts, c), parts)
    BY <1>1, <1>2, ScanExists
  <2> QED
    BY <2>1 DEF JoinScan, N
<1>4. ASSUME NEW h PROVE h = Body(h) <=> JoinScan(h, parts, c)
  <2> DEFINE S == [j \in 1..N |-> IF JoinNext(N)[j] = 0 THEN parts[j]
                                  ELSE JoinPart(parts, c)[j] \o h[JoinNext(N)[j]]]
             B == Body(h)
  <2>1. ASSUME NEW j \in 1..N PROVE B[j] = S[j]
    <3>1. B[j] = IF j = N THEN parts[j] ELSE parts[j] \o <<c>> \o h[j + 1]
      BY <1>1
    <3>2. JoinNext(N)[j] = IF j = N THEN 0 ELSE j + 1
      BY DEF JoinNext
    <3>3. JoinPart(parts, c)[j] = parts[j] \o <<c>>
      BY DEF JoinPart
    <3>4. S[j] = IF JoinNext(N)[j] = 0 THEN parts[j] ELSE JoinPart(parts, c)[j] \o h[JoinNext(N)[j]]
      OBVIOUS
    <3>5. j + 1 # 0 /\ j \in Int
      OBVIOUS
    <3> HIDE DEF B, S, N
    <3> QED
      BY <3>1, <3>2, <3>3, <3>4, <3>5
  <2>2. B = S
    <3>1. B = [j \in 1..N |-> B[j]] /\ S = [j \in 1..N |-> S[j]]
      BY <1>1, Zenon
    <3> HIDE DEF B, S
    <3> QED
      BY <2>1, <3>1
  <2> QED
    BY <2>2, Zenon DEF JoinScan, Scans
<1>5. from = Body(from)
  <2>1. g = Body(g)
    BY <1>3, <1>4
  <2> HIDE DEF Body
  <2> QED
    BY <2>1
<1>6. JoinScan(from, parts, c)
  BY <1>4, <1>5
<1>7. from = g
  <2> HIDE DEF from
  <2> QED
    BY <1>1, <1>3, <1>6, ScanUnique DEF JoinScan
<1>8. Joined(parts, c) = from[1]
  BY Zenon DEF Joined
<1> HIDE DEF from
<1> QED
  BY <1>3, <1>7, <1>8

\* With one more text in front.
Behind(t, y, N) == \A i \in 1..N : t[i + 1] = y[i]

\* Behind the first text it joins as without it.
LEMMA JoinTail ==
  ASSUME NEW N \in Nat, NEW t, Len(t) = N + 1, NEW parts, Len(parts) = N,
         Behind(t, parts, N), NEW c, NEW g, JoinScan(g, t, c), NEW h, JoinScan(h, parts, c)
  PROVE  Behind(g, h, N)
<1>1. Ahead(N, JoinNext(N + 1), JoinPart(t, c), t, JoinNext(N), JoinPart(parts, c), parts)
  <2> SUFFICES ASSUME NEW i \in 1..N
               PROVE  /\ JoinNext(N)[i] = 0 => JoinNext(N + 1)[i + 1] = 0 /\ t[i + 1] = parts[i]
                      /\ JoinNext(N)[i] # 0 => /\ JoinNext(N + 1)[i + 1] = JoinNext(N)[i] + 1
                                               /\ JoinPart(t, c)[i + 1] = JoinPart(parts, c)[i]
    BY DEF Ahead
  <2>1. i + 1 \in 1..(N + 1)
    OBVIOUS
  <2>2. JoinNext(N)[i] = IF i = N THEN 0 ELSE i + 1
    BY DEF JoinNext
  <2>3. JoinNext(N + 1)[i + 1] = IF i + 1 = N + 1 THEN 0 ELSE (i + 1) + 1
    BY <2>1 DEF JoinNext
  <2>4. JoinPart(t, c)[i + 1] = t[i + 1] \o <<c>> /\ JoinPart(parts, c)[i] = parts[i] \o <<c>>
    BY <2>1 DEF JoinPart
  <2>5. JoinPart(t, c)[i + 1] = JoinPart(parts, c)[i] /\ t[i + 1] = parts[i]
    BY <2>4 DEF Behind
  <2> QED
    BY <2>2, <2>3, <2>5
<1>2. /\ Scans(g, N + 1, JoinNext(N + 1), JoinPart(t, c), t)
      /\ Scans(h, N, JoinNext(N), JoinPart(parts, c), parts)
  BY DEF JoinScan
<1>3. Forward(N, JoinNext(N))
  BY JoinForward
<1> QED
  BY <1>1, <1>2, <1>3, ScanShift DEF Behind

\* One text joined is the text, and one more goes in front with the character.
LEMMA JoinedStep ==
  ASSUME NEW V, NEW c \in V, NEW x \in Seq(V)
  PROVE  /\ Joined(<<x>>, c) = x
         /\ \A parts \in Seq(Seq(V)) :
              parts # <<>> => Joined(Cons(x, parts), c) = (x \o <<c>>) \o Joined(parts, c)
<1>1. Joined(<<x>>, c) = x
  <2> DEFINE p == <<x>>
             W == Seq(V)
  <2>1. p \in Seq(W) /\ p # <<>> /\ Len(p) = 1 /\ p[1] = x
    OBVIOUS
  <2> HIDE DEF p
  <2>2. PICK g \in [1..Len(p) -> Seq(V)] : JoinScan(g, p, c) /\ Joined(p, c) = g[1]
    BY <2>1, JoinedIs
  <2>3. 1 \in 1..Len(p) /\ JoinNext(Len(p))[1] = 0
    BY <2>1 DEF JoinNext
  <2>4. g[1] = p[1]
    BY <2>2, <2>3 DEF JoinScan, Scans
  <2> QED
    BY <2>1, <2>2, <2>4 DEF p
<1>2. ASSUME NEW parts \in Seq(Seq(V)), parts # <<>>
      PROVE  Joined(Cons(x, parts), c) = (x \o <<c>>) \o Joined(parts, c)
  <2> DEFINE W == Seq(V)
             t == Cons(x, parts)
             N == Len(parts)
  <2>1. parts \in Seq(W) /\ x \in W /\ N \in Nat /\ N >= 1
    BY <1>2
  <2>2. t \in Seq(W) /\ t # <<>> /\ Len(t) = N + 1 /\ t[1] = x /\ \A i \in 1..N : t[i + 1] = parts[i]
    <3> HIDE DEF W
    <3> QED
      BY <2>1 DEF Cons
  <2> HIDE DEF t
  <2>3. PICK g \in [1..Len(t) -> Seq(V)] : JoinScan(g, t, c) /\ Joined(t, c) = g[1]
    BY <2>2, JoinedIs
  <2>4. PICK h \in [1..N -> Seq(V)] : JoinScan(h, parts, c) /\ Joined(parts, c) = h[1]
    BY <1>2, JoinedIs
  <2> HIDE DEF W, N
  <2>7. \A i \in 1..N : g[i + 1] = h[i]
    <3>1. /\ Len(t) = N + 1 /\ Len(parts) = N /\ N \in Nat
          /\ JoinScan(g, t, c) /\ JoinScan(h, parts, c) /\ Behind(t, parts, N)
      BY <2>1, <2>2, <2>3, <2>4 DEF N, Behind
    <3>2. Behind(g, h, N)
      BY <3>1, JoinTail
    <3> QED
      BY <3>2 DEF Behind
  <2>8. g[2] = h[1]
    <3>1. 1 \in 1..N /\ 1 + 1 = 2
      BY <2>1
    <3> QED
      BY <2>7, <3>1
  <2>9. g[1] = (x \o <<c>>) \o g[2]
    <3>1. 1 \in 1..Len(t) /\ 1 # Len(t)
      BY <2>1, <2>2
    <3>2. JoinNext(Len(t))[1] = 2 /\ JoinPart(t, c)[1] = t[1] \o <<c>>
      BY <3>1 DEF JoinNext, JoinPart
    <3>3. g[1] = IF JoinNext(Len(t))[1] = 0 THEN t[1] ELSE JoinPart(t, c)[1] \o g[JoinNext(Len(t))[1]]
      BY <2>3, <3>1 DEF JoinScan, Scans
    <3> QED
      BY <2>2, <3>2, <3>3
  <2> QED
    BY <2>3, <2>4, <2>8, <2>9 DEF t
<1> QED
  BY <1>1, <1>2

\* The second part by itself.
LEMMA JoinedMore ==
  ASSUME NEW V, NEW c \in V, NEW x \in Seq(V), NEW parts \in Seq(Seq(V)), parts # <<>>
  PROVE  Joined(Cons(x, parts), c) = (x \o <<c>>) \o Joined(parts, c)
BY JoinedStep

\* gsub() of one character is split() at it, joined.
LEMMA SplitJoins ==
  ASSUME NEW V, NEW s \in Seq(V), s # <<>>, NEW a \in V, NEW c \in V
  PROVE  Gsub(s, <<a>>, <<c>>) = Joined(Split(s, a), c)
<1> DEFINE N == Len(s) + 1
           f == <<a>>
           p == <<c>>
<1>1. f \in Seq(V) \ {<<>>} /\ p \in Seq(V) /\ N \in Nat /\ Len(f) = 1 /\ f = <<a>>
  OBVIOUS
<1> HIDE DEF f
<1>2. PICK g \in [1..N -> Seq(Seq(V))] : SplitScan(g, s, f) /\ Split(s, a) = g[1]
  BY <1>1, SplitScans DEF f
<1>3. PICK h \in [1..N -> Seq(V)] : GsubScan(h, s, f, p) /\ Gsub(s, f, p) = h[1]
  <2> HIDE DEF p, N
  <2>1. s \in Seq(V) /\ f \in Seq(V) \ {<<>>} /\ p \in Seq(V)
    BY <1>1
  <2>2. \E h \in [1..(Len(s) + 1) -> Seq(V)] : GsubScan(h, s, f, p) /\ (s # <<>> => Gsub(s, f, p) = h[1])
    BY <2>1, GsubScans
  <2> QED
    BY <2>2 DEF N
<1>4. ASSUME NEW i \in 1..N
      PROVE  LET m == Find(s, f, i)
             IN /\ m = 0 => g[i] = <<Rest(s, i)>> /\ h[i] = Rest(s, i)
                /\ m # 0 => /\ m + 1 \in (i + 1)..N
                            /\ SubSeq(s, i, m - 1) \in Seq(V)
                            /\ g[i] = <<SubSeq(s, i, m - 1)>> \o g[m + 1]
                            /\ h[i] = (SubSeq(s, i, m - 1) \o p) \o h[m + 1]
  <2> DEFINE m == Find(s, f, i)
  <2>1. m \in Nat /\ (m # 0 => m \in i..(Len(s) - Len(f) + 1))
    <3>1. i \in Nat \ {0} /\ f \in Seq(V)
      BY <1>1
    <3> QED
      BY <3>1, FindIs
  <2>2. g[i] = IF Onward(s, f)[i] = 0 THEN Lasts(s)[i] ELSE Cuts(s, f)[i] \o g[Onward(s, f)[i]]
    BY <1>2 DEF SplitScan, Scans
  <2>3. h[i] = IF Onward(s, f)[i] = 0 THEN Ends(s)[i] ELSE Kept(s, f, p)[i] \o h[Onward(s, f)[i]]
    BY <1>3 DEF GsubScan, Scans
  <2>4. Onward(s, f)[i] = IF m = 0 THEN 0 ELSE m + 1
    BY <1>1 DEF Onward
  <2>5. Lasts(s)[i] = <<Rest(s, i)>> /\ Ends(s)[i] = Rest(s, i)
    BY DEF Lasts, Ends
  <2>6. /\ Cuts(s, f)[i] = IF m = 0 THEN <<>> ELSE <<SubSeq(s, i, m - 1)>>
        /\ Kept(s, f, p)[i] = IF m = 0 THEN <<>> ELSE SubSeq(s, i, m - 1) \o p
    BY DEF Cuts, Kept
  <2>7. m # 0 => m + 1 \in (i + 1)..N /\ SubSeq(s, i, m - 1) \in Seq(V)
    BY <1>1, <2>1
  <2> HIDE DEF m, p
  <2>8. m = 0 => g[i] = <<Rest(s, i)>> /\ h[i] = Rest(s, i)
    BY <2>2, <2>3, <2>4, <2>5
  <2>9. m # 0 => /\ g[i] = <<SubSeq(s, i, m - 1)>> \o g[m + 1]
                 /\ h[i] = (SubSeq(s, i, m - 1) \o p) \o h[m + 1]
    <3> HAVE m # 0
    <3>1. Onward(s, f)[i] = m + 1 /\ m + 1 # 0
      BY <2>1, <2>4
    <3> QED
      BY <2>2, <2>3, <2>6, <3>1
  <2> QED
    BY <2>7, <2>8, <2>9 DEF m
<1> HIDE DEF N
<1> DEFINE S == {m \in 0..N : \A i \in (m + 1)..N : g[i] # <<>> /\ Joined(g[i], c) = h[i]}
<1>5. N \in S
  BY <1>1
<1>6. \A k \in 1..N : k \in S => k - 1 \in S
  <2> TAKE k \in 1..N
  <2> HAVE k \in S
  <2>1. g[k] # <<>> /\ Joined(g[k], c) = h[k]
    <3> DEFINE m == Find(s, f, k)
    <3>0. /\ m = 0 => g[k] = <<Rest(s, k)>> /\ h[k] = Rest(s, k)
          /\ m # 0 => /\ m + 1 \in (k + 1)..N
                      /\ SubSeq(s, k, m - 1) \in Seq(V)
                      /\ g[k] = <<SubSeq(s, k, m - 1)>> \o g[m + 1]
                      /\ h[k] = (SubSeq(s, k, m - 1) \o p) \o h[m + 1]
      BY <1>4
    <3> HIDE DEF m
    <3>1. CASE m = 0
      <4>1. Rest(s, k) \in Seq(V)
        BY <1>3, <3>0, <3>1
      <4>2. Joined(<<Rest(s, k)>>, c) = Rest(s, k)
        BY <4>1, JoinedStep
      <4>3. <<Rest(s, k)>> # <<>>
        OBVIOUS
      <4> QED
        BY <3>0, <3>1, <4>2, <4>3
    <3>2. CASE m # 0
      <4> DEFINE x == SubSeq(s, k, m - 1)
                 y == g[m + 1]
      <4>1. x \in Seq(V) /\ y \in Seq(Seq(V)) /\ y # <<>> /\ Joined(y, c) = h[m + 1]
        <5>1. m + 1 \in 1..N /\ m + 1 \in (k + 1)..N
          BY <1>1, <3>0, <3>2
        <5> QED
          BY <3>0, <3>2, <5>1
      <4>2. g[k] = <<x>> \o y /\ h[k] = (x \o p) \o h[m + 1]
        BY <3>0, <3>2
      <4> HIDE DEF x, y
      <4>3. Cons(x, y) = <<x>> \o y /\ Cons(x, y) # <<>>
        <5> DEFINE W == Seq(V)
        <5>1. x \in W /\ y \in Seq(W)
          BY <4>1
        <5> HIDE DEF W
        <5> QED
          BY <5>1 DEF Cons
      <4>4. Joined(Cons(x, y), c) = (x \o <<c>>) \o Joined(y, c)
        BY <4>1, JoinedMore
      <4> QED
        BY <4>1, <4>2, <4>3, <4>4
    <3> QED
      BY <3>1, <3>2
  <2>2. \A i \in ((k - 1) + 1)..N : i = k \/ i \in (k + 1)..N
    OBVIOUS
  <2>3. k - 1 \in 0..N
    BY <1>1
  <2> QED
    BY <2>1, <2>2, <2>3
<1>7. 0 \in S
  <2> HIDE DEF S
  <2>1. 0..N \subseteq S
    BY <1>1, <1>5, <1>6, DownwardInduction
  <2> QED
    BY <1>1, <2>1
<1>8. Joined(g[1], c) = h[1]
  <2>1. 1 \in (0 + 1)..N
    BY <1>1 DEF N
  <2> QED
    BY <1>7, <2>1
<1> QED
  BY <1>1, <1>2, <1>3, <1>8

-----------------------------------------------------------------------------
(* mconvert() and the way back *)

\* Characters, a 0 with them.
Chars == Nat

\* One of mconvert()'s replacements: d behind a backslash, for c.
Slashed(t, c, d) == Gsub0(t, <<c>>, <<Backslash, d>>)

\* What it does, by the first character.
LEMMA SlashedStep ==
  ASSUME NEW c \in Chars, NEW d \in Chars, NEW a \in Chars, NEW y \in Seq(Chars)
  PROVE  /\ Slashed(y, c, d) \in Seq(Chars)
         /\ a # c => Slashed(Cons(a, y), c, d) = Cons(a, Slashed(y, c, d))
         /\ a = c => Slashed(Cons(a, y), c, d) = Cons(Backslash, Cons(d, Slashed(y, c, d)))
<1> DEFINE f == <<c>>
           p == <<Backslash, d>>
           t == Cons(a, y)
           r == Gsub0(y, f, p)
<1>1. f \in Seq(Chars) \ {<<>>} /\ p \in Seq(Chars) /\ Len(f) = 1 /\ f[1] = c
  BY DEF Backslash, Chars
<1>2. r \in Seq(Chars)
  <2> HIDE DEF f, p
  <2> QED
    BY <1>1, GsubType
<1>3. a # c => Gsub0(t, f, p) = Cons(a, r)
  <2> HAVE a # c
  <2>1. t \in Seq(Chars) /\ t[1] = a /\ Len(t) >= 1
    BY DEF Cons
  <2>2. ~Starts(t, f)
    <3> HIDE DEF t
    <3>1. SubSeq(t, 1, 1)[1] = a
      BY <2>1
    <3> HIDE DEF f
    <3> QED
      BY <1>1, <3>1 DEF Starts
  <2> HIDE DEF f, p
  <2> QED
    BY <1>1, <2>2, GsubSkip
<1>4. a = c => Gsub0(t, f, p) = p \o r
  <2> HIDE DEF f, p
  <2> QED
    BY <1>1, GsubOne
<1>5. p \o r = Cons(Backslash, Cons(d, r))
  <2>1. Backslash \in Chars
    BY DEF Backslash, Chars
  <2> HIDE DEF r
  <2> QED
    BY <1>2, <2>1 DEF Cons
<1> QED
  BY <1>2, <1>3, <1>4, <1>5 DEF Slashed

\* Of a text it makes a text: gsub() never throws here.
LEMMA SlashedSome ==
  ASSUME NEW c \in Chars, NEW d \in Chars, NEW s \in Seq(Chars), s # <<>>
  PROVE  /\ Slashed(s, c, d) \in Seq(Chars) /\ Slashed(s, c, d) # <<>>
         /\ Slashed(s, c, d) = Gsub(s, <<c>>, <<Backslash, d>>)
<1>1. PICK a \in Chars, y \in Seq(Chars) : s = Cons(a, y)
  BY TextSplit
<1>2. \A x \in Seq(Chars) : \A b \in Chars : Cons(b, x) \in Seq(Chars) /\ Cons(b, x) # <<>>
  BY DEF Cons
<1>3. Slashed(y, c, d) \in Seq(Chars) /\ Backslash \in Chars
  BY <1>1, SlashedStep DEF Backslash, Chars
<1>4. \/ Slashed(s, c, d) = Cons(a, Slashed(y, c, d))
      \/ Slashed(s, c, d) = Cons(Backslash, Cons(d, Slashed(y, c, d)))
  BY <1>1, SlashedStep
<1>5. Slashed(s, c, d) = Gsub(s, <<c>>, <<Backslash, d>>)
  BY DEF Slashed, Gsub0
<1>6. Slashed(s, c, d) \in Seq(Chars) /\ Slashed(s, c, d) # <<>>
  BY <1>2, <1>3, <1>4
<1> QED
  BY <1>5, <1>6

\* All of them, one after the other.
Slashes(s) == Slashed(Slashed(Slashed(Slashed(s, Backslash, Backslash), Quote, Quote), 34, 34), 0, 48)

\* mconvert() is the four of them.
LEMMA MconvertIs ==
  ASSUME NEW s \in Seq(Chars), s # <<>>
  PROVE  Mconvert(s) = Slashes(s)
<1> DEFINE s1 == Slashed(s, Backslash, Backslash)
           s2 == Slashed(s1, Quote, Quote)
           s3 == Slashed(s2, 34, 34)
           s4 == Slashed(s3, 0, 48)
<1>1. Backslash \in Chars /\ Quote \in Chars /\ 34 \in Chars /\ 0 \in Chars /\ 48 \in Chars
  BY DEF Backslash, Quote, Chars
<1>2. s1 \in Seq(Chars) /\ s1 # <<>> /\ s1 = Gsub(s, <<Backslash>>, <<Backslash, Backslash>>)
  BY <1>1, SlashedSome
<1> HIDE DEF s1
<1>3. s2 \in Seq(Chars) /\ s2 # <<>> /\ s2 = Gsub(s1, <<Quote>>, <<Backslash, Quote>>)
  BY <1>1, <1>2, SlashedSome
<1> HIDE DEF s2
<1>4. s3 \in Seq(Chars) /\ s3 # <<>> /\ s3 = Gsub(s2, <<34>>, <<Backslash, 34>>)
  BY <1>1, <1>3, SlashedSome
<1> HIDE DEF s3
<1>5. s4 = Gsub(s3, <<0>>, <<Backslash, 48>>)
  BY <1>1, <1>4, SlashedSome
<1>6. Mconvert(s) = s4
  BY <1>2, <1>3, <1>4, <1>5, Zenon DEF Mconvert
<1>7. Slashes(s) = s4
  BY DEF Slashes, s1, s2, s3
<1> QED
  BY <1>6, <1>7

\* What they do, by the first character: the later ones leave alone what the earlier ones put in.
LEMMA SlashesStep ==
  ASSUME NEW a \in Codes, NEW y \in Seq(Chars)
  PROVE  /\ Slashes(y) \in Seq(Chars)
         /\ a \in {Backslash, Quote, 34} =>
              Slashes(Cons(a, y)) = Cons(Backslash, Cons(a, Slashes(y)))
         /\ a \notin {Backslash, Quote, 34} => Slashes(Cons(a, y)) = Cons(a, Slashes(y))
<1> DEFINE y1 == Slashed(y, Backslash, Backslash)
           y2 == Slashed(y1, Quote, Quote)
           y3 == Slashed(y2, 34, 34)
           y4 == Slashed(y3, 0, 48)
<1>1. Backslash \in Chars /\ Quote \in Chars /\ 34 \in Chars /\ 0 \in Chars /\ 48 \in Chars /\ a \in Chars /\ a # 0
  BY DEF Backslash, Quote, Codes, Chars
<1>2. Backslash # Quote /\ Backslash # 34 /\ Backslash # 0 /\ Quote # 34 /\ Quote # 0
  BY DEF Backslash, Quote
<1>3. y1 \in Seq(Chars)
  BY <1>1, SlashedStep
<1> HIDE DEF y1
<1>4. y2 \in Seq(Chars)
  BY <1>1, <1>3, SlashedStep
<1> HIDE DEF y2
<1>5. y3 \in Seq(Chars)
  BY <1>1, <1>4, SlashedStep
<1> HIDE DEF y3
<1>6. y4 \in Seq(Chars)
  BY <1>1, <1>5, SlashedStep
<1> HIDE DEF y4
<1>7. Slashes(y) = y4
  BY DEF Slashes, y1, y2, y3, y4
<1>8. \A b \in Chars : \A x \in Seq(Chars) : Cons(b, x) \in Seq(Chars)
  BY DEF Cons
<1>9. ASSUME NEW b \in Chars, NEW c \in Chars, NEW d \in Chars, NEW x \in Seq(Chars)
      PROVE  /\ b # c => Slashed(Cons(b, x), c, d) = Cons(b, Slashed(x, c, d))
             /\ b = c => Slashed(Cons(b, x), c, d) = Cons(Backslash, Cons(d, Slashed(x, c, d)))
  BY SlashedStep
<1>10. ASSUME a = Backslash PROVE Slashes(Cons(a, y)) = Cons(Backslash, Cons(a, y4))
  <2>1. Slashed(Cons(a, y), Backslash, Backslash) = Cons(Backslash, Cons(Backslash, y1))
    BY <1>1, <1>9, <1>10 DEF y1
  <2>2. Slashed(Cons(Backslash, Cons(Backslash, y1)), Quote, Quote) = Cons(Backslash, Cons(Backslash, y2))
    BY <1>1, <1>2, <1>3, <1>8, <1>9 DEF y2
  <2>3. Slashed(Cons(Backslash, Cons(Backslash, y2)), 34, 34) = Cons(Backslash, Cons(Backslash, y3))
    BY <1>1, <1>2, <1>4, <1>8, <1>9 DEF y3
  <2>4. Slashed(Cons(Backslash, Cons(Backslash, y3)), 0, 48) = Cons(Backslash, Cons(Backslash, y4))
    BY <1>1, <1>2, <1>5, <1>8, <1>9 DEF y4
  <2> QED
    BY <1>10, <2>1, <2>2, <2>3, <2>4 DEF Slashes
<1>11. ASSUME a = Quote PROVE Slashes(Cons(a, y)) = Cons(Backslash, Cons(a, y4))
  <2>1. Slashed(Cons(a, y), Backslash, Backslash) = Cons(Quote, y1)
    BY <1>1, <1>2, <1>9, <1>11 DEF y1
  <2>2. Slashed(Cons(Quote, y1), Quote, Quote) = Cons(Backslash, Cons(Quote, y2))
    BY <1>1, <1>3, <1>9 DEF y2
  <2>3. Slashed(Cons(Backslash, Cons(Quote, y2)), 34, 34) = Cons(Backslash, Cons(Quote, y3))
    BY <1>1, <1>2, <1>4, <1>8, <1>9 DEF y3
  <2>4. Slashed(Cons(Backslash, Cons(Quote, y3)), 0, 48) = Cons(Backslash, Cons(Quote, y4))
    BY <1>1, <1>2, <1>5, <1>8, <1>9 DEF y4
  <2> QED
    BY <1>11, <2>1, <2>2, <2>3, <2>4 DEF Slashes
<1>12. ASSUME a = 34 PROVE Slashes(Cons(a, y)) = Cons(Backslash, Cons(a, y4))
  <2>1. Slashed(Cons(a, y), Backslash, Backslash) = Cons(34, y1)
    BY <1>1, <1>2, <1>9, <1>12 DEF y1
  <2>2. Slashed(Cons(34, y1), Quote, Quote) = Cons(34, y2)
    BY <1>1, <1>2, <1>3, <1>9 DEF y2
  <2>3. Slashed(Cons(34, y2), 34, 34) = Cons(Backslash, Cons(34, y3))
    BY <1>1, <1>4, <1>9 DEF y3
  <2>4. Slashed(Cons(Backslash, Cons(34, y3)), 0, 48) = Cons(Backslash, Cons(34, y4))
    <3> DEFINE z == Cons(34, y3)
    <3>1. z \in Seq(Chars) /\ 34 # 0
      BY <1>1, <1>5, <1>8
    <3>2. Slashed(z, 0, 48) = Cons(34, y4)
      BY <1>1, <1>5, <1>9, <3>1 DEF y4
    <3> HIDE DEF z
    <3>3. Slashed(Cons(Backslash, z), 0, 48) = Cons(Backslash, Slashed(z, 0, 48))
      BY <1>1, <1>2, <1>9, <3>1
    <3> QED
      BY <3>2, <3>3 DEF z
  <2> QED
    BY <1>12, <2>1, <2>2, <2>3, <2>4 DEF Slashes
<1>13. ASSUME a \notin {Backslash, Quote, 34} PROVE Slashes(Cons(a, y)) = Cons(a, y4)
  <2>1. Slashed(Cons(a, y), Backslash, Backslash) = Cons(a, y1)
    BY <1>1, <1>9, <1>13 DEF y1
  <2>2. Slashed(Cons(a, y1), Quote, Quote) = Cons(a, y2)
    BY <1>1, <1>3, <1>9, <1>13 DEF y2
  <2>3. Slashed(Cons(a, y2), 34, 34) = Cons(a, y3)
    BY <1>1, <1>4, <1>9, <1>13 DEF y3
  <2>4. Slashed(Cons(a, y3), 0, 48) = Cons(a, y4)
    BY <1>1, <1>5, <1>9 DEF y4
  <2> QED
    BY <2>1, <2>2, <2>3, <2>4 DEF Slashes
<1> QED
  BY <1>6, <1>7, <1>10, <1>11, <1>12, <1>13

\* The scan of a text without its escapes.
Escaping(t, j) == j < Len(t) /\ t[j] = Backslash
Past(t) == [j \in 1..(Len(t) + 1) |-> IF j > Len(t) THEN 0 ELSE IF Escaping(t, j) THEN j + 2 ELSE j + 1]
Plain(t) == [j \in 1..(Len(t) + 1) |->
               IF j > Len(t) THEN <<>> ELSE IF Escaping(t, j) THEN <<t[j + 1]>> ELSE <<t[j]>>]
UnescapedScan(g, t) == Scans(g, Len(t) + 1, Past(t), Plain(t), Nothing(t))

\* It only goes on.
LEMMA PastForward ==
  ASSUME NEW t \in Seq(Chars)
  PROVE  Forward(Len(t) + 1, Past(t))
<1> DEFINE N == Len(t)
<1>1. ASSUME NEW j \in 1..(N + 1)
      PROVE  Past(t)[j] = 0 \/ Past(t)[j] \in (j + 1)..(N + 1)
  <2>1. Past(t)[j] = IF j > N THEN 0 ELSE IF Escaping(t, j) THEN j + 2 ELSE j + 1
    BY DEF Past
  <2>2. Escaping(t, j) => j < N
    BY DEF Escaping
  <2>3. N \in Nat
    OBVIOUS
  <2> HIDE DEF N
  <2> QED
    BY <2>1, <2>2, <2>3
<1>2. Past(t) \in [1..(N + 1) -> Nat]
  <2>1. Past(t) = [j \in 1..(N + 1) |-> Past(t)[j]]
    BY DEF Past
  <2>2. \A j \in 1..(N + 1) : Past(t)[j] \in Nat
    BY <1>1
  <2> HIDE DEF N
  <2> QED
    BY <2>1, <2>2
<1> QED
  BY <1>1, <1>2 DEF Forward

\* Taking the escapes away is that scan.
LEMMA UnescapedIs ==
  ASSUME NEW t \in Seq(Chars)
  PROVE  \E g \in [1..(Len(t) + 1) -> Seq(Chars)] : UnescapedScan(g, t) /\ Unescaped(t) = g[1]
<1> DEFINE N == Len(t) + 1
           Body(g) == [j \in 1..Len(t) + 1 |->
                         CASE j > Len(t) -> <<>>
                           [] j < Len(t) /\ t[j] = Backslash -> <<t[j + 1]>> \o g[j + 2]
                           [] OTHER -> <<t[j]>> \o g[j + 1]]
           from == CHOOSE g : g = Body(g)
<1>1. N \in Nat /\ Forward(N, Past(t))
  BY PastForward
<1>2. Plain(t) \in [1..N -> Seq(Chars)] /\ Nothing(t) \in [1..N -> Seq(Chars)]
  <2>1. ASSUME NEW j \in 1..N
        PROVE  /\ j <= Len(t) => <<t[j]>> \in Seq(Chars)
               /\ Escaping(t, j) => <<t[j + 1]>> \in Seq(Chars)
    BY DEF Escaping
  <2>2. \A j \in 1..N : (IF j > Len(t) THEN <<>> ELSE IF Escaping(t, j) THEN <<t[j + 1]>> ELSE <<t[j]>>) \in Seq(Chars)
    BY <2>1
  <2> QED
    BY <2>2 DEF Plain, Nothing
<1>3. PICK g \in [1..N -> Seq(Chars)] : UnescapedScan(g, t)
  <2> HIDE DEF N
  <2>1. \E g \in [1..N -> Seq(Chars)] : Scans(g, N, Past(t), Plain(t), Nothing(t))
    BY <1>1, <1>2, ScanExists
  <2> QED
    BY <2>1 DEF UnescapedScan, N
<1>4. ASSUME NEW h PROVE h = Body(h) <=> UnescapedScan(h, t)
  <2> DEFINE S == [j \in 1..N |-> IF Past(t)[j] = 0 THEN Nothing(t)[j] ELSE Plain(t)[j] \o h[Past(t)[j]]]
             B == Body(h)
  <2>1. ASSUME NEW j \in 1..N PROVE B[j] = S[j]
    <3>1. B[j] = CASE j > Len(t) -> <<>>
                   [] j < Len(t) /\ t[j] = Backslash -> <<t[j + 1]>> \o h[j + 2]
                   [] OTHER -> <<t[j]>> \o h[j + 1]
      OBVIOUS
    <3>2. Past(t)[j] = IF j > Len(t) THEN 0 ELSE IF Escaping(t, j) THEN j + 2 ELSE j + 1
      BY DEF Past
    <3>3. Plain(t)[j] = IF j > Len(t) THEN <<>> ELSE IF Escaping(t, j) THEN <<t[j + 1]>> ELSE <<t[j]>>
      BY DEF Plain
    <3>4. S[j] = IF Past(t)[j] = 0 THEN Nothing(t)[j] ELSE Plain(t)[j] \o h[Past(t)[j]]
      OBVIOUS
    <3>5. Nothing(t)[j] = <<>>
      BY DEF Nothing
    <3>6. j \in Nat /\ Len(t) \in Nat
      OBVIOUS
    <3> HIDE DEF B, S, N
    <3>7. CASE j > Len(t)
      BY <3>1, <3>2, <3>4, <3>5, <3>6, <3>7
    <3>8. CASE Escaping(t, j)
      <4>1. j < Len(t) /\ t[j] = Backslash /\ ~(j > Len(t)) /\ j + 2 # 0
        BY <3>6, <3>8 DEF Escaping
      <4> QED
        BY <3>1, <3>2, <3>3, <3>4, <3>8, <4>1
    <3>9. CASE ~(j > Len(t)) /\ ~Escaping(t, j)
      <4>1. ~(j < Len(t) /\ t[j] = Backslash) /\ j + 1 # 0
        BY <3>6, <3>9 DEF Escaping
      <4> QED
        BY <3>1, <3>2, <3>3, <3>4, <3>9, <4>1
    <3> QED
      BY <3>7, <3>8, <3>9
  <2>2. B = S
    <3>1. B = [j \in 1..N |-> B[j]]
      OBVIOUS
    <3>2. S = [j \in 1..N |-> S[j]]
      OBVIOUS
    <3> HIDE DEF B, S
    <3> QED
      BY <2>1, <3>1, <3>2
  <2> QED
    BY <2>2, Zenon DEF UnescapedScan, Scans
<1>5. from = Body(from)
  <2>1. g = Body(g)
    BY <1>3, <1>4
  <2> HIDE DEF Body
  <2> QED
    BY <2>1
<1>6. UnescapedScan(from, t)
  BY <1>4, <1>5
<1>7. from = g
  <2> HIDE DEF from
  <2> QED
    BY <1>1, <1>3, <1>6, ScanUnique DEF UnescapedScan
<1>8. Unescaped(t) = from[1]
  BY Zenon DEF Unescaped
<1> HIDE DEF from
<1> QED
  BY <1>3, <1>7, <1>8

\* Behind the first character it goes on as without it.
LEMMA UnescapedTail ==
  ASSUME NEW a \in Chars, NEW y \in Seq(Chars),
         NEW g, UnescapedScan(g, Cons(a, y)), NEW h, UnescapedScan(h, y)
  PROVE  \A i \in 1..(Len(y) + 1) : g[i + 1] = h[i]
<1> DEFINE t == Cons(a, y)
           N == Len(y) + 1
<1>1. Len(t) = N /\ N \in Nat /\ \A i \in 1..Len(y) : t[i + 1] = y[i]
  BY DEF Cons
<1> HIDE DEF t
<1>2. Ahead(N, Past(t), Plain(t), Nothing(t), Past(y), Plain(y), Nothing(y))
  <2> SUFFICES ASSUME NEW i \in 1..N
               PROVE  /\ Past(y)[i] = 0 => Past(t)[i + 1] = 0 /\ Nothing(t)[i + 1] = Nothing(y)[i]
                      /\ Past(y)[i] # 0 => /\ Past(t)[i + 1] = Past(y)[i] + 1
                                           /\ Plain(t)[i + 1] = Plain(y)[i]
    BY DEF Ahead
  <2>1. i + 1 \in 1..(Len(t) + 1) /\ i \in Nat /\ Len(y) \in Nat
    BY <1>1
  <2>2. Past(y)[i] = IF i > Len(y) THEN 0 ELSE IF Escaping(y, i) THEN i + 2 ELSE i + 1
    BY DEF Past
  <2>3. Past(t)[i + 1] = IF i + 1 > Len(t) THEN 0 ELSE IF Escaping(t, i + 1) THEN (i + 1) + 2 ELSE (i + 1) + 1
    BY <2>1 DEF Past
  <2>4. Plain(y)[i] = IF i > Len(y) THEN <<>> ELSE IF Escaping(y, i) THEN <<y[i + 1]>> ELSE <<y[i]>>
    BY DEF Plain
  <2>5. Plain(t)[i + 1] = IF i + 1 > Len(t) THEN <<>> ELSE IF Escaping(t, i + 1) THEN <<t[(i + 1) + 1]>> ELSE <<t[i + 1]>>
    BY <2>1 DEF Plain
  <2>6. Nothing(t)[i + 1] = <<>> /\ Nothing(y)[i] = <<>>
    BY <2>1 DEF Nothing
  <2>7. i + 1 > Len(t) <=> i > Len(y)
    BY <1>1, <2>1
  <2>8. i <= Len(y) => t[i + 1] = y[i] /\ (Escaping(t, i + 1) <=> Escaping(y, i))
    BY <1>1, <2>1 DEF Escaping
  <2>9. Escaping(y, i) => t[(i + 1) + 1] = y[i + 1]
    BY <1>1, <2>1 DEF Escaping
  <2>10. CASE i > Len(y)
    BY <2>2, <2>3, <2>6, <2>7, <2>10
  <2>11. CASE i <= Len(y)
    <3>1. Past(t)[i + 1] = Past(y)[i] + 1
      BY <2>1, <2>2, <2>3, <2>7, <2>8, <2>11
    <3>2. Plain(t)[i + 1] = Plain(y)[i]
      BY <2>1, <2>4, <2>5, <2>7, <2>8, <2>9, <2>11
    <3>3. Past(y)[i] # 0
      BY <2>1, <2>2, <2>11
    <3> QED
      BY <3>1, <3>2, <3>3
  <2> QED
    BY <2>1, <2>10, <2>11
<1>3. Scans(g, N + 1, Past(t), Plain(t), Nothing(t)) /\ Scans(h, N, Past(y), Plain(y), Nothing(y))
  BY <1>1 DEF UnescapedScan, t
<1>4. Forward(N, Past(y))
  BY PastForward
<1> HIDE DEF N
<1>5. \A i \in 1..N : g[i + 1] = h[i]
  BY <1>1, <1>2, <1>3, <1>4, ScanShift
<1> QED
  BY <1>5 DEF N

\* A character that is no backslash stays.
LEMMA UnescapedPlain ==
  ASSUME NEW a \in Chars, a # Backslash, NEW y \in Seq(Chars)
  PROVE  Unescaped(Cons(a, y)) = Cons(a, Unescaped(y))
<1> DEFINE t == Cons(a, y)
<1>1. t \in Seq(Chars) /\ Len(t) = Len(y) + 1 /\ t[1] = a
  BY DEF Cons
<1>2. PICK h \in [1..(Len(y) + 1) -> Seq(Chars)] : UnescapedScan(h, y) /\ Unescaped(y) = h[1]
  BY UnescapedIs
<1>3. PICK g \in [1..(Len(t) + 1) -> Seq(Chars)] : UnescapedScan(g, t) /\ Unescaped(t) = g[1]
  <2> HIDE DEF t
  <2> QED
    BY <1>1, UnescapedIs
<1>4. g[2] = h[1]
  <2>1. \A i \in 1..(Len(y) + 1) : g[i + 1] = h[i]
    BY <1>2, <1>3, UnescapedTail
  <2>2. 1 \in 1..(Len(y) + 1) /\ 1 + 1 = 2
    OBVIOUS
  <2> QED
    BY <2>1, <2>2
<1> HIDE DEF t
<1>5. g[1] = <<a>> \o g[2]
  <2>1. 1 \in 1..(Len(t) + 1) /\ ~(1 > Len(t)) /\ ~Escaping(t, 1)
    BY <1>1 DEF Escaping
  <2>2. Past(t)[1] = 2 /\ Plain(t)[1] = <<a>>
    BY <1>1, <2>1 DEF Past, Plain
  <2>3. g[1] = IF Past(t)[1] = 0 THEN Nothing(t)[1] ELSE Plain(t)[1] \o g[Past(t)[1]]
    BY <1>3, <2>1 DEF UnescapedScan, Scans
  <2> QED
    BY <2>2, <2>3
<1>6. Unescaped(t) = Cons(a, Unescaped(y))
  BY <1>2, <1>3, <1>4, <1>5 DEF Cons
<1> QED
  BY <1>6 DEF t

\* So does any character behind a backslash, without it.
LEMMA UnescapedEscape ==
  ASSUME NEW b \in Chars, NEW y \in Seq(Chars)
  PROVE  Unescaped(Cons(Backslash, Cons(b, y))) = Cons(b, Unescaped(y))
<1> DEFINE u == Cons(b, y)
           t == Cons(Backslash, u)
<1>0. Backslash \in Chars
  BY DEF Backslash, Chars
<1>1. u \in Seq(Chars) /\ Len(u) = Len(y) + 1 /\ u[1] = b
  BY DEF Cons
<1>2. PICK h \in [1..(Len(y) + 1) -> Seq(Chars)] : UnescapedScan(h, y) /\ Unescaped(y) = h[1]
  BY UnescapedIs
<1>3. PICK k \in [1..(Len(u) + 1) -> Seq(Chars)] : UnescapedScan(k, u)
  <2> HIDE DEF u
  <2> QED
    BY <1>1, UnescapedIs
<1>4. k[2] = h[1]
  <2>1. \A i \in 1..(Len(y) + 1) : k[i + 1] = h[i]
    BY <1>2, <1>3, UnescapedTail
  <2>2. 1 \in 1..(Len(y) + 1) /\ 1 + 1 = 2
    OBVIOUS
  <2> QED
    BY <2>1, <2>2
<1> HIDE DEF u
<1>5. t \in Seq(Chars) /\ Len(t) = Len(u) + 1 /\ t[1] = Backslash /\ t[2] = b
  BY <1>0, <1>1 DEF Cons
<1>6. PICK g \in [1..(Len(t) + 1) -> Seq(Chars)] : UnescapedScan(g, t) /\ Unescaped(t) = g[1]
  <2> HIDE DEF t
  <2> QED
    BY <1>5, UnescapedIs
<1>7. g[3] = k[2]
  <2>1. \A i \in 1..(Len(u) + 1) : g[i + 1] = k[i]
    BY <1>0, <1>1, <1>3, <1>6, UnescapedTail
  <2>2. 2 \in 1..(Len(u) + 1) /\ 2 + 1 = 3
    BY <1>1
  <2> QED
    BY <2>1, <2>2
<1> HIDE DEF t
<1>8. g[1] = <<b>> \o g[3]
  <2>1. 1 \in 1..(Len(t) + 1) /\ ~(1 > Len(t)) /\ Escaping(t, 1) /\ 1 + 1 = 2
    BY <1>1, <1>5 DEF Escaping
  <2>2. Past(t)[1] = 3 /\ Plain(t)[1] = <<b>>
    BY <1>5, <2>1 DEF Past, Plain
  <2>3. g[1] = IF Past(t)[1] = 0 THEN Nothing(t)[1] ELSE Plain(t)[1] \o g[Past(t)[1]]
    BY <1>6, <2>1 DEF UnescapedScan, Scans
  <2> QED
    BY <2>2, <2>3
<1>9. Unescaped(t) = Cons(b, Unescaped(y))
  BY <1>2, <1>4, <1>6, <1>7, <1>8 DEF Cons
<1> QED
  BY <1>9 DEF t, u

\* Nothing stays nothing.
LEMMA UnescapedEmpty == Unescaped(<<>>) = <<>>
<1> DEFINE t == <<>>
<1>1. t \in Seq(Chars) /\ Len(t) = 0
  OBVIOUS
<1> HIDE DEF t
<1>2. PICK g \in [1..(Len(t) + 1) -> Seq(Chars)] : UnescapedScan(g, t) /\ Unescaped(t) = g[1]
  BY <1>1, UnescapedIs
<1>3. 1 \in 1..(Len(t) + 1) /\ Past(t)[1] = 0 /\ Nothing(t)[1] = <<>>
  BY <1>1 DEF Past, Nothing
<1>4. g[1] = <<>>
  BY <1>2, <1>3 DEF UnescapedScan, Scans
<1> QED
  BY <1>2, <1>4 DEF t

\* The escapes of mconvert() can be undone.
LEMMA MconvertInverts ==
  ASSUME NEW s \in Seq(Codes), s # <<>>
  PROVE  Unescaped(Mconvert(s)) = s
<1> DEFINE S == {x \in Seq(Codes) : Slashes(x) \in Seq(Chars) /\ Unescaped(Slashes(x)) = x}
<1>0. /\ \A x \in Seq(Codes) : x \in Seq(Chars)
      /\ Codes \subseteq Chars
  <2>1. Codes \subseteq Chars
    BY DEF Codes, Chars
  <2> QED
    BY <2>1
<1>1. <<>> \in S
  <2>1. Slashes(<<>>) = <<>>
    BY DEF Slashes, Slashed, Gsub0
  <2>2. <<>> \in Seq(Chars) /\ <<>> \in Seq(Codes)
    OBVIOUS
  <2> QED
    BY <2>1, <2>2, UnescapedEmpty
<1>2. ASSUME NEW a \in Codes, NEW y \in Seq(Codes), y \in S
      PROVE  Cons(a, y) \in S
  <2> DEFINE m == Slashes(y)
             t == Cons(a, y)
  <2>1. m \in Seq(Chars) /\ Unescaped(m) = y /\ y \in Seq(Chars) /\ a \in Chars /\ Backslash \in Chars
    BY <1>0, <1>2 DEF Backslash, Chars
  <2>2. t \in Seq(Codes)
    BY DEF Cons
  <2>3. /\ a \in {Backslash, Quote, 34} => Slashes(t) = Cons(Backslash, Cons(a, m))
        /\ a \notin {Backslash, Quote, 34} => Slashes(t) = Cons(a, m)
    BY <2>1, SlashesStep
  <2> HIDE DEF m
  <2>4. \A b \in Chars : \A x \in Seq(Chars) : Cons(b, x) \in Seq(Chars)
    BY DEF Cons
  <2>5. CASE a \in {Backslash, Quote, 34}
    <3>1. Unescaped(Cons(Backslash, Cons(a, m))) = Cons(a, y)
      BY <2>1, UnescapedEscape
    <3> HIDE DEF t
    <3>2. Slashes(t) \in Seq(Chars) /\ Unescaped(Slashes(t)) = t
      BY <2>1, <2>3, <2>4, <2>5, <3>1 DEF t
    <3> QED
      BY <2>2, <3>2 DEF t
  <2>6. CASE a \notin {Backslash, Quote, 34}
    <3>1. Unescaped(Cons(a, m)) = Cons(a, y)
      BY <2>1, <2>6, UnescapedPlain
    <3> HIDE DEF t
    <3>2. Slashes(t) \in Seq(Chars) /\ Unescaped(Slashes(t)) = t
      BY <2>1, <2>3, <2>4, <2>6, <3>1 DEF t
    <3> QED
      BY <2>2, <3>2 DEF t
  <2> QED
    BY <2>5, <2>6
<1>3. Seq(Codes) \subseteq S
  <2> HIDE DEF S
  <2> QED
    BY <1>1, <1>2, TextInduction
<1>4. Unescaped(Slashes(s)) = s /\ Mconvert(s) = Slashes(s)
  BY <1>0, <1>3, MconvertIs
<1> QED
  BY <1>4

-----------------------------------------------------------------------------
(* upcase(), downcase() and the digits *)

\* find() of one character.
FirstAt(s, c, m) == m \in 1..Len(s) /\ s[m] = c /\ \A k \in 1..(m - 1) : s[k] # c
Lacks(s, c) == \A k \in 1..Len(s) : s[k] # c

\* Where it is found.
LEMMA HitsChar ==
  ASSUME NEW V, NEW s \in Seq(V), NEW c \in V
  PROVE  Hits(s, <<c>>, 1) = {j \in 1..Len(s) : s[j] = c}
<1> DEFINE f == <<c>>
<1>1. f \in Seq(V) /\ Len(f) = 1 /\ f[1] = c
  OBVIOUS
<1> HIDE DEF f
<1>2. ASSUME NEW j \in 1..Len(s)
      PROVE  SubSeq(s, j, j + Len(f) - 1) = f <=> s[j] = c
  <2> DEFINE u == SubSeq(s, j, j)
  <2>1. j + Len(f) - 1 = j
    BY <1>1
  <2>2. Len(u) = 1 /\ u[1] = s[j] /\ u \in Seq(V)
    OBVIOUS
  <2> HIDE DEF u
  <2>3. u = f <=> s[j] = c
    <3>1. ASSUME s[j] = c PROVE u = f
      <4>1. Len(u) = Len(f) /\ \A i \in 1..Len(u) : u[i] = f[i]
        BY <1>1, <2>2, <3>1
      <4> QED
        BY <1>1, <2>2, <4>1, SameText
    <3> QED
      BY <1>1, <2>2, <3>1
  <2> QED
    BY <2>1, <2>3 DEF u
<1>3. 1..(Len(s) - Len(f) + 1) = 1..Len(s)
  BY <1>1
<1> QED
  BY <1>2, <1>3 DEF Hits, f

\* find() returns the first place.
LEMMA FindFirst ==
  ASSUME NEW V, NEW s \in Seq(V), NEW c \in V, NEW m, FirstAt(s, c, m)
  PROVE  Find(s, <<c>>, 1) = m
<1> DEFINE f == <<c>>
           H == Hits(s, f, 1)
<1>1. f \in Seq(V) /\ 1 \in Nat \ {0}
  OBVIOUS
<1>2. H = {j \in 1..Len(s) : s[j] = c}
  BY HitsChar
<1>3. m \in H /\ \A k \in H : m <= k
  BY <1>2 DEF FirstAt
<1> HIDE DEF f
<1>4. Find(s, f, 1) = m
  BY <1>1, <1>3, FindOf
<1> QED
  BY <1>4 DEF f

\* And 0 if there is none.
LEMMA FindLacks ==
  ASSUME NEW V, NEW s \in Seq(V), NEW c \in V
  PROVE  Find(s, <<c>>, 1) = 0 <=> Lacks(s, c)
<1> DEFINE f == <<c>>
           H == Hits(s, f, 1)
<1>1. f \in Seq(V) /\ 1 \in Nat \ {0}
  OBVIOUS
<1>2. H = {j \in 1..Len(s) : s[j] = c}
  BY HitsChar
<1> HIDE DEF f
<1>3. H = {} <=> Find(s, f, 1) = 0
  BY <1>1, FindIs
<1> QED
  BY <1>2, <1>3 DEF f, Lacks

\* The place of a letter among the letters behind lo.
Letters(t, lo) == \A i \in 1..26 : t[i] = lo + i

\* In any text with these letters.
LEMMA LetterIn ==
  ASSUME NEW lo \in Nat, NEW x \in Nat, NEW t \in Seq(Chars), Len(t) = 26, Letters(t, lo)
  PROVE  Find(t, <<x>>, 1) = IF x \in (lo + 1)..(lo + 26) THEN x - lo ELSE 0
<1>1. x \in Chars
  BY DEF Chars
<1>2. CASE x \in (lo + 1)..(lo + 26)
  <2> DEFINE m == x - lo
  <2>1. m \in 1..26 /\ lo + m = x
    BY <1>2
  <2> HIDE DEF m
  <2>2. FirstAt(t, x, m)
    <3>1. t[m] = x
      BY <2>1 DEF Letters
    <3>2. ASSUME NEW k \in 1..(m - 1) PROVE t[k] # x
      <4>1. k \in 1..26 /\ lo + k # x
        BY <2>1
      <4>2. t[k] = lo + k
        BY <4>1 DEF Letters
      <4> QED
        BY <4>1, <4>2
    <3>3. m \in 1..Len(t)
      BY <2>1
    <3> QED
      BY <3>1, <3>2, <3>3 DEF FirstAt
  <2>3. Find(t, <<x>>, 1) = m
    BY <1>1, <2>2, FindFirst
  <2> QED
    BY <1>2, <2>3 DEF m
<1>3. CASE x \notin (lo + 1)..(lo + 26)
  <2>1. ASSUME NEW k \in 1..Len(t) PROVE t[k] # x
    <3>1. k \in 1..26 /\ lo + k \in (lo + 1)..(lo + 26)
      <4>1. k \in 1..26
        OBVIOUS
      <4> QED
        BY <4>1
    <3>2. t[k] = lo + k
      BY <3>1 DEF Letters
    <3> QED
      BY <1>3, <3>1, <3>2
  <2>2. Lacks(t, x)
    BY <2>1 DEF Lacks
  <2> QED
    BY <1>1, <1>3, <2>2, FindLacks
<1> QED
  BY <1>2, <1>3

\* In the one that is written down.
LEMMA LetterAt ==
  ASSUME NEW lo \in Nat, NEW x \in Nat
  PROVE  Find([i \in 1..26 |-> lo + i], <<x>>, 1) = IF x \in (lo + 1)..(lo + 26) THEN x - lo ELSE 0
<1> DEFINE t == [i \in 1..26 |-> lo + i]
<1>1. t \in Seq(Chars) /\ Len(t) = 26 /\ Letters(t, lo)
  BY DEF Chars, Letters
<1> HIDE DEF t
<1>2. Find(t, <<x>>, 1) = IF x \in (lo + 1)..(lo + 26) THEN x - lo ELSE 0
  BY <1>1, LetterIn
<1> QED
  BY <1>2 DEF t

\* upcase() and downcase(), character by character.
Lower(x) == IF x \in 65..90 THEN x + 32 ELSE x
Upper(x) == IF x \in 97..122 THEN x - 32 ELSE x

\* Each character by itself.
LEMMA CaseAt ==
  ASSUME NEW s \in Seq(Chars), NEW i \in 1..Len(s)
  PROVE  Downcase(s)[i] = Lower(s[i]) /\ Upcase(s)[i] = Upper(s[i]) /\ s[i] \in Nat
<1> DEFINE low == [j \in 1..26 |-> 96 + j]
           up == [j \in 1..26 |-> 64 + j]
           x == s[i]
           atL == Find(low, <<x>>, 1)
           atU == Find(up, <<x>>, 1)
<1>1. x \in Nat
  BY DEF Chars
<1>2. atL = IF x \in (96 + 1)..(96 + 26) THEN x - 96 ELSE 0
  <2> HIDE DEF x
  <2> QED
    BY <1>1, LetterAt
<1>3. atU = IF x \in (64 + 1)..(64 + 26) THEN x - 64 ELSE 0
  <2> HIDE DEF x
  <2> QED
    BY <1>1, LetterAt
<1>4. i \in DOMAIN s
  OBVIOUS
<1>5. Downcase(s)[i] = IF atU = 0 THEN x ELSE low[atU]
  BY <1>4, Zenon DEF Downcase, ChangeCase
<1>6. Upcase(s)[i] = IF atL = 0 THEN x ELSE up[atL]
  BY <1>4, Zenon DEF Upcase, ChangeCase
<1>7. ASSUME NEW j \in 1..26 PROVE low[j] = 96 + j /\ up[j] = 64 + j
  OBVIOUS
<1> DEFINE dc == Downcase(s)[i]
           uc == Upcase(s)[i]
<1> HIDE DEF dc, uc
<1>8. dc = IF atU = 0 THEN x ELSE low[atU]
  BY <1>5 DEF dc
<1>9. uc = IF atL = 0 THEN x ELSE up[atL]
  BY <1>6 DEF uc
<1> HIDE DEF x, atL, atU, low, up
<1>10. dc = Lower(x)
  <2>1. CASE x \in 65..90
    <3>1. atU = x - 64 /\ atU \in 1..26 /\ atU # 0
      BY <1>1, <1>3, <2>1
    <3>2. low[atU] = 96 + atU
      BY <1>7, <3>1
    <3> QED
      BY <1>1, <1>8, <2>1, <3>1, <3>2 DEF Lower
  <2>2. CASE x \notin 65..90
    <3>1. atU = 0
      BY <1>1, <1>3, <2>2
    <3> QED
      BY <1>8, <2>2, <3>1 DEF Lower
  <2> QED
    BY <2>1, <2>2
<1>11. uc = Upper(x)
  <2>1. CASE x \in 97..122
    <3>1. atL = x - 96 /\ atL \in 1..26 /\ atL # 0
      BY <1>1, <1>2, <2>1
    <3>2. up[atL] = 64 + atL
      BY <1>7, <3>1
    <3> QED
      BY <1>1, <1>9, <2>1, <3>1, <3>2 DEF Upper
  <2>2. CASE x \notin 97..122
    <3>1. atL = 0
      BY <1>1, <1>2, <2>2
    <3> QED
      BY <1>9, <2>2, <3>1 DEF Upper
  <2> QED
    BY <2>1, <2>2
<1> QED
  BY <1>1, <1>10, <1>11 DEF x, dc, uc

\* They make texts of the same length.
LEMMA CaseType ==
  ASSUME NEW s \in Seq(Chars)
  PROVE  /\ Downcase(s) \in Seq(Chars) /\ Len(Downcase(s)) = Len(s)
         /\ Upcase(s) \in Seq(Chars) /\ Len(Upcase(s)) = Len(s)
<1>1. DOMAIN s = 1..Len(s) /\ Len(s) \in Nat
  OBVIOUS
<1>2. \A x \in Nat : Lower(x) \in Chars /\ Upper(x) \in Chars
  BY DEF Chars, Lower, Upper
<1>3. \A i \in 1..Len(s) : Downcase(s)[i] \in Chars /\ Upcase(s)[i] \in Chars
  BY <1>2, CaseAt
<1>4. Downcase(s) = [i \in 1..Len(s) |-> Downcase(s)[i]]
  BY <1>1 DEF Downcase, ChangeCase
<1>5. Upcase(s) = [i \in 1..Len(s) |-> Upcase(s)[i]]
  BY <1>1 DEF Upcase, ChangeCase
<1>6. ASSUME NEW t, t = [i \in 1..Len(s) |-> t[i]], \A i \in 1..Len(s) : t[i] \in Chars
      PROVE  t \in Seq(Chars) /\ Len(t) = Len(s)
  BY <1>1, <1>6
<1> QED
  BY <1>3, <1>4, <1>5, <1>6

\* The digits, in either case, are what HexToChar() reads.
Digit(x, d) == x = Hexits[d + 1] \/ (x = Hexits[d + 1] + 32 /\ Hexits[d + 1] \in 65..90)

\* The sixteen digits.
LEMMA HexitIs ==
  /\ Hexits \in Seq(Chars) /\ Len(Hexits) = 16
  /\ \A d \in 0..15 : /\ Hexits[d + 1] = IF d <= 9 THEN 48 + d ELSE 55 + d
                      /\ Find(Hexits, <<Hexits[d + 1]>>, 1) = d + 1
<1>1. Hexits \in Seq(Chars) /\ Len(Hexits) = 16
  BY DEF Hexits, Chars
<1>2. \A d \in 0..15 : Hexits[d + 1] = IF d <= 9 THEN 48 + d ELSE 55 + d
  BY DEF Hexits
<1>3. ASSUME NEW d \in 0..15
      PROVE  Find(Hexits, <<Hexits[d + 1]>>, 1) = d + 1
  <2> DEFINE m == d + 1
             c == Hexits[m]
  <2>1. m \in 1..Len(Hexits) /\ c \in Chars
    <3>1. m \in 1..16
      OBVIOUS
    <3>2. \A i \in 1..Len(Hexits) : Hexits[i] \in Chars
      BY <1>1, Elements
    <3> HIDE DEF m
    <3> QED
      BY <1>1, <3>1, <3>2
  <2>2. \A k \in 1..(m - 1) : Hexits[k] # c
    <3> TAKE k \in 1..(m - 1)
    <3>1. k - 1 \in 0..15 /\ (k - 1) + 1 = k /\ k - 1 < d
      OBVIOUS
    <3>2. Hexits[k] = IF k - 1 <= 9 THEN 48 + (k - 1) ELSE 55 + (k - 1)
      BY <1>2, <3>1
    <3>3. c = IF d <= 9 THEN 48 + d ELSE 55 + d
      BY <1>2
    <3> QED
      BY <3>1, <3>2, <3>3
  <2> HIDE DEF m, c
  <2>3. Hexits[m] = c
    BY DEF c
  <2>4. FirstAt(Hexits, c, m)
    BY <2>1, <2>2, <2>3 DEF FirstAt
  <2>5. Find(Hexits, <<c>>, 1) = m
    BY <1>1, <2>1, <2>4, FindFirst
  <2> QED
    BY <2>5 DEF c, m
<1> QED
  BY <1>1, <1>2, <1>3

\* Two digits are the number they stand for.
LEMMA DigitsRead ==
  ASSUME NEW x \in Chars, NEW y \in Chars, NEW d \in 0..15, NEW e \in 0..15, Digit(x, d), Digit(y, e)
  PROVE  HexToChar(<<x, y>>) = 16 * d + e
<1> DEFINE s == <<x, y>>
<1>1. s \in Seq(Chars) /\ Len(s) = 2 /\ s[1] = x /\ s[2] = y
  OBVIOUS
<1> HIDE DEF s
<1>2. Upcase(s)[1] = Upper(x) /\ Upcase(s)[2] = Upper(y)
  <2>1. 1 \in 1..Len(s) /\ 2 \in 1..Len(s)
    BY <1>1
  <2> QED
    BY <1>1, <2>1, CaseAt
<1>3. ASSUME NEW z \in Chars, NEW k \in 0..15, Digit(z, k)
      PROVE  Upper(z) = Hexits[k + 1]
  <2>1. Hexits[k + 1] = IF k <= 9 THEN 48 + k ELSE 55 + k
    BY HexitIs
  <2>2. z = Hexits[k + 1] \/ (z = Hexits[k + 1] + 32 /\ Hexits[k + 1] \in 65..90)
    BY <1>3 DEF Digit
  <2> QED
    BY <2>1, <2>2 DEF Upper
<1>4. Upcase(s)[1] = Hexits[d + 1] /\ Upcase(s)[2] = Hexits[e + 1]
  BY <1>2, <1>3
<1>5. Find(Hexits, <<Upcase(s)[1]>>, 1) - 1 = d /\ Find(Hexits, <<Upcase(s)[2]>>, 1) - 1 = e
  <2>1. Find(Hexits, <<Upcase(s)[1]>>, 1) = d + 1 /\ Find(Hexits, <<Upcase(s)[2]>>, 1) = e + 1
    BY <1>4, HexitIs
  <2> QED
    BY <2>1
<1>6. HexToChar(s) = (16 * (Find(Hexits, <<Upcase(s)[1]>>, 1) - 1)
                      + (Find(Hexits, <<Upcase(s)[2]>>, 1) - 1)) % 256
  <2>1. ~(1 > Len(s)) /\ ~(2 > Len(s))
    BY <1>1
  <2> QED
    BY <2>1 DEF HexToChar
<1>7. HexToChar(s) = (16 * d + e) % 256
  BY <1>5, <1>6
<1>8. (16 * d + e) % 256 = 16 * d + e
  <2>1. 16 * d + e \in 0..255
    OBVIOUS
  <2> QED
    BY <2>1
<1> QED
  BY <1>7, <1>8 DEF s

-----------------------------------------------------------------------------
(* http_enhex() and the way back *)

\* A text of which every character was written as a "%" and two digits.
Encodes(t, s) ==
  /\ t \in Seq(Chars) /\ Len(t) = 3 * Len(s)
  /\ \A k \in 1..Len(s) : /\ t[3 * k - 2] = Percent
                          /\ HexToChar(<<t[3 * k - 1], t[3 * k]>>) = s[k]

\* The text after n rounds: n characters, and what encodes the others.
Decoded(t, s, n) == [i \in 1..(3 * Len(s) - 2 * n) |-> IF i <= n THEN s[i] ELSE t[2 * n + i]]

\* Its characters.
LEMMA DecodedType ==
  ASSUME NEW s \in Seq(Chars), NEW t, Encodes(t, s), NEW n \in 0..Len(s)
  PROVE  /\ Decoded(t, s, n) \in Seq(Chars)
         /\ Len(Decoded(t, s, n)) = 3 * Len(s) - 2 * n
         /\ \A i \in 1..(3 * Len(s) - 2 * n) :
              Decoded(t, s, n)[i] = IF i <= n THEN s[i] ELSE t[2 * n + i]
<1> DEFINE L == Len(s)
           M == 3 * L - 2 * n
           u == Decoded(t, s, n)
<1>1. L \in Nat /\ n \in Nat /\ n <= L /\ M \in Nat
  OBVIOUS
<1>2. u = [i \in 1..M |-> IF i <= n THEN s[i] ELSE t[2 * n + i]]
  BY DEF Decoded
<1>3. ASSUME NEW i \in 1..M
      PROVE  (IF i <= n THEN s[i] ELSE t[2 * n + i]) \in Chars
  <2>1. \A k \in 1..L : s[k] \in Chars
    BY Elements
  <2>2. t \in Seq(Chars) /\ Len(t) = 3 * L
    BY DEF Encodes
  <2>3. \A k \in 1..(3 * L) : t[k] \in Chars
    <3>1. \A k \in 1..Len(t) : t[k] \in Chars
      BY <2>2, Elements
    <3> QED
      BY <2>2, <3>1
  <2>4. i <= n => i \in 1..L
    BY <1>1
  <2>5. i > n => 2 * n + i \in 1..(3 * L)
    BY <1>1
  <2> HIDE DEF L, M
  <2> QED
    BY <1>1, <2>1, <2>3, <2>4, <2>5
<1> HIDE DEF M, u
<1>4. u \in [1..M -> Chars]
  BY <1>2, <1>3
<1>5. u \in Seq(Chars) /\ Len(u) = M
  BY <1>1, <1>4
<1>6. \A i \in 1..M : u[i] = IF i <= n THEN s[i] ELSE t[2 * n + i]
  BY <1>2
<1> QED
  BY <1>5, <1>6 DEF M, u, L

\* A text behind a text.
Follows(z, p, r) == /\ Len(z) = Len(p) + Len(r)
                    /\ \A i \in 1..Len(p) : z[i] = p[i]
                    /\ \A i \in 1..Len(r) : z[Len(p) + i] = r[i]

\* Its parts.
LEMMA Following ==
  ASSUME NEW V, NEW p \in Seq(V), NEW r \in Seq(V)
  PROVE  p \o r \in Seq(V) /\ Follows(p \o r, p, r)
BY DEF Follows

\* A round decodes the next character.
LEMMA DecodedStep ==
  ASSUME NEW s \in Seq(Chars), Lacks(s, Percent), NEW t, Encodes(t, s), NEW n \in Nat, n < Len(s)
  PROVE  UnHexOnce(Decoded(t, s, n)) = Decoded(t, s, n + 1)
<1> DEFINE L == Len(s)
           u == Decoded(t, s, n)
           w == Decoded(t, s, n + 1)
           M == 3 * L - 2 * n
<1>1. L \in Nat /\ n < L /\ M \in Nat /\ M >= n + 3 /\ n + 1 \in 0..L /\ n \in 0..L /\ M - 2 = 3 * L - 2 * (n + 1)
  OBVIOUS
<1>2. u \in Seq(Chars) /\ Len(u) = M /\ \A i \in 1..M : u[i] = IF i <= n THEN s[i] ELSE t[2 * n + i]
  BY <1>1, DecodedType
<1>3. w \in Seq(Chars) /\ Len(w) = M - 2
      /\ \A i \in 1..(M - 2) : w[i] = IF i <= n + 1 THEN s[i] ELSE t[2 * (n + 1) + i]
  <2>1. n + 1 \in 0..Len(s)
    BY <1>1
  <2> DEFINE m == n + 1
  <2> HIDE DEF m
  <2>2. /\ Decoded(t, s, m) \in Seq(Chars) /\ Len(Decoded(t, s, m)) = 3 * L - 2 * m
        /\ \A i \in 1..(3 * L - 2 * m) : Decoded(t, s, m)[i] = IF i <= m THEN s[i] ELSE t[2 * m + i]
    BY <2>1, DecodedType DEF m
  <2> QED
    BY <1>1, <2>2 DEF m
<1> HIDE DEF u, w, M
<1>4. t[2 * n + (n + 1)] = Percent /\ HexToChar(<<t[2 * n + (n + 2)], t[2 * n + (n + 3)]>>) = s[n + 1]
  <2> DEFINE k == n + 1
  <2>1. k \in 1..Len(s) /\ 3 * k - 2 = 2 * n + (n + 1) /\ 3 * k - 1 = 2 * n + (n + 2) /\ 3 * k = 2 * n + (n + 3)
    BY <1>1
  <2> HIDE DEF k
  <2>2. t[3 * k - 2] = Percent /\ HexToChar(<<t[3 * k - 1], t[3 * k]>>) = s[k]
    BY <2>1 DEF Encodes
  <2>3. t[2 * n + (n + 1)] = Percent /\ HexToChar(<<t[2 * n + (n + 2)], t[2 * n + (n + 3)]>>) = s[k]
    BY <2>1, <2>2
  <2> QED
    BY <2>3 DEF k
<1>5. n + 1 \in 1..M /\ n + 2 \in 1..M /\ n + 3 \in 1..M
  BY <1>1
<1>6. u[n + 1] = Percent /\ u[n + 2] = t[2 * n + (n + 2)] /\ u[n + 3] = t[2 * n + (n + 3)]
  <2>1. ~(n + 1 <= n) /\ ~(n + 2 <= n) /\ ~(n + 3 <= n)
    OBVIOUS
  <2> QED
    BY <1>2, <1>4, <1>5, <2>1
<1>7. Find(u, <<Percent>>, 1) = n + 1
  <2>1. ASSUME NEW k \in 1..n PROVE u[k] # Percent
    <3>1. k \in 1..M /\ k <= n /\ k \in 1..Len(s)
      BY <1>1
    <3>2. u[k] = s[k]
      BY <1>2, <3>1
    <3> QED
      BY <3>1, <3>2 DEF Lacks
  <2>2. (n + 1) - 1 = n
    OBVIOUS
  <2>3. FirstAt(u, Percent, n + 1)
    BY <1>2, <1>5, <1>6, <2>1, <2>2 DEF FirstAt
  <2>4. Percent \in Chars
    BY DEF Percent, Chars
  <2> DEFINE m == n + 1
  <2> HIDE DEF m
  <2>5. FirstAt(u, Percent, m)
    BY <2>3 DEF m
  <2>6. Find(u, <<Percent>>, 1) = m
    BY <1>2, <2>4, <2>5, FindFirst
  <2> QED
    BY <2>6 DEF m
<1>8. Min({(n + 1) + 2, Len(u)}) = n + 3
  <2>1. {(n + 1) + 2, Len(u)} \in SUBSET Nat /\ n + 3 \in {(n + 1) + 2, Len(u)}
        /\ \A k \in {(n + 1) + 2, Len(u)} : n + 3 <= k
    BY <1>1, <1>2
  <2> DEFINE T == {(n + 1) + 2, Len(u)}
             m == n + 3
  <2> HIDE DEF T, m
  <2>2. T \in SUBSET Nat /\ m \in T /\ \A k \in T : m <= k
    BY <2>1 DEF T, m
  <2>3. Min(T) = m
    BY <2>2, MinOf
  <2> QED
    BY <2>3 DEF T, m
<1>9. SubSeq(u, (n + 1) + 1, n + 3) = <<u[n + 2], u[n + 3]>>
  <2> DEFINE v == SubSeq(u, n + 2, n + 3)
             d == <<u[n + 2], u[n + 3]>>
  <2>1. n + 2 \in 1..(Len(u) + 1) /\ n + 3 \in 0..Len(u) /\ n + 2 <= (n + 3) + 1
        /\ (n + 3) - (n + 2) + 1 = 2
    BY <1>1, <1>2
  <2>2. v \in Seq(Chars) /\ Len(v) = 2 /\ v[1] = u[n + 2] /\ v[2] = u[n + 3]
    <3> DEFINE lo == n + 2
               hi == n + 3
    <3> HIDE DEF lo, hi
    <3>1. /\ SubSeq(u, lo, hi) \in Seq(Chars) /\ Len(SubSeq(u, lo, hi)) = hi - lo + 1
          /\ \A i \in 1..(hi - lo + 1) : SubSeq(u, lo, hi)[i] = u[lo + i - 1]
      BY <1>2, <2>1, PartIs DEF lo, hi
    <3>2. hi - lo + 1 = 2 /\ lo + 1 - 1 = n + 2 /\ lo + 2 - 1 = n + 3 /\ 1 \in 1..2 /\ 2 \in 1..2
      BY <2>1 DEF lo, hi
    <3>3. /\ SubSeq(u, lo, hi)[1] = u[lo + 1 - 1]
          /\ SubSeq(u, lo, hi)[2] = u[lo + 2 - 1]
      BY <3>1, <3>2
    <3> QED
      BY <3>1, <3>2, <3>3 DEF lo, hi
  <2>3. d \in Seq(Chars) /\ Len(d) = 2 /\ d[1] = u[n + 2] /\ d[2] = u[n + 3]
    <3>1. u[n + 2] \in Chars /\ u[n + 3] \in Chars
      BY <1>2, <1>5
    <3> QED
      BY <3>1
  <2> HIDE DEF v, d
  <2>4. \A i \in 1..Len(v) : v[i] = d[i]
    BY <2>2, <2>3
  <2>5. v = d
    BY <2>2, <2>3, <2>4, SameText
  <2>6. (n + 1) + 1 = n + 2
    OBVIOUS
  <2> QED
    BY <2>5, <2>6 DEF v, d
<1>10. UnHexOnce(u) = SubSeq(u, 1, n) \o <<s[n + 1]>> \o Rest(u, n + 4)
  <2>1. n + 1 # 0 /\ (n + 1) - 1 = n /\ (n + 1) + 3 = n + 4
    OBVIOUS
  <2>2. HexToChar(SubSeq(u, (n + 1) + 1, Min({(n + 1) + 2, Len(u)}))) = s[n + 1]
    BY <1>4, <1>6, <1>8, <1>9
  <2>3. UnHexOnce(u) = SubSeq(u, 1, (n + 1) - 1) \o <<HexToChar(SubSeq(u, (n + 1) + 1, Min({(n + 1) + 2, Len(u)})))>>
                       \o Rest(u, (n + 1) + 3)
    BY <1>7, <2>1, Zenon DEF UnHexOnce
  <2> QED
    BY <2>1, <2>2, <2>3
<1>11. SubSeq(u, 1, n) \o <<s[n + 1]>> \o Rest(u, n + 4) = w
  <2> DEFINE p == SubSeq(u, 1, n)
             c == <<s[n + 1]>>
             r == Rest(u, n + 4)
             K == M - n - 3
  <2>0. K \in Nat /\ M - 2 = n + 1 + K
    BY <1>1 DEF K
  <2>1. p \in Seq(Chars) /\ Len(p) = n /\ \A i \in 1..n : p[i] = u[i]
    <3>1. 1 \in 1..(Len(u) + 1) /\ n \in 0..Len(u) /\ 1 <= n + 1 /\ n - 1 + 1 = n
      BY <1>1, <1>2
    <3>2. /\ SubSeq(u, 1, n) \in Seq(Chars) /\ Len(SubSeq(u, 1, n)) = n - 1 + 1
          /\ \A i \in 1..(n - 1 + 1) : SubSeq(u, 1, n)[i] = u[1 + i - 1]
      BY <1>2, <3>1, PartIs
    <3>3. \A i \in 1..n : 1 + i - 1 = i
      OBVIOUS
    <3> QED
      BY <3>1, <3>2, <3>3
  <2>2. r \in Seq(Chars) /\ Len(r) = K /\ \A i \in 1..K : r[i] = u[n + 3 + i]
    <3> DEFINE lo == n + 4
    <3>1. lo \in 1..(Len(u) + 1) /\ Len(u) \in 0..Len(u) /\ lo <= Len(u) + 1 /\ Len(u) - lo + 1 = K
      BY <1>1, <1>2
    <3> HIDE DEF lo
    <3>2. /\ SubSeq(u, lo, Len(u)) \in Seq(Chars) /\ Len(SubSeq(u, lo, Len(u))) = Len(u) - lo + 1
          /\ \A i \in 1..(Len(u) - lo + 1) : SubSeq(u, lo, Len(u))[i] = u[lo + i - 1]
      BY <1>2, <3>1, PartIs
    <3>3. r = SubSeq(u, lo, Len(u))
      BY DEF Rest, lo
    <3>4. \A i \in 1..K : lo + i - 1 = n + 3 + i
      BY DEF lo
    <3> HIDE DEF K, r
    <3> QED
      BY <3>1, <3>2, <3>3, <3>4
  <2>3. c \in Seq(Chars) /\ Len(c) = 1 /\ c[1] = s[n + 1]
    <3>1. n + 1 \in 1..Len(s)
      BY <1>1
    <3>2. s[n + 1] \in Chars
      BY <3>1, Elements
    <3> QED
      BY <3>2
  <2> HIDE DEF p, c, r, K
  <2> DEFINE q == p \o c
             z == q \o r
  <2>4. q \in Seq(Chars) /\ Follows(q, p, c)
    BY <2>1, <2>3, Following
  <2> HIDE DEF q
  <2>5. z \in Seq(Chars) /\ Follows(z, q, r)
    BY <2>2, <2>4, Following
  <2> HIDE DEF z
  <2>6. /\ Len(z) = n + 1 + K
        /\ \A i \in 1..n : z[i] = p[i]
        /\ z[n + 1] = s[n + 1]
        /\ \A i \in 1..K : z[n + 1 + i] = r[i]
    <3>1. Len(q) = n + 1 /\ (\A i \in 1..n : q[i] = p[i]) /\ q[n + 1] = s[n + 1]
      BY <2>1, <2>3, <2>4 DEF Follows
    <3>2. /\ Len(z) = n + 1 + K
          /\ \A i \in 1..(n + 1) : z[i] = q[i]
          /\ \A i \in 1..K : z[n + 1 + i] = r[i]
      BY <2>2, <2>5, <3>1 DEF Follows
    <3> QED
      BY <3>1, <3>2
  <2>7. Len(z) = M - 2
    BY <2>0, <2>6
  <2>8. ASSUME NEW i \in 1..(M - 2) PROVE z[i] = w[i]
    <3>1. CASE i \in 1..n
      <4>1. i \in 1..(n + 1) /\ i \in 1..M /\ i <= n /\ i <= n + 1
        BY <1>1, <3>1
      <4>2. u[i] = s[i] /\ w[i] = s[i]
        BY <1>2, <1>3, <2>8, <4>1
      <4> QED
        BY <2>1, <2>6, <3>1, <4>2
    <3>2. CASE i = n + 1
      <4>1. i \in 1..(n + 1) /\ i <= n + 1
        BY <3>2
      <4>2. w[i] = s[i]
        BY <1>3, <2>8, <4>1
      <4> QED
        BY <2>6, <3>2, <4>2
    <3>3. CASE i > n + 1
      <4> DEFINE j == i - (n + 1)
      <4>1. j \in 1..K /\ n + 1 + j = i /\ n + 3 + j \in 1..M /\ ~(n + 3 + j <= n) /\ ~(i <= n + 1)
            /\ 2 * n + (n + 3 + j) = 2 * (n + 1) + i
        BY <1>1, <2>0, <2>8, <3>3
      <4> HIDE DEF j
      <4>2. z[i] = r[j] /\ r[j] = u[n + 3 + j]
        BY <2>2, <2>6, <4>1
      <4>3. u[n + 3 + j] = t[2 * n + (n + 3 + j)]
        BY <1>2, <4>1
      <4>4. w[i] = t[2 * (n + 1) + i]
        BY <1>3, <2>8, <4>1
      <4> QED
        BY <4>1, <4>2, <4>3, <4>4
    <3> QED
      BY <1>1, <2>8, <3>1, <3>2, <3>3
  <2>9. z = w
    BY <1>3, <2>7, <2>8, <2>5, SameText
  <2> QED
    BY <2>9 DEF z, q, p, c, r
<1> QED
  BY <1>10, <1>11 DEF u, w

\* All the rounds: what encodes a text without a "%" is decoded to it.
LEMMA UnHexIs ==
  ASSUME NEW s \in Seq(Chars), Lacks(s, Percent), NEW t, Encodes(t, s)
  PROVE  UnHex(t) = s
<1> DEFINE L == Len(s)
           N == Len(t)
           Body(g) == [n \in 0..N |-> IF n = 0 THEN t ELSE UnHexOnce(g[n - 1])]
           r == [n \in 0..N |-> Decoded(t, s, IF n <= L THEN n ELSE L)]
           round == CHOOSE g : g = Body(g)
<1>1. N = 3 * L /\ L \in Nat /\ N \in Nat /\ t \in Seq(Chars)
  BY DEF Encodes
<1>2. Decoded(t, s, 0) = t
  <2> DEFINE m == 0
  <2>1. m \in 0..Len(s) /\ 3 * L - 2 * m = N /\ \A i \in 1..N : ~(i <= m) /\ 2 * m + i = i
    BY <1>1
  <2> HIDE DEF m, N
  <2>2. /\ Decoded(t, s, m) \in Seq(Chars) /\ Len(Decoded(t, s, m)) = N
        /\ \A i \in 1..N : Decoded(t, s, m)[i] = IF i <= m THEN s[i] ELSE t[2 * m + i]
    BY <2>1, DecodedType
  <2>3. \A i \in 1..N : Decoded(t, s, m)[i] = t[i]
    BY <2>1, <2>2
  <2>4. Decoded(t, s, m) = t
    BY <1>1, <2>2, <2>3, SameText DEF N
  <2> QED
    BY <2>4 DEF m
<1>3. Decoded(t, s, L) = s
  <2>1. L \in 0..Len(s) /\ 3 * L - 2 * L = L /\ \A i \in 1..L : i <= L
    BY <1>1
  <2>2. /\ Decoded(t, s, L) \in Seq(Chars) /\ Len(Decoded(t, s, L)) = L
        /\ \A i \in 1..L : Decoded(t, s, L)[i] = IF i <= L THEN s[i] ELSE t[2 * L + i]
    BY <2>1, DecodedType
  <2>3. \A i \in 1..L : Decoded(t, s, L)[i] = s[i]
    BY <2>1, <2>2
  <2> QED
    BY <1>1, <2>2, <2>3, SameText
<1>4. UnHexOnce(s) = s
  <2>1. Percent \in Chars
    BY DEF Percent, Chars
  <2>2. Find(s, <<Percent>>, 1) = 0
    BY <2>1, FindLacks
  <2> QED
    BY <2>2 DEF UnHexOnce
<1> HIDE DEF L, N
<1>5. r[0] = t /\ r[N] = s
  <2>1. 0 \in 0..N /\ 0 <= L /\ N \in 0..N
    BY <1>1
  <2>2. r[0] = Decoded(t, s, 0)
    BY <2>1
  <2>3. r[N] = Decoded(t, s, IF N <= L THEN N ELSE L)
    BY <2>1
  <2>4. N <= L => N = L
    BY <1>1
  <2> HIDE DEF r
  <2> QED
    BY <1>2, <1>3, <2>2, <2>3, <2>4
<1>6. ASSUME NEW n \in 1..N PROVE r[n] = UnHexOnce(r[n - 1])
  <2>1. n \in 0..N /\ n - 1 \in 0..N
    BY <1>1
  <2>2. r[n] = Decoded(t, s, IF n <= L THEN n ELSE L)
    BY <2>1
  <2>3. r[n - 1] = Decoded(t, s, IF n - 1 <= L THEN n - 1 ELSE L)
    BY <2>1
  <2> HIDE DEF r
  <2>4. CASE n <= L
    <3> DEFINE m == n - 1
    <3>1. m \in Nat /\ m < Len(s) /\ m + 1 = n /\ m <= L
      BY <1>1, <2>4 DEF L
    <3> HIDE DEF m
    <3>2. UnHexOnce(Decoded(t, s, m)) = Decoded(t, s, m + 1)
      BY <3>1, DecodedStep
    <3>3. r[m] = Decoded(t, s, m)
      BY <2>3, <3>1 DEF m
    <3> QED
      BY <2>2, <2>4, <3>1, <3>2, <3>3 DEF m
  <2>5. CASE n > L
    <3>1. ~(n <= L) /\ (n - 1 <= L => n - 1 = L)
      BY <1>1, <2>1, <2>5
    <3> QED
      BY <1>3, <1>4, <2>2, <2>3, <3>1
  <2> QED
    BY <1>1, <2>1, <2>4, <2>5
<1>7. r = Body(r)
  <2>1. \A n \in 0..N : r[n] = IF n = 0 THEN t ELSE UnHexOnce(r[n - 1])
    <3> TAKE n \in 0..N
    <3>1. n = 0 \/ n \in 1..N
      BY <1>1
    <3> HIDE DEF r
    <3> QED
      BY <1>5, <1>6, <3>1
  <2>2. r = [n \in 0..N |-> r[n]]
    OBVIOUS
  <2> HIDE DEF r
  <2> QED
    BY <2>1, <2>2
<1>8. round = Body(round)
  <2> HIDE DEF Body, r
  <2> QED
    BY <1>7
<1> HIDE DEF r, round
<1>9. N \in {n \in 0..N : round[n] = r[n]}
  <2> DEFINE S == {n \in 0..N : round[n] = r[n]}
  <2>1. \A n \in 0..N : round[n] = IF n = 0 THEN t ELSE UnHexOnce(round[n - 1])
    BY <1>8
  <2>2. 0 \in S
    <3>1. 0 \in 0..N
      BY <1>1
    <3> QED
      BY <1>5, <2>1, <3>1
  <2>3. \A n \in 0..(N - 1) : n \in S => n + 1 \in S
    <3> TAKE n \in 0..(N - 1)
    <3> HAVE n \in S
    <3>1. n + 1 \in 1..N /\ n + 1 \in 0..N /\ n + 1 # 0 /\ (n + 1) - 1 = n
      BY <1>1
    <3>2. round[n + 1] = UnHexOnce(round[n]) /\ r[n + 1] = UnHexOnce(r[n])
      BY <1>6, <2>1, <3>1
    <3> QED
      BY <3>1, <3>2
  <2> HIDE DEF S
  <2>4. 0..N \subseteq S
    BY <1>1, <2>2, <2>3, RangeInduction
  <2> QED
    BY <1>1, <2>4 DEF S
<1>10. UnHex(t) = round[N]
  BY Zenon DEF UnHex, round, N
<1> QED
  BY <1>5, <1>9, <1>10

\* What http_enhex() makes of a text encodes it, in either case.
LEMMA EnHexEncodes ==
  ASSUME NEW s \in Seq(Codes)
  PROVE  Encodes(EnHex(s), s) /\ Encodes(Downcase(EnHex(s)), s)
<1> DEFINE L == Len(s)
           e == EnHex(s)
           d == Downcase(e)
           h == CharToHex(s)
<1>1. L \in Nat /\ \A k \in 1..L : s[k] \in 1..255
  <2>1. \A k \in 1..L : s[k] \in Codes
    BY Elements
  <2>2. L \in Nat
    OBVIOUS
  <2> QED
    BY <2>1, <2>2 DEF Codes
<1>2. e = [i \in 1..(3 * L) |-> IF i % 3 = 1 THEN Percent ELSE h[i - (i + 2) \div 3]]
  BY DEF EnHex
<1>3. h = [i \in 1..(2 * L) |-> IF i % 2 = 1 THEN Hexits[(s[(i + 1) \div 2] \div 16) + 1]
                                ELSE Hexits[(s[(i + 1) \div 2] % 16) + 1]]
  BY DEF CharToHex
<1> HIDE DEF e, h
<1>4. ASSUME NEW k \in 1..L
      PROVE  /\ e[3 * k - 2] = Percent
             /\ e[3 * k - 1] = Hexits[(s[k] \div 16) + 1]
             /\ e[3 * k] = Hexits[(s[k] % 16) + 1]
  <2>1. /\ 3 * k - 2 \in 1..(3 * L) /\ 3 * k - 1 \in 1..(3 * L) /\ 3 * k \in 1..(3 * L)
        /\ 2 * k - 1 \in 1..(2 * L) /\ 2 * k \in 1..(2 * L)
    BY <1>1
  <2>2. /\ (3 * k - 2) % 3 = 1 /\ (3 * k - 1) % 3 = 2 /\ (3 * k) % 3 = 0
        /\ ((3 * k - 1) + 2) \div 3 = k /\ (3 * k + 2) \div 3 = k
    BY <1>1
  <2>3. /\ (2 * k - 1) % 2 = 1 /\ (2 * k) % 2 = 0
        /\ ((2 * k - 1) + 1) \div 2 = k /\ (2 * k + 1) \div 2 = k
    BY <1>1
  <2>4. e[3 * k - 2] = Percent
    BY <1>2, <2>1, <2>2
  <2>5. e[3 * k - 1] = h[2 * k - 1]
    <3>1. (3 * k - 1) - ((3 * k - 1) + 2) \div 3 = 2 * k - 1 /\ (3 * k - 1) % 3 # 1
      BY <1>1, <2>2
    <3> DEFINE i == 3 * k - 1
    <3>2. e[i] = IF i % 3 = 1 THEN Percent ELSE h[i - (i + 2) \div 3]
      BY <1>2, <2>1
    <3> QED
      BY <3>1, <3>2
  <2>6. e[3 * k] = h[2 * k]
    <3>1. (3 * k) - (3 * k + 2) \div 3 = 2 * k /\ (3 * k) % 3 # 1
      BY <1>1, <2>2
    <3> DEFINE i == 3 * k
    <3>2. e[i] = IF i % 3 = 1 THEN Percent ELSE h[i - (i + 2) \div 3]
      BY <1>2, <2>1
    <3> QED
      BY <3>1, <3>2
  <2>7. h[2 * k - 1] = Hexits[(s[k] \div 16) + 1]
    <3> DEFINE i == 2 * k - 1
    <3>1. h[i] = IF i % 2 = 1 THEN Hexits[(s[(i + 1) \div 2] \div 16) + 1]
                 ELSE Hexits[(s[(i + 1) \div 2] % 16) + 1]
      BY <1>3, <2>1
    <3> QED
      BY <2>3, <3>1
  <2>8. h[2 * k] = Hexits[(s[k] % 16) + 1]
    <3> DEFINE i == 2 * k
    <3>1. h[i] = IF i % 2 = 1 THEN Hexits[(s[(i + 1) \div 2] \div 16) + 1]
                 ELSE Hexits[(s[(i + 1) \div 2] % 16) + 1]
      BY <1>3, <2>1
    <3>2. i % 2 # 1
      BY <2>3
    <3> QED
      BY <2>3, <3>1, <3>2
  <2> QED
    BY <2>4, <2>5, <2>6, <2>7, <2>8
<1>5. ASSUME NEW k \in 1..L
      PROVE  /\ s[k] \div 16 \in 0..15 /\ s[k] % 16 \in 0..15 /\ 16 * (s[k] \div 16) + (s[k] % 16) = s[k]
  <2> DEFINE x == s[k]
  <2>1. x \in 1..255
    BY <1>1
  <2> HIDE DEF x
  <2>2. x \div 16 \in 0..15 /\ x % 16 \in 0..15 /\ 16 * (x \div 16) + (x % 16) = x
    BY <2>1
  <2> QED
    BY <2>2 DEF x
<1>6. e \in Seq(Chars) /\ Len(e) = 3 * L
  <2>1. ASSUME NEW i \in 1..(3 * L) PROVE e[i] \in Chars
    <3>1. PICK k \in 1..L : i = 3 * k - 2 \/ i = 3 * k - 1 \/ i = 3 * k
      <4> DEFINE k == (i + 2) \div 3
      <4>1. k \in 1..L /\ (i = 3 * k - 2 \/ i = 3 * k - 1 \/ i = 3 * k)
        BY <1>1
      <4> QED
        BY <4>1
    <3>2. \A x \in 0..15 : Hexits[x + 1] \in Chars
      <4> TAKE x \in 0..15
      <4>1. Hexits[x + 1] = IF x <= 9 THEN 48 + x ELSE 55 + x
        BY HexitIs
      <4> QED
        BY <4>1 DEF Chars
    <3>3. Percent \in Chars
      BY DEF Percent, Chars
    <3> QED
      BY <1>4, <1>5, <3>1, <3>2, <3>3
  <2>2. 3 * L \in Nat
    BY <1>1
  <2>3. e = [i \in 1..(3 * L) |-> e[i]]
    BY <1>2
  <2> DEFINE M == 3 * L
  <2> HIDE DEF M
  <2>4. M \in Nat /\ e = [i \in 1..M |-> e[i]] /\ \A i \in 1..M : e[i] \in Chars
    BY <2>1, <2>2, <2>3 DEF M
  <2>5. e \in Seq(Chars) /\ Len(e) = M
    BY <2>4
  <2> QED
    BY <2>5 DEF M
<1>7. d \in Seq(Chars) /\ Len(d) = 3 * L
  BY <1>6, CaseType
<1>8. ASSUME NEW k \in 1..L
      PROVE  /\ d[3 * k - 2] = Percent
             /\ d[3 * k - 1] = Lower(e[3 * k - 1])
             /\ d[3 * k] = Lower(e[3 * k])
  <2>1. 3 * k - 2 \in 1..Len(e) /\ 3 * k - 1 \in 1..Len(e) /\ 3 * k \in 1..Len(e)
    BY <1>1, <1>6
  <2>2. \A i \in 1..Len(e) : d[i] = Lower(e[i])
    BY <1>6, CaseAt
  <2>3. Lower(Percent) = Percent
    BY DEF Lower, Percent
  <2> QED
    BY <1>4, <2>1, <2>2, <2>3
<1> HIDE DEF d
<1>9. ASSUME NEW x \in 0..15
      PROVE  Digit(Hexits[x + 1], x) /\ Digit(Lower(Hexits[x + 1]), x) /\ Hexits[x + 1] \in Nat
  <2>1. Hexits[x + 1] = IF x <= 9 THEN 48 + x ELSE 55 + x
    BY HexitIs
  <2> QED
    BY <2>1 DEF Digit, Lower
<1>10. ASSUME NEW k \in 1..L
       PROVE  /\ HexToChar(<<e[3 * k - 1], e[3 * k]>>) = s[k]
              /\ HexToChar(<<d[3 * k - 1], d[3 * k]>>) = s[k]
  <2> DEFINE x == s[k] \div 16
             y == s[k] % 16
  <2>1. x \in 0..15 /\ y \in 0..15 /\ 16 * x + y = s[k]
    BY <1>5
  <2>2. /\ e[3 * k - 1] = Hexits[x + 1] /\ e[3 * k] = Hexits[y + 1]
        /\ d[3 * k - 1] = Lower(Hexits[x + 1]) /\ d[3 * k] = Lower(Hexits[y + 1])
    BY <1>4, <1>8
  <2> HIDE DEF x, y
  <2>3. /\ Digit(Hexits[x + 1], x) /\ Digit(Lower(Hexits[x + 1]), x)
        /\ Digit(Hexits[y + 1], y) /\ Digit(Lower(Hexits[y + 1]), y)
    BY <1>9, <2>1
  <2>4. /\ 3 * k - 1 \in 1..(3 * L) /\ 3 * k \in 1..(3 * L)
    BY <1>1
  <2>5. /\ e[3 * k - 1] \in Chars /\ e[3 * k] \in Chars
        /\ d[3 * k - 1] \in Chars /\ d[3 * k] \in Chars
    <3>1. \A i \in 1..Len(e) : e[i] \in Chars
      BY <1>6, Elements
    <3>2. \A i \in 1..Len(d) : d[i] \in Chars
      BY <1>7, Elements
    <3> QED
      BY <1>6, <1>7, <2>4, <3>1, <3>2
  <2>6. HexToChar(<<e[3 * k - 1], e[3 * k]>>) = 16 * x + y
    BY <2>1, <2>2, <2>3, <2>5, DigitsRead
  <2>7. HexToChar(<<d[3 * k - 1], d[3 * k]>>) = 16 * x + y
    BY <2>1, <2>2, <2>3, <2>5, DigitsRead
  <2> QED
    BY <2>1, <2>6, <2>7
<1> QED
  BY <1>4, <1>6, <1>7, <1>8, <1>10 DEF Encodes, d, e

\* The escapes of http_enhex() can be undone, in either case.
LEMMA HexInverts ==
  ASSUME NEW s \in Seq(Codes), Find(s, <<Percent>>, 1) = 0
  PROVE  UnHex(EnHex(s)) = s /\ UnHex(Downcase(EnHex(s))) = s
<1>1. Percent \in Codes /\ Codes \subseteq Chars
  BY DEF Percent, Codes, Chars
<1>2. Lacks(s, Percent)
  BY <1>1, FindLacks
<1>3. s \in Seq(Chars)
  BY <1>1
<1> QED
  BY <1>2, <1>3, EnHexEncodes, UnHexIs

\* StartInv implies what EncodingsInvert says: what was written are texts.
LEMMA StartInvEncodes == StartInv => EncodingsInvert
<1> SUFFICES ASSUME StartInv, NEW i \in DOMAIN pairs
             PROVE  LET s == pairs[i].value
                    IN /\ Unescaped(Mconvert(s)) = s
                       /\ Find(s, <<Percent>>, 1) = 0 => UnHex(EnHex(s)) = s /\ UnHex(Downcase(EnHex(s))) = s
                       /\ Gsub(s, <<Hash>>, <<Quote>>) = Joined(Split(s, Hash), Quote)
  BY DEF EncodingsInvert
<1> DEFINE s == pairs[i].value
<1>1. pairs \in Written
  <2>1. pairs # <<>>
    OBVIOUS
  <2> QED
    BY <2>1 DEF StartInv
<1>2. s \in Seq(Codes) /\ s # <<>>
  <2>1. Writable(pairs)
    BY <1>1, StartAssumption
  <2> QED
    BY <2>1 DEF Writable, Holds
<1> HIDE DEF s
<1>3. Unescaped(Mconvert(s)) = s
  BY <1>2, MconvertInverts
<1>4. Find(s, <<Percent>>, 1) = 0 => UnHex(EnHex(s)) = s /\ UnHex(Downcase(EnHex(s))) = s
  BY <1>2, HexInverts
<1>5. Gsub(s, <<Hash>>, <<Quote>>) = Joined(Split(s, Hash), Quote)
  <2>1. Hash \in Codes /\ Quote \in Codes
    BY DEF Hash, Quote, Codes
  <2> QED
    BY <1>2, <2>1, SplitJoins
<1> QED
  BY <1>3, <1>4, <1>5 DEF s

\* What the encodings make of what was written can be undone.
THEOREM EncodingsAlways == StartSpec => []EncodingsInvert
<1> QED
  BY StartFirst, StartStep, StartInvEncodes, PTL DEF StartSpec
=============================================================================
