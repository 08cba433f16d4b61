----------------------------- MODULE BcpClient -----------------------------
(***************************************************************************)
(* The bot control programs of BCPs/ against one bot: target and kamikaze,  *)
(* whose worker thread reads the socket into a queue, and cal_bot, which    *)
(* reads the socket itself. Requests and replies carry no identity: a reply *)
(* is matched to its request by its place in the stream alone. The bot is   *)
(* what bot_mk1 does with each command, the two directions of the link are  *)
(* sequences.                                                               *)
(***************************************************************************)
EXTENDS Naturals, Sequences

CONSTANTS Programs,  \* which of "target", "kamikaze" and "cal_bot" run
          Zone,      \* target's zone
          MaxDist    \* bound: the largest distance from the zone's center

ASSUME ClientAssumption ==
  /\ Programs \subseteq {"target", "kamikaze", "cal_bot"}
  /\ Zone \in Nat /\ MaxDist \in Nat /\ Zone < MaxDist

VARIABLES prog,           \* the program
          at,             \* main(): "ack", "ask", "again", "wait", "ended", "terminated"
          mode,           \* target's and kamikaze's state; cal_bot's step
          asked,          \* the last query sent
          tohome,         \* target's tohome
          worker,         \* "connect", "read", "gone": cal_bot's main() is its own
          inbound,        \* the handler's queue
          tx, rx,         \* commands and replies on the link
          link,           \* "none", "up", "down"
          here,           \* the socket at this end is open
          bot             \* speed and autopilot as the bot has been told

client == <<prog, at, mode, asked, tohome>>
vars == <<client, worker, inbound, tx, rx, link, here, bot>>

\* Commands by name: "auto_..." is "bot autopilot ...", the argument comes last.
Queries == {"bot_lvar", "radar_contacts", "auto_status"}

\* Valid settings are obeyed without a word.
Reply(c) == IF c \in Queries THEN <<c>> ELSE <<>>

Told(b, c) == CASE c = "auto_speed_100" -> [b EXCEPT !.speed = 100]
                [] c = "auto_speed_10" -> [b EXCEPT !.speed = 10]
                [] c = "auto_speed_300" -> [b EXCEPT !.speed = 300]
                [] c = "auto_on" -> [b EXCEPT !.auto = TRUE]
                [] c = "auto_off" -> [b EXCEPT !.auto = FALSE]
                [] OTHER -> b

\* cal_bot, in order: what it sends before it waits for one reply, and whether
\* it goes on asking for the position until the bot is as wanted.
Script == <<
  [send |-> <<"drive_brake_0", "drive_power_a", "drive_power_0", "bot_lvar">>,
   loop |-> FALSE],
  [send |-> <<"drive_brake_b", "bot_lvar">>, loop |-> FALSE],
  [send |-> <<"bot_lvar">>, loop |-> FALSE],
  [send |-> <<"drive_turn_t", "bot_lvar", "drive_turn_0">>, loop |-> FALSE],
  [send |-> <<"drive_power_0", "drive_brake_100", "bot_lvar">>, loop |-> TRUE],
  [send |-> <<"auto_status">>, loop |-> FALSE],
  [send |-> <<"auto_heading_3_14", "auto_power_100",
              "auto_speed_50", "auto_turn_rate_10",
              "auto_status">>, loop |-> FALSE],
  [send |-> <<"drive_brake_0", "auto_on", "auto_status">>, loop |-> FALSE],
  [send |-> <<"bot_lvar">>, loop |-> TRUE],
  [send |-> <<"auto_heading_6_0", "auto_status">>, loop |-> FALSE],
  [send |-> <<"bot_lvar">>, loop |-> TRUE],
  [send |-> <<"auto_heading_1_30", "auto_speed_30",
              "auto_status">>, loop |-> FALSE],
  [send |-> <<"bot_lvar">>, loop |-> TRUE]>>

Init ==
  /\ prog \in Programs
  /\ at = "ack"
  /\ mode = CASE prog = "target" -> "landing" [] prog = "kamikaze" -> "new"
              [] OTHER -> 1
  /\ asked = "READY" /\ tohome = 0
  /\ worker = "connect"
  /\ inbound = <<>> /\ tx = <<>> /\ rx = <<>>
  /\ link = "none" /\ here = TRUE
  /\ bot = [speed |-> 0, auto |-> FALSE]

Over == at \in {"ended", "terminated"}

-----------------------------------------------------------------------------
(* main() *)

\* An exception ends main(). kamikaze then closes the socket, which throws if the
\* worker has closed it; target's handler joins the worker only while it is active.
Quit ==
  /\ at' = IF here THEN "ended" ELSE "terminated"
  /\ here' = FALSE /\ worker' = "gone"
  /\ link' = IF link = "up" THEN "down" ELSE link

\* put() of each command: it throws when the socket is closed here, and may or
\* may not when the other end is gone.
Tell(cmds, next) ==
  \/ /\ here \/ cmds = <<>>
     /\ at' = next
     /\ tx' = IF link = "up" THEN tx \o cmds ELSE tx
     /\ UNCHANGED <<here, worker, link>>
  \/ /\ cmds # <<>> /\ (~here \/ link = "down")
     /\ Quit
     /\ UNCHANGED tx

\* get() of the handler pops its queue, cal_bot's getln() reads the socket.
Get ==
  \/ prog = "cal_bot" /\ rx # <<>> /\ rx' = Tail(rx) /\ UNCHANGED inbound
  \/ prog # "cal_bot" /\ inbound # <<>> /\ inbound' = Tail(inbound) /\ UNCHANGED rx

\* Mutation of Ack: the acknowledgement is left in the queue.
Ack_LeftThere ==
  /\ at = "ack" /\ link = "up"
  /\ Tell(<<>>, "ask")
  /\ UNCHANGED <<prog, mode, asked, tohome, inbound, rx, bot>>

\* get bot ack; kamikaze goes on to set up the autopilot.
Ack ==
  /\ at = "ack" /\ Get
  /\ Tell(IF prog # "kamikaze" THEN <<>>
          ELSE <<"auto_power_100", "auto_turn_rate_5",
                 "auto_speed_300", "drive_brake_100">>, "ask")
  /\ UNCHANGED <<prog, mode, asked, tohome, bot>>

\* kamikaze asks for its position and for its contacts in turn.
Batch == CASE at = "again" -> <<asked>>
           [] at = "ask" /\ prog = "cal_bot" -> Script[mode].send
           [] at = "ask" /\ prog = "kamikaze" /\ asked = "bot_lvar" -> <<"radar_contacts">>
           [] OTHER -> <<"bot_lvar">>

Ask ==
  /\ at \in {"ask", "again"}
  /\ Tell(Batch, "wait")
  /\ asked' = CHOOSE q \in Queries : \E i \in DOMAIN Batch : Batch[i] = q
  /\ UNCHANGED <<prog, mode, tohome, inbound, rx, bot>>

\* Mutation of Steer: speed is not reduced before the turn home.
Steer_AtSpeed(dist, aligned) ==
  CASE mode = "run" -> [to |-> IF dist > Zone THEN "tofar" ELSE "run", say |-> <<>>]
    [] mode = "tofar" -> [to |-> "orient", say |-> <<>>]
    [] mode = "orient" -> [to |-> "turning", say |-> <<"auto_heading_home">>]
    [] mode = "turning" -> IF aligned
         THEN [to |-> "returning", say |-> <<"auto_speed_100">>]
         ELSE [to |-> "turning", say |-> <<>>]
    [] mode = "returning" -> [to |-> IF dist < Zone THEN "run" ELSE IF dist > tohome
                                     THEN "tofar" ELSE "returning", say |-> <<>>]

\* The switch of target's working loop.
Steer(dist, aligned) ==
  CASE mode = "run" -> [to |-> IF dist > Zone THEN "tofar" ELSE "run", say |-> <<>>]
    [] mode = "tofar" -> [to |-> "orient", say |-> <<"auto_speed_10">>]
    [] mode = "orient" -> [to |-> "turning", say |-> <<"auto_heading_home">>]
    [] mode = "turning" -> IF aligned
         THEN [to |-> "returning", say |-> <<"auto_speed_100">>]
         ELSE [to |-> "turning", say |-> <<>>]
    [] mode = "returning" -> [to |-> IF dist < Zone THEN "run" ELSE IF dist > tohome
                                     THEN "tofar" ELSE "returning", say |-> <<>>]

Land ==
  /\ prog = "target" /\ at = "wait" /\ mode = "landing" /\ Get
  /\ mode' = "run"
  /\ Tell(<<"drive_brake_0", "auto_power_50", "auto_heading_0",
            "auto_speed_100", "auto_turn_rate_10", "auto_on">>,
          "ask")
  /\ UNCHANGED <<prog, asked, tohome, bot>>

\* The working loop also ends the program if wayhome is negative, which it never is:
\* an angle of at least -pi, and 1, and a full turn if that is below zero.
Cruise ==
  /\ prog = "target" /\ at = "wait" /\ mode # "landing" /\ Get
  /\ \E dist \in 0..MaxDist, aligned \in BOOLEAN :
       LET next == Steer(dist, aligned)
       IN /\ mode' = next.to
          /\ tohome' = IF "returning" \in {mode, next.to} THEN dist ELSE tohome
          /\ Tell(next.say, "ask")
  /\ UNCHANGED <<prog, asked, bot>>

Locate ==
  /\ prog = "kamikaze" /\ at = "wait" /\ asked = "bot_lvar" /\ Get
  /\ Tell(<<>>, "ask")
  /\ UNCHANGED <<prog, mode, asked, tohome, bot>>

\* The stop and go commands are sent when the state changes, the heading always.
Hunt ==
  /\ prog = "kamikaze" /\ at = "wait" /\ asked = "radar_contacts" /\ Get
  /\ \E found \in BOOLEAN :
       /\ mode' = IF found THEN "tracking" ELSE "searching"
       /\ Tell(IF found
               THEN (IF mode = "tracking" THEN <<>>
                     ELSE <<"drive_brake_0", "auto_on">>)
                    \o <<"auto_heading_target">>
               ELSE IF mode = "searching" THEN <<>>
                    ELSE <<"auto_off", "drive_brake_100", "drive_turn_0">>, "ask")
  /\ UNCHANGED <<prog, asked, tohome, bot>>

\* cal_bot goes on with its script, or gives up before the turn test (step 3).
Measure ==
  /\ prog = "cal_bot" /\ at = "wait" /\ Get
  /\ UNCHANGED <<prog, asked, tohome, bot>>
  /\ \/ Script[mode].loop /\ Tell(<<>>, "again") /\ UNCHANGED mode
     \/ mode < Len(Script) /\ Tell(<<>>, "ask") /\ mode' = mode + 1
     \/ mode \in {3, Len(Script)} /\ Quit /\ UNCHANGED <<mode, tx>>

\* cal_bot's getln() throws after its timeout, or when the link is gone.
GetFails ==
  /\ prog = "cal_bot" /\ at \in {"ack", "wait"} /\ link # "none" /\ rx = <<>>
  /\ Quit
  /\ UNCHANGED <<prog, mode, asked, tohome, inbound, tx, rx, bot>>

-----------------------------------------------------------------------------
(* the worker thread of the handler, and the connection *)

\* The first line is the bot's READY or, from a full server, a refusal, after which
\* the link ends (LinkDrops): main() does not look at it, so READY stands for both.
Connect ==
  /\ worker = "connect" /\ link = "none"
  /\ worker' = "read" /\ link' = "up"
  /\ rx' = <<"READY">>
  /\ UNCHANGED <<client, inbound, tx, here, bot>>

ConnectFails ==
  /\ worker = "connect" /\ link = "none"
  /\ IF prog = "cal_bot" THEN Quit ELSE /\ worker' = "gone" /\ here' = FALSE
                                        /\ link' = "down" /\ UNCHANGED at
  /\ UNCHANGED <<prog, mode, asked, tohome, inbound, tx, rx, bot>>

WorkerReads ==
  /\ worker = "read" /\ prog # "cal_bot" /\ rx # <<>>
  /\ inbound' = Append(inbound, Head(rx)) /\ rx' = Tail(rx)
  /\ UNCHANGED <<client, worker, tx, link, here, bot>>

\* Mutation of WorkerEnds: any exception of getln() is taken for a timeout.
WorkerEnds_Swallows ==
  /\ worker = "read" /\ prog # "cal_bot" /\ rx = <<>> /\ link = "down"
  /\ UNCHANGED vars

\* getln() throws not_open_exception; the socket is closed, the queue is not.
WorkerEnds ==
  /\ worker = "read" /\ prog # "cal_bot" /\ rx = <<>> /\ link = "down"
  /\ worker' = "gone" /\ here' = FALSE
  /\ UNCHANGED <<client, inbound, tx, rx, link, bot>>

-----------------------------------------------------------------------------
(* the bot's router, and the network *)

BotTakes ==
  /\ link = "up" /\ tx # <<>>
  /\ tx' = Tail(tx) /\ rx' = rx \o Reply(Head(tx))
  /\ bot' = Told(bot, Head(tx))
  /\ UNCHANGED <<client, worker, inbound, link, here>>

\* The bot dies or the network fails: what is under way is lost from some point on.
LinkDrops ==
  /\ link = "up"
  /\ link' = "down" /\ tx' = <<>>
  /\ \E n \in 0..Len(rx) : rx' = SubSeq(rx, 1, n)
  /\ UNCHANGED <<client, worker, inbound, here, bot>>

Main == Ack \/ Ask \/ Land \/ Cruise \/ Locate \/ Hunt \/ Measure
Next == Main \/ GetFails \/ Connect \/ ConnectFails \/ WorkerReads \/ WorkerEnds
             \/ BotTakes \/ LinkDrops
Spec == Init /\ [][Next]_vars

\* The threads and the bot run on; nothing makes a connection fail or a link drop.
FairSpec == Spec /\ WF_vars(Main) /\ WF_vars(GetFails /\ link = "down")
                 /\ WF_vars(WorkerReads \/ WorkerEnds) /\ WF_vars(BotTakes)

-----------------------------------------------------------------------------
(* Properties *)

\* Replies are told apart only by their order, so at any moment exactly the reply
\* the program waits for is under way, in one of the queues between them or still to
\* be given, and none when it waits for none: it never takes the answer to another
\* question. What a lost link has swallowed is not to come.
Paired ==
  LET open == {i \in DOMAIN tx : tx[i] \in Queries}
      None == inbound \o rx = <<>> /\ open = {}
      Due(q) == \/ inbound \o rx = <<q>> /\ open = {}
                \/ inbound \o rx = <<>> /\ \E i \in open : open = {i} /\ tx[i] = q
  IN /\ at = "ack" => None \/ Due("READY")
     /\ at \in {"ask", "again"} => None
     /\ at = "wait" => Due(asked) \/ (link # "up" /\ None)
     /\ Over => link # "up"

\* Once the bot has taken all commands it flies as the program's state requires:
\* target slows down before it turns and only then, kamikaze's autopilot is on
\* while it tracks and only then.
BotObeys ==
  (link = "up" /\ tx = <<>> /\ at # "ack") =>
    /\ prog = "target" /\ mode # "landing" =>
         bot = [speed |-> IF mode \in {"orient", "turning"} THEN 10 ELSE 100, auto |-> TRUE]
    /\ prog = "kamikaze" => bot = [speed |-> 300, auto |-> mode = "tracking"]

\* A lost link ends the program, unless main() is already waiting in get(): nobody
\* shuts the handler's queue down, and it waits for ever.
LinkLossEnds ==
  link = "down" ~> Over \/ (at \in {"ack", "wait"} /\ prog # "cal_bot"
                             /\ worker = "gone" /\ inbound = <<>>)
=============================================================================
