----------------------------- MODULE TcpSocket -----------------------------
(***************************************************************************)
(* put(), get() and getln() of common/sockets/base_socket.cpp over a stream *)
(* socket. A step is one send() or recv() with the tests that follow it;    *)
(* the clock, the peer and a close() by another thread move in between.     *)
(* The kernel is external: it takes any part of what is sent, delivers what *)
(* has arrived, and reports EAGAIN whenever nothing has.                    *)
(***************************************************************************)
EXTENDS Integers, Sequences, SequencesExt

CONSTANTS Chars,        \* the characters of texts
          Eol,          \* the eol argument of getln()
          Payload,      \* the string given to put()
          Calls,        \* the calls made: [op, maxlen, timeout]
          StreamLimit,  \* bound: characters the peer sends
          TimeLimit     \* bound: seconds the clock counts

ASSUME SocketAssumption ==
  /\ Eol \in Seq(Chars) /\ Eol # <<>> /\ Payload \in Seq(Chars) /\ Payload # <<>>
  /\ Calls \subseteq [op: {"put", "get", "getln"}, maxlen: Nat, timeout: Int]
  /\ \A c \in Calls : (c.op = "get" => c.maxlen > 0) /\ (c.op = "put" => c.timeout > 0)
  /\ StreamLimit \in Nat /\ TimeLimit \in Nat

VARIABLES now,      \* time(NULL)
          net,      \* arrived: unread input; sent: all input so far; the two ends
          call,     \* the call under way
          pc,       \* "put"; "recv" or "ret" inside get(); "done"
          out,      \* put(): what the kernel took and what is left of s
          frame,    \* get(): maxlen, timeout, endtime, returnme, whether done
          line,     \* getln(): endtime, returnme, whether the first get() is under way
          result    \* how the call ended and the text it returned or threw

vars == <<now, net, call, pc, out, frame, line, result>>

NoResult == [kind |-> "none", text |-> <<>>]
Ended == result # NoResult
Closed == ~net.peer \/ ~net.here

\* The entry of get(maxlen, timeout).
Frame(maxlen, timeout) ==
  [maxlen |-> maxlen, timeout |-> timeout, end |-> now + timeout, text |-> <<>>]

\* getln() first asks for as many characters as eol has.
Init ==
  /\ now = 0
  /\ net = [arrived |-> <<>>, sent |-> <<>>, peer |-> TRUE, here |-> TRUE]
  /\ call \in Calls
  /\ pc = IF call.op = "put" THEN "put" ELSE "recv"
  /\ out = [taken |-> <<>>, rest |-> IF call.op = "put" THEN Payload ELSE <<>>]
  /\ frame = IF call.op = "getln"
             THEN Frame(Len(Eol), IF call.timeout < 0 THEN 0 ELSE call.timeout)
             ELSE Frame(call.maxlen, call.timeout)
  /\ line = [end |-> now + call.timeout, text |-> <<>>, first |-> TRUE]
  /\ result = NoResult

Finish(kind, text) ==
  /\ result' = [kind |-> kind, text |-> text]
  /\ pc' = "done"

-----------------------------------------------------------------------------
(* put(): the time is tested after every attempt, successful or not *)

\* n = 0 stands for EAGAIN and EINTR, which retry.
PutTry ==
  /\ pc = "put" /\ net.here
  /\ \E n \in 0..Len(out.rest) :
       LET rest == SubSeq(out.rest, n + 1, Len(out.rest))
       IN /\ out' = [taken |-> out.taken \o SubSeq(out.rest, 1, n), rest |-> rest]
          /\ IF rest = <<>> THEN Finish("ok", <<>>)
             ELSE IF now >= call.timeout THEN Finish("timeout", rest)
             ELSE UNCHANGED <<pc, result>>
  /\ UNCHANGED <<now, net, call, frame, line>>

\* EBADF; ENOBUFS, ENOMEM and any other errno, a reset by the peer among them.
PutFails ==
  /\ pc = "put"
  /\ Finish(IF net.here THEN "error" ELSE "notOpen", out.rest)
  /\ UNCHANGED <<now, net, call, out, frame, line>>

-----------------------------------------------------------------------------
(* get(): recv() with a receive timeout, then the boundary conditions *)

\* An exception leaves getln() too, unless it is a timeout.
GetThrows(kind) ==
  /\ Finish(kind, <<>>)
  /\ UNCHANGED <<frame, line>>

GetDone(text) == \/ Len(text) >= frame.maxlen
                 \/ frame.timeout > 0 /\ now > frame.end
                 \/ frame.timeout = 0

Received(n) ==
  LET text == frame.text \o SubSeq(net.arrived, 1, n)
  IN /\ frame' = [frame EXCEPT !.text = text]
     /\ net' = [net EXCEPT !.arrived = SubSeq(@, n + 1, Len(@))]
     /\ pc' = IF GetDone(text) THEN "ret" ELSE "recv"
     /\ UNCHANGED <<line, result>>

\* Mutation of GetTry: an endless wait for data, as without SO_RCVTIMEO.
GetTry_Blocks ==
  /\ pc = "recv" /\ net.here
  /\ net.arrived # <<>> \/ ~net.peer
  /\ IF net.arrived = <<>>
     THEN /\ UNCHANGED net
          /\ IF frame.text = <<>> THEN GetThrows("notOpen")
             ELSE pc' = "ret" /\ UNCHANGED <<frame, line, result>>
     ELSE Received(LET room == frame.maxlen - Len(frame.text)
                   IN IF Len(net.arrived) < room THEN Len(net.arrived) ELSE room)
  /\ UNCHANGED <<now, call, out>>

\* recv() takes what has arrived up to the room left; 0 means the peer closed;
\* on EAGAIN only the boundary conditions can end the loop.
GetTry ==
  /\ pc = "recv" /\ net.here
  /\ \/ /\ net.arrived # <<>>
        /\ Received(LET room == frame.maxlen - Len(frame.text)
                    IN IF Len(net.arrived) < room THEN Len(net.arrived) ELSE room)
     \/ /\ net.arrived = <<>> /\ ~net.peer
        /\ UNCHANGED net
        /\ IF frame.text = <<>> THEN GetThrows("notOpen")
           ELSE pc' = "ret" /\ UNCHANGED <<frame, line, result>>
     \/ /\ net.arrived = <<>> /\ net.peer
        /\ Received(0)
  /\ UNCHANGED <<now, call, out>>

\* EBADF, or another errno such as a reset: what was read is returned first.
GetFails ==
  /\ pc = "recv" /\ Closed
  /\ IF frame.text = <<>> THEN GetThrows(IF net.here THEN "error" ELSE "notOpen")
     ELSE pc' = "ret" /\ UNCHANGED <<frame, line, result>>
  /\ UNCHANGED <<now, net, call, out>>

TimedOut == frame.timeout > 0 /\ now > frame.end

\* The end of a get() the caller made; the clock is read once more.
\* Mutation of GetReturn: the exception does not carry the text.
GetReturn_NoComment ==
  /\ pc = "ret" /\ call.op = "get"
  /\ IF TimedOut THEN Finish("timeout", <<>>) ELSE Finish("ok", frame.text)
  /\ UNCHANGED <<now, net, call, out, frame, line>>

GetReturn ==
  /\ pc = "ret" /\ call.op = "get"
  /\ Finish(IF TimedOut THEN "timeout" ELSE "ok", frame.text)
  /\ UNCHANGED <<now, net, call, out, frame, line>>

-----------------------------------------------------------------------------
(* getln(): get() as many characters as cannot run past the end of the line *)

Full(text) == call.maxlen > 0 /\ Len(text) >= call.maxlen
Found(text) == IsSuffix(Eol, text)

\* Mutation of GetLen: always as many characters as eol has.
GetLen_Greedy(text) == Len(Eol)

\* One less than eol has when no eol can have begun in the last characters.
\* A text shorter than that wraps the start of the search: nothing is found.
GetLen(text) ==
  LET search == Len(Eol) - 1
      tail == SubSeq(text, Len(text) - search + 1, Len(text))
      near == Len(text) >= search /\ \E i \in DOMAIN tail : tail[i] = Head(Eol)
  IN IF search > 1 /\ ~near THEN search ELSE 1

\* The first get() keeps what a timeout carries, and its text is tested against
\* neither eol, if it timed out, nor maxlen; in the loop a timeout drops its text.
LineStep ==
  /\ pc = "ret" /\ call.op = "getln"
  /\ LET text == IF line.first \/ ~TimedOut THEN line.text \o frame.text ELSE line.text
         late == TimedOut /\ call.timeout >= 0
     IN /\ line' = [line EXCEPT !.text = text, !.first = FALSE]
        /\ IF Found(text) /\ ~(line.first /\ late) THEN Finish("ok", text) /\ UNCHANGED frame
           ELSE IF late \/ (Full(text) /\ ~line.first)
           THEN /\ Finish(IF Full(text) THEN "overrun" ELSE "timeout", text)
                /\ UNCHANGED frame
           ELSE /\ pc' = "recv"
                /\ frame' = Frame(GetLen(text), IF line.end > now THEN line.end - now ELSE 0)
                /\ UNCHANGED result
  /\ UNCHANGED <<now, net, call, out>>

-----------------------------------------------------------------------------
(* the peer, the clock, and a close() from another thread *)

PeerSends ==
  /\ net.peer /\ Len(net.sent) < StreamLimit /\ ~Ended
  /\ \E c \in Chars :
       net' = [net EXCEPT !.arrived = Append(@, c), !.sent = Append(@, c)]
  /\ UNCHANGED <<now, call, pc, out, frame, line, result>>

PeerCloses ==
  /\ net.peer /\ ~Ended
  /\ net' = [net EXCEPT !.peer = FALSE]
  /\ UNCHANGED <<now, call, pc, out, frame, line, result>>

Close ==
  /\ net.here /\ ~Ended
  /\ net' = [net EXCEPT !.here = FALSE]
  /\ UNCHANGED <<now, call, pc, out, frame, line, result>>

Tick ==
  /\ now < TimeLimit /\ ~Ended
  /\ now' = now + 1
  /\ UNCHANGED <<net, call, pc, out, frame, line, result>>

System == PutTry \/ PutFails \/ GetTry \/ GetFails \/ GetReturn \/ LineStep
Next == System \/ PeerSends \/ PeerCloses \/ Close \/ Tick
Spec == Init /\ [][Next]_vars

\* The thread in the call runs on, and time passes. Nothing is owed by the peer.
FairSpec == Spec /\ WF_vars(PutTry \/ GetTry) /\ WF_vars(PutFails /\ ~net.here)
                 /\ WF_vars(GetFails) /\ WF_vars(GetReturn \/ LineStep)
                 /\ WF_vars(Tick)

-----------------------------------------------------------------------------
(* Properties *)

\* No character is lost or doubled by a call: what put() handed over and what
\* its exception carries make up the string, and what get() returned or threw
\* and what is still unread make up the input.
BytesAccounted ==
  /\ call.op = "put" =>
       /\ out.taken \o out.rest = Payload
       /\ Ended => out.rest = result.text
  /\ (call.op = "get" /\ Ended) => result.text \o net.arrived = net.sent

\* getln() is built from many small get()s, as the socket cannot unread. At no point
\* has it taken a character beyond the end of the line, and what it returns is
\* exactly the first line of the input. (An eol of four characters or more can be
\* overrun after a get() cut short: see the README.)
LineIsFirst ==
  call.op = "getln" =>
    LET read == SubSeq(net.sent, 1, Len(net.sent) - Len(net.arrived))
    IN /\ \A n \in 0..(Len(read) - 1) : ~Found(SubSeq(read, 1, n))
       /\ result.kind = "ok" => result.text = read /\ Found(read)

\* A put() or get() with a timeout ends although the peer does nothing, and any
\* call ends once the connection is closed.
CallsEnd == (call.op # "getln" /\ call.timeout >= 0) \/ <>Closed => <>Ended

\* "If the timeout expires before eol is recieved or maxlen characters are
\* recieved a timeout_exception will be thrown." (base_socket.h:342)
GetlnTimesOut == (call.op = "getln" /\ call.timeout > 0) => <>Ended
=============================================================================
