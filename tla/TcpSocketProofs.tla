--------------------------- MODULE TcpSocketProofs ---------------------------
(***************************************************************************)
(* Proofs about TcpSocket for any texts, any calls, any arguments and any   *)
(* peer.                                                                    *)
(***************************************************************************)
EXTENDS TcpSocket, SequenceTheorems, TLAPS

Text == Seq(Chars)

-----------------------------------------------------------------------------
(* Texts *)

\* Texts are put together from left to right.
LEMMA Joined ==
  ASSUME NEW s \in Text, NEW t \in Text
  PROVE  /\ s \o t \in Text /\ Len(s \o t) = Len(s) + Len(t)
         /\ Len(s) \in Nat /\ Len(t) \in Nat
         /\ \A u \in Text : (s \o t) \o u = s \o (t \o u)
<1>1. s \o t \in Text /\ Len(s \o t) = Len(s) + Len(t)
  BY ConcatProperties DEF Text
<1>2. Len(s) \in Nat /\ Len(t) \in Nat
  BY LenProperties DEF Text
<1>3. ASSUME NEW u \in Text PROVE (s \o t) \o u = s \o (t \o u)
  <2>1. s \in Seq(Chars) /\ t \in Seq(Chars) /\ u \in Seq(Chars)
    BY <1>3 DEF Text
  <2> QED
    BY ONLY <2>1, ConcatAssociative
<1> QED
  BY <1>1, <1>2, <1>3

\* A text is known by its end: what comes before it is the rest.
LEMMA BeforeEnd ==
  ASSUME NEW r \in Text, NEW a \in Text
  PROVE  SubSeq(r \o a, 1, Len(r \o a) - Len(a)) = r
<1>1. Len(r) \in Nat /\ Len(a) \in Nat /\ Len(r \o a) = Len(r) + Len(a)
  BY ConcatProperties, LenProperties DEF Text
<1>2. CASE Len(r) = 0
  <2>1. r = <<>>
    BY <1>2, EmptySeq DEF Text
  <2>2. SubSeq(r \o a, 1, 0) = <<>>
    BY SubSeqEmpty
  <2> QED
    BY <1>1, <1>2, <2>1, <2>2
<1>3. CASE Len(r) > 0
  <2>1. 1 \in 1..Len(r) /\ Len(r) \in 1..Len(r)
    BY <1>1, <1>3
  <2>2. SubSeq(r \o a, 1, Len(r)) = SubSeq(r, 1, Len(r))
    BY <2>1, SubSeqOfConcat1 DEF Text
  <2>3. SubSeq(r, 1, Len(r)) = r
    BY SubSeqFull, Zenon DEF Text
  <2> QED
    BY <1>1, <2>2, <2>3
<1> QED
  BY <1>1, <1>2, <1>3

\* What recv() and send() do with a text: its first n characters, and the others.
LEMMA Cut ==
  ASSUME NEW t \in Text, NEW n \in 0..Len(t)
  PROVE  /\ SubSeq(t, 1, n) \in Text /\ SubSeq(t, n + 1, Len(t)) \in Text
         /\ Len(SubSeq(t, 1, n)) = n
         /\ SubSeq(t, 1, n) \o SubSeq(t, n + 1, Len(t)) = t
<1>1. Len(t) \in Nat /\ n \in Nat /\ \A i \in 1..Len(t) : t[i] \in Chars
  BY LenProperties, ElementOfSeq DEF Text
<1>2. SubSeq(t, 1, n) \in Text /\ Len(SubSeq(t, 1, n)) = n
  <2>1. \A i \in 1..n : t[i] \in Chars
    BY <1>1
  <2> QED
    BY <1>1, <2>1, SubSeqProperties DEF Text
<1>3. SubSeq(t, n + 1, Len(t)) \in Text
  <2>1. \A i \in (n + 1)..Len(t) : t[i] \in Chars
    BY <1>1
  <2> QED
    BY <1>1, <2>1, SubSeqProperties DEF Text
<1>4. SubSeq(t, 1, n) \o SubSeq(t, n + 1, Len(t)) = SubSeq(t, 1, Len(t))
  <2>1. 1 \in 1..(Len(t) + 1) /\ n \in (1 - 1)..Len(t) /\ Len(t) \in n..Len(t)
    BY <1>1
  <2> QED
    BY <2>1, ConcatAdjacentSubSeq DEF Text
<1>5. SubSeq(t, 1, Len(t)) = t
  BY SubSeqFull DEF Text
<1> QED
  BY <1>2, <1>3, <1>4, <1>5, Zenon

-----------------------------------------------------------------------------
(* Types *)

WorldTypes ==
  /\ now \in Nat
  /\ net \in [arrived : Text, sent : Text, peer : BOOLEAN, here : BOOLEAN]
  /\ call \in Calls

CallTypes ==
  /\ out \in [taken : Text, rest : Text]
  /\ frame \in [maxlen : Nat, timeout : Int, end : Int, text : Text]
  /\ line \in [end : Int, text : Text, first : BOOLEAN]
  /\ result.text \in Text

\* Which steps belong to which call; a call has a result when it has ended; get()
\* asks recv() for at least one character and for no more than it was asked for.
FlowInv ==
  /\ call.op = "put" => pc \in {"put", "done"}
  /\ call.op # "put" => pc \in {"recv", "ret", "done"}
  /\ pc # "done" => result = NoResult
  /\ call.op # "put" => /\ Len(frame.text) <= frame.maxlen
                        /\ pc = "recv" => Len(frame.text) < frame.maxlen

SocketTypes == WorldTypes /\ CallTypes /\ FlowInv

Taken == LET room == frame.maxlen - Len(frame.text)
         IN IF Len(net.arrived) < room THEN Len(net.arrived) ELSE room

\* The three ways a recv() goes.
LEMMA GetTryCases ==
  ASSUME GetTry
  PROVE  /\ pc = "recv" /\ UNCHANGED <<now, call, out>>
         /\ \/ net.arrived # <<>> /\ Received(Taken)
            \/ net.arrived = <<>> /\ Received(0)
            \/ UNCHANGED net /\ frame.text = <<>> /\ GetThrows("notOpen")
            \/ UNCHANGED <<net, frame, line, result>> /\ pc' = "ret"
BY DEF GetTry, Taken

\* What get() has and what the socket still has after n characters were received.
LEMMA ReceivedTypes ==
  ASSUME SocketTypes, pc = "recv", UNCHANGED <<now, call, out>>,
         NEW n, Received(n), n \in {0, Taken}
  PROVE  /\ SocketTypes'
         /\ n \in 0..Len(net.arrived)
         /\ net'.sent = net.sent
         /\ net'.arrived = SubSeq(net.arrived, n + 1, Len(net.arrived))
         /\ frame'.text = frame.text \o SubSeq(net.arrived, 1, n)
         /\ frame'.maxlen = frame.maxlen
<1> USE DEF SocketTypes
<1> DEFINE part == SubSeq(net.arrived, 1, n)
           left == SubSeq(net.arrived, n + 1, Len(net.arrived))
<1>1. /\ net.arrived \in Text /\ frame.text \in Text /\ frame.maxlen \in Nat
      /\ Len(net.arrived) \in Nat /\ Len(frame.text) \in Nat
  BY LenProperties DEF WorldTypes, CallTypes, Text
<1>2. call.op # "put"
  BY DEF FlowInv
<1>3. n \in 0..Len(net.arrived) /\ Len(frame.text) + n <= frame.maxlen
  BY <1>1, <1>2 DEF FlowInv, Taken
<1>4. part \in Text /\ left \in Text /\ Len(part) = n
  BY <1>1, <1>3, Cut
<1>5. frame.text \o part \in Text /\ Len(frame.text \o part) = Len(frame.text) + n
  BY <1>1, <1>4, ConcatProperties, ZenonT(60) DEF Text
<1>6. /\ frame' = [frame EXCEPT !.text = frame.text \o part]
      /\ net' = [net EXCEPT !.arrived = left]
      /\ pc' = IF GetDone(frame.text \o part) THEN "ret" ELSE "recv"
      /\ UNCHANGED <<line, result>>
  BY DEF Received, WorldTypes
<1>7. WorldTypes'
  BY <1>4, <1>6 DEF WorldTypes
<1>8. CallTypes'
  BY <1>5, <1>6 DEF CallTypes
<1>9. /\ net'.sent = net.sent /\ net'.arrived = left
      /\ frame'.text = frame.text \o part /\ frame'.maxlen = frame.maxlen
  BY <1>6 DEF WorldTypes, CallTypes
<1>10. FlowInv'
  <2>1. pc' = "recv" => Len(frame.text \o part) < frame.maxlen
    BY <1>1, <1>3, <1>5, <1>6 DEF GetDone
  <2> QED
    BY <1>2, <1>3, <1>5, <1>6, <1>9, <2>1 DEF FlowInv
<1> QED
  BY <1>3, <1>7, <1>8, <1>9, <1>10

\* getln() asks get() for one character at least.
LEMMA GetLenPositive ==
  ASSUME NEW text \in Text
  PROVE  GetLen(text) \in Nat /\ GetLen(text) > 0
<1>1. Len(Eol) \in Nat
  BY SocketAssumption, LenProperties
<1> QED
  BY <1>1 DEF GetLen

\* A call as it begins.
LEMMA InitTypes == Init => SocketTypes
<1> SUFFICES ASSUME Init PROVE SocketTypes
  OBVIOUS
<1>1. /\ <<>> \in Text /\ Len(<<>>) = 0 /\ Payload \in Text
      /\ Len(Eol) \in Nat /\ Len(Eol) > 0
  BY SocketAssumption, EmptySeq DEF Text
<1>2. /\ call \in Calls /\ call.op \in {"put", "get", "getln"}
      /\ call.maxlen \in Nat /\ call.timeout \in Int
      /\ call.op = "get" => call.maxlen > 0
  BY SocketAssumption DEF Init
<1>3. WorldTypes
  BY <1>1, <1>2 DEF Init, WorldTypes
<1>4. out \in [taken : Text, rest : Text] /\ result = NoResult /\ result.text \in Text
  BY <1>1 DEF Init, NoResult
<1>5. line \in [end : Int, text : Text, first : BOOLEAN]
  BY <1>1, <1>2 DEF Init
<1>6. /\ frame \in [maxlen : Nat, timeout : Int, end : Int, text : Text]
      /\ frame.text = <<>> /\ (call.op # "put" => frame.maxlen > 0)
  <2>1. CASE call.op = "getln"
    <3>1. (IF call.timeout < 0 THEN 0 ELSE call.timeout) \in Int
      BY <1>2
    <3> QED
      BY <1>1, <2>1, <3>1 DEF Init, Frame
  <2>2. CASE call.op # "getln"
    BY <1>1, <1>2, <2>2 DEF Init, Frame
  <2> QED
    BY <2>1, <2>2
<1>7. FlowInv
  BY <1>1, <1>2, <1>4, <1>6 DEF Init, FlowInv
<1> QED
  BY <1>3, <1>4, <1>5, <1>6, <1>7 DEF SocketTypes, CallTypes

\* put() keeps the types, and hands over a part of what is left.
LEMMA PutTypes ==
  ASSUME SocketTypes, PutTry \/ PutFails
  PROVE  /\ SocketTypes' /\ pc = "put" /\ UNCHANGED <<net, frame, line>>
         /\ out'.taken \o out'.rest = out.taken \o out.rest
         /\ pc' = "done" => result'.text = out'.rest
<1> USE DEF SocketTypes
<1>1. /\ out.rest \in Text /\ out.taken \in Text /\ Len(out.rest) \in Nat
      /\ out = [taken |-> out.taken, rest |-> out.rest]
      /\ <<>> \in Text
  BY LenProperties, EmptySeq DEF CallTypes, Text
<1>2. CASE PutTry
  <2> DEFINE first(n) == SubSeq(out.rest, 1, n)
             others(n) == SubSeq(out.rest, n + 1, Len(out.rest))
  <2>1. PICK n \in 0..Len(out.rest) :
          /\ out' = [taken |-> out.taken \o first(n), rest |-> others(n)]
          /\ \/ others(n) = <<>> /\ Finish("ok", <<>>)
             \/ Finish("timeout", others(n))
             \/ UNCHANGED <<pc, result>>
    BY <1>2, Zenon DEF PutTry
  <2> DEFINE a == first(n)
             b == others(n)
  <2>2. a \in Text /\ b \in Text /\ a \o b = out.rest
    BY <1>1, Cut
  <2>3. out.taken \o a \in Text /\ (out.taken \o a) \o b = out.taken \o (a \o b)
    <3> HIDE DEF a, b
    <3> QED
      BY <1>1, <2>2, Joined, ZenonT(60)
  <2>4. /\ out' \in [taken : Text, rest : Text] /\ out'.rest = b
        /\ out'.taken \o out'.rest = out.taken \o out.rest
    BY <2>1, <2>2, <2>3
  <2>5. pc = "put" /\ UNCHANGED <<now, net, call, frame, line>>
    BY <1>2 DEF PutTry
  <2>6. CASE pc' = "done" /\ result'.text = out'.rest
    <3>1. WorldTypes'
      BY <2>5 DEF WorldTypes
    <3>2. CallTypes'
      BY <2>2, <2>4, <2>5, <2>6 DEF CallTypes
    <3>3. FlowInv'
      BY <2>5, <2>6 DEF FlowInv
    <3> QED
      BY <2>4, <2>5, <2>6, <3>1, <3>2, <3>3
  <2>7. CASE UNCHANGED <<pc, result>>
    BY <1>1, <2>4, <2>5, <2>7 DEF WorldTypes, CallTypes, FlowInv
  <2>8. (pc' = "done" /\ result'.text = out'.rest) \/ UNCHANGED <<pc, result>>
    <3>1. \A k, t : Finish(k, t) => pc' = "done" /\ result'.text = t
      BY DEF Finish
    <3> QED
      BY <2>1, <2>4, <3>1, Zenon
  <2>9. SocketTypes'
    BY <2>6, <2>7, <2>8
  <2>10. pc' = "done" => result'.text = out'.rest
    BY <2>5, <2>8
  <2> QED
    BY <2>4, <2>5, <2>9, <2>10
<1>3. CASE PutFails
  BY <1>1, <1>3 DEF PutFails, Finish, WorldTypes, CallTypes, FlowInv
<1> QED
  BY <1>2, <1>3

\* How a step of getln() takes what get() returned, and the three ways it goes on.
GotText == IF line.first \/ ~TimedOut THEN line.text \o frame.text ELSE line.text
Late == TimedOut /\ call.timeout >= 0
Wait == IF line.end > now THEN line.end - now ELSE 0

LEMMA LineStepCases ==
  ASSUME LineStep
  PROVE  /\ pc = "ret" /\ call.op = "getln" /\ UNCHANGED <<now, net, call, out>>
         /\ line' = [line EXCEPT !.text = GotText, !.first = FALSE]
         /\ \/ /\ Found(GotText) /\ ~(line.first /\ Late)
               /\ Finish("ok", GotText) /\ UNCHANGED frame
            \/ /\ UNCHANGED frame
               /\ \E k \in {"overrun", "timeout"} : Finish(k, GotText)
            \/ /\ ~Late /\ ~(Found(GotText) /\ ~(line.first /\ Late))
               /\ pc' = "recv" /\ frame' = Frame(GetLen(GotText), Wait)
               /\ UNCHANGED result
BY DEF LineStep, GotText, Late, Wait

\* What getln() has read is a text.
LEMMA GotTextType == SocketTypes => GotText \in Text
BY Joined DEF SocketTypes, CallTypes, GotText

\* getln() keeps the types.
LEMMA LineTypes == ASSUME SocketTypes, LineStep PROVE SocketTypes'
<1> USE DEF SocketTypes
<1>1. /\ pc = "ret" /\ call.op = "getln" /\ UNCHANGED <<now, net, call, out>>
      /\ line' = [line EXCEPT !.text = GotText, !.first = FALSE]
      /\ GotText \in Text
  BY LineStepCases, GotTextType
<1>2. WorldTypes'
  BY <1>1 DEF WorldTypes
<1>3. line' \in [end : Int, text : Text, first : BOOLEAN]
  BY <1>1 DEF CallTypes
<1>4. CASE UNCHANGED frame /\ \E k : Finish(k, GotText)
  <2>1. pc' = "done" /\ result'.text = GotText
    BY <1>4 DEF Finish
  <2> QED
    BY <1>1, <1>2, <1>3, <1>4, <2>1 DEF CallTypes, FlowInv
<1>5. CASE pc' = "recv" /\ frame' = Frame(GetLen(GotText), Wait) /\ UNCHANGED result
  <2>1. now \in Int /\ line.end \in Int /\ Wait \in Int
    BY DEF WorldTypes, CallTypes, Wait
  <2>2. GetLen(GotText) \in Nat /\ GetLen(GotText) > 0
    BY <1>1, GetLenPositive
  <2>3. <<>> \in Text /\ Len(<<>>) = 0
    BY EmptySeq DEF Text
  <2>4. /\ frame' \in [maxlen : Nat, timeout : Int, end : Int, text : Text]
        /\ frame'.text = <<>> /\ frame'.maxlen = GetLen(GotText)
    BY <1>5, <2>1, <2>2, <2>3 DEF Frame
  <2>5. CallTypes'
    BY <1>1, <1>3, <1>5, <2>4 DEF CallTypes
  <2>6. FlowInv'
    BY <1>1, <1>5, <2>2, <2>3, <2>4 DEF FlowInv
  <2> QED
    BY <1>2, <2>5, <2>6
<1> QED
  BY <1>4, <1>5, LineStepCases

\* get() ends: with what it has, or by throwing, which it does only when it has
\* nothing.
LEMMA GetEnds ==
  ASSUME SocketTypes, pc = "recv", UNCHANGED <<now, net, call, out>>,
         \/ \E k : GetThrows(k) /\ frame.text = <<>>
         \/ pc' = "ret" /\ UNCHANGED <<frame, line, result>>
  PROVE  SocketTypes' /\ UNCHANGED <<frame, line>>
         /\ (pc' = "done" => result'.text = frame.text)
<1>1. /\ UNCHANGED <<frame, line>>
      /\ \/ pc' = "done" /\ result'.text = <<>> /\ frame.text = <<>>
         \/ pc' = "ret" /\ UNCHANGED result
  BY DEF GetThrows, Finish
<1>2. <<>> \in Text
  BY EmptySeq DEF Text
<1> QED
  BY <1>1, <1>2 DEF SocketTypes, WorldTypes, CallTypes, FlowInv

\* The peer, a close() by another thread and the clock.
LEMMA WorldTypesStep ==
  ASSUME SocketTypes, PeerSends \/ PeerCloses \/ Close \/ Tick
  PROVE  SocketTypes'
<1>1. UNCHANGED <<call, pc, out, frame, line, result>>
  BY DEF PeerSends, PeerCloses, Close, Tick
<1>2. WorldTypes'
  <2>1. \A c \in Chars : /\ Append(net.arrived, c) \in Text
                         /\ Append(net.sent, c) \in Text
    BY AppendProperties DEF SocketTypes, WorldTypes, Text
  <2>2. CASE PeerSends
    BY <2>1, <2>2 DEF PeerSends, SocketTypes, WorldTypes
  <2>3. CASE PeerCloses
    BY <2>3 DEF PeerCloses, SocketTypes, WorldTypes
  <2>4. CASE Close
    BY <2>4 DEF Close, SocketTypes, WorldTypes
  <2>5. CASE Tick
    BY <2>5 DEF Tick, SocketTypes, WorldTypes
  <2> QED
    BY <2>2, <2>3, <2>4, <2>5
<1> QED
  BY <1>1, <1>2 DEF SocketTypes, CallTypes, FlowInv

\* Every step keeps the types.
LEMMA TypesStep == ASSUME SocketTypes, [Next]_vars PROVE SocketTypes'
<1>1. CASE GetTry
  BY <1>1, GetTryCases, ReceivedTypes, GetEnds
<1>2. CASE GetFails
  BY <1>2, GetEnds DEF GetFails
<1>3. CASE GetReturn
  <2>1. /\ pc = "ret" /\ pc' = "done" /\ result'.text = frame.text
        /\ UNCHANGED <<now, net, call, out, frame, line>> /\ call.op = "get"
    BY <1>3 DEF GetReturn, Finish
  <2> QED
    BY <2>1 DEF SocketTypes, WorldTypes, CallTypes, FlowInv
<1>4. CASE UNCHANGED vars
  BY <1>4 DEF vars, SocketTypes, WorldTypes, CallTypes, FlowInv
<1> QED
  BY <1>1, <1>2, <1>3, <1>4, PutTypes, LineTypes, WorldTypesStep DEF Next, System

-----------------------------------------------------------------------------
(* What is read and what is still unread *)

\* The input that has been received.
Read == SubSeq(net.sent, 1, Len(net.sent) - Len(net.arrived))

InputInv == Read \in Text /\ net.sent = Read \o net.arrived

\* The peer only adds to the input; a close or the clock does not touch it.
LEMMA InputGrows ==
  ASSUME SocketTypes, InputInv, PeerSends \/ PeerCloses \/ Close \/ Tick
  PROVE  InputInv' /\ Read' = Read
<1>1. CASE PeerSends
  <2>1. PICK c \in Chars : net' = [net EXCEPT !.arrived = Append(net.arrived, c),
                                              !.sent = Append(net.sent, c)]
    BY <1>1 DEF PeerSends
  <2>2. net.arrived \in Text /\ net.sent \in Text /\ <<c>> \in Text
    BY DEF SocketTypes, WorldTypes, Text
  <2>3. /\ net'.sent = net.sent \o <<c>> /\ net'.arrived = net.arrived \o <<c>>
        /\ net'.arrived \in Text
    <3>1. /\ Append(net.arrived, c) = net.arrived \o <<c>>
          /\ Append(net.sent, c) = net.sent \o <<c>>
      BY <2>2, AppendIsConcat DEF Text
    <3>2. net'.sent = Append(net.sent, c) /\ net'.arrived = Append(net.arrived, c)
      BY <2>1 DEF SocketTypes, WorldTypes
    <3> QED
      BY <2>2, <3>1, <3>2, Joined, ZenonT(60)
  <2>4. net'.sent = Read \o net'.arrived
    <3>1. (Read \o net.arrived) \o <<c>> = Read \o (net.arrived \o <<c>>)
      BY <2>2, Joined DEF InputInv
    <3> QED
      BY <2>3, <3>1 DEF InputInv
  <2>5. Read' = Read
    BY <2>3, <2>4, BeforeEnd DEF InputInv, Read
  <2> QED
    BY <2>4, <2>5 DEF InputInv
<1>2. CASE PeerCloses \/ Close \/ Tick
  <2>1. net'.sent = net.sent /\ net'.arrived = net.arrived
    BY <1>2 DEF PeerCloses, Close, Tick, SocketTypes, WorldTypes
  <2> QED
    BY <2>1 DEF InputInv, Read
<1> QED
  BY <1>1, <1>2

\* recv() moves the first characters that have arrived to what is read.
LEMMA InputReceived ==
  ASSUME SocketTypes, InputInv, pc = "recv", UNCHANGED <<now, call, out>>,
         NEW n, Received(n), n \in {0, Taken}
  PROVE  /\ InputInv'
         /\ \E t \in Text : Read' = Read \o t /\ frame'.text = frame.text \o t
<1> DEFINE t == SubSeq(net.arrived, 1, n)
           left == SubSeq(net.arrived, n + 1, Len(net.arrived))
<1>1. /\ n \in 0..Len(net.arrived) /\ net'.sent = net.sent /\ net'.arrived = left
      /\ frame'.text = frame.text \o t /\ net.arrived \in Text
  BY ReceivedTypes DEF SocketTypes, WorldTypes
<1>2. t \in Text /\ left \in Text /\ t \o left = net.arrived
  BY <1>1, Cut
<1> HIDE DEF t, left
<1>3. net'.sent = (Read \o t) \o net'.arrived /\ Read \o t \in Text
  <2>1. (Read \o t) \o left = Read \o (t \o left) /\ Read \o t \in Text
    BY <1>2, Joined DEF InputInv
  <2> QED
    BY <1>1, <1>2, <2>1 DEF InputInv
<1>4. Read' = Read \o t
  BY <1>1, <1>2, <1>3, BeforeEnd DEF Read
<1> QED
  BY <1>1, <1>2, <1>3, <1>4 DEF InputInv

\* put(): what is left is what the exception will carry. get(): what is read is what
\* it will return.
BytesInv ==
  /\ call.op = "put" =>
       /\ out.taken \o out.rest = Payload
       /\ pc = "done" => out.rest = result.text
  /\ call.op = "get" =>
       /\ Read = frame.text
       /\ pc = "done" => result.text = frame.text

\* No step of any call loses or doubles a character.
LEMMA BytesStep ==
  ASSUME SocketTypes, InputInv, BytesInv, [Next]_vars
  PROVE  InputInv' /\ BytesInv'
<1>1. CASE PutTry \/ PutFails
  <2>1. UNCHANGED call /\ call.op = "put"
    BY <1>1 DEF PutTry, PutFails, SocketTypes, FlowInv
  <2> QED
    BY <1>1, <2>1, PutTypes DEF BytesInv, InputInv, Read
<1>2. ASSUME pc = "recv", UNCHANGED <<now, call, out>>,
             NEW n, Received(n), n \in {0, Taken}
      PROVE  InputInv' /\ BytesInv'
  <2>1. PICK t \in Text : Read' = Read \o t /\ frame'.text = frame.text \o t
    BY <1>2, InputReceived
  <2>2. call.op # "put" /\ pc' # "done" /\ InputInv'
    BY <1>2, InputReceived DEF SocketTypes, FlowInv, Received
  <2> QED
    BY <1>2, <2>1, <2>2 DEF BytesInv
<1>3. ASSUME pc = "recv", UNCHANGED <<now, call, out, net>>,
             \/ \E k : GetThrows(k) /\ frame.text = <<>>
             \/ pc' = "ret" /\ UNCHANGED <<frame, line, result>>
      PROVE  InputInv' /\ BytesInv'
  <2>1. /\ UNCHANGED <<frame, line>> /\ (pc' = "done" => result'.text = frame.text)
        /\ call.op # "put"
    BY <1>3, GetEnds DEF SocketTypes, FlowInv
  <2> QED
    BY <1>3, <2>1 DEF BytesInv, InputInv, Read
<1>4. CASE GetTry
  BY <1>2, <1>3, <1>4, GetTryCases
<1>5. CASE GetFails
  BY <1>3, <1>5 DEF GetFails
<1>6. CASE GetReturn
  BY <1>6 DEF GetReturn, Finish, BytesInv, InputInv, Read
<1>7. CASE LineStep
  BY <1>7, LineStepCases DEF BytesInv, InputInv, Read
<1>8. CASE PeerSends \/ PeerCloses \/ Close \/ Tick
  <2>1. UNCHANGED <<call, pc, out, frame, line, result>>
    BY <1>8 DEF PeerSends, PeerCloses, Close, Tick
  <2> QED
    BY <1>8, <2>1, InputGrows DEF BytesInv
<1>9. CASE UNCHANGED vars
  BY <1>9 DEF vars, BytesInv, InputInv, Read
<1> QED
  BY <1>1, <1>4, <1>5, <1>6, <1>7, <1>8, <1>9 DEF Next, System

\* At the beginning nothing is read.
LEMMA InitInput == Init => InputInv /\ Read = <<>>
<1> SUFFICES ASSUME Init PROVE InputInv /\ Read = <<>>
  OBVIOUS
<1>1. net.sent = <<>> /\ net.arrived = <<>> /\ <<>> \in Text /\ Len(<<>>) = 0
  BY EmptySeq DEF Init, Text
<1>2. Read = <<>>
  BY <1>1, SubSeqEmpty DEF Read
<1>3. <<>> \o <<>> = <<>>
  BY <1>1, ConcatEmptySeq DEF Text
<1> QED
  BY <1>1, <1>2, <1>3 DEF InputInv

\* Whatever send() and recv() take of a text, and wherever time or the connection
\* ends the call, put()'s exception carries exactly what was not sent, and get()
\* returns or throws exactly what was read.
THEOREM NoByteIsLost == Spec => []BytesAccounted
<1> DEFINE Inv == SocketTypes /\ InputInv /\ BytesInv
<1>1. Init => Inv
  <2> SUFFICES ASSUME Init PROVE Inv
    OBVIOUS
  <2>1. <<>> \o Payload = Payload /\ NoResult.text = <<>>
    BY SocketAssumption, ConcatEmptySeq DEF NoResult
  <2>2. frame.text = <<>> /\ pc # "done"
    BY DEF Init, Frame
  <2>3. BytesInv
    BY <2>1, <2>2, InitInput DEF Init, BytesInv
  <2> QED
    BY <2>3, InitTypes, InitInput
<1>2. Inv /\ [Next]_vars => Inv'
  BY TypesStep, BytesStep
<1>3. Inv => BytesAccounted
  BY DEF SocketTypes, FlowInv, BytesInv, InputInv, BytesAccounted, Ended
<1> QED
  BY <1>1, <1>2, <1>3, PTL DEF Spec

-----------------------------------------------------------------------------
(* The first line *)

\* A text that ends with eol ends with each of its characters.
LEMMA FoundEnds ==
  ASSUME NEW t \in Text, Found(t)
  PROVE  /\ Len(Eol) <= Len(t)
         /\ \A i \in 1..Len(Eol) : t[Len(t) - Len(Eol) + i] = Eol[i]
<1> DEFINE L == Len(Eol)
           N == Len(t)
           r(s) == [i \in 1..Len(s) |-> s[(Len(s) - i) + 1]]
<1>1. /\ L \in Nat /\ N \in Nat
      /\ \A i \in 1..L : Eol[i] \in Chars
      /\ \A i \in 1..N : t[i] \in Chars
  BY SocketAssumption, LenProperties, ElementOfSeq DEF Text
<1>2. r(Eol) \in Seq(Chars) /\ Len(r(Eol)) = L /\ \A i \in 1..L : r(Eol)[i] = Eol[L - i + 1]
  BY <1>1
<1>3. r(t) \in Seq(Chars) /\ Len(r(t)) = N /\ \A i \in 1..N : r(t)[i] = t[N - i + 1]
  BY <1>1
<1>4. L <= N /\ SubSeq(r(Eol), 1, L) = SubSeq(r(t), 1, L)
  BY <1>2, <1>3 DEF Found, IsSuffix, IsPrefix, Reverse
<1> HIDE DEF r
<1>5. \A j \in 1..L : SubSeq(r(Eol), 1, L)[j] = r(Eol)[j]
  <2>1. \A i \in 1..L : r(Eol)[i] \in Chars
    BY <1>2, ElementOfSeq
  <2> QED
    BY <1>1, <2>1, SubSeqProperties
<1>6. \A j \in 1..L : SubSeq(r(t), 1, L)[j] = r(t)[j]
  <2>1. \A i \in 1..L : r(t)[i] \in Chars
    BY <1>1, <1>3, <1>4, ElementOfSeq
  <2> QED
    BY <1>1, <2>1, SubSeqProperties
<1>7. ASSUME NEW i \in 1..L PROVE t[N - L + i] = Eol[i]
  <2> DEFINE j == L - i + 1
  <2>1. j \in 1..L /\ j \in 1..N /\ L - j + 1 = i /\ N - j + 1 = N - L + i
    BY <1>1, <1>4
  <2>2. r(Eol)[j] = r(t)[j]
    BY <1>4, <1>5, <1>6, <2>1
  <2> QED
    BY <1>2, <1>3, <2>1, <2>2
<1> QED
  BY <1>4, <1>7

\* However many of the characters that getln() asks for arrive, an eol of up to three
\* characters ends with the last of them or not at all.
LEMMA NoLineInside ==
  ASSUME NEW base \in Text, NEW t \in Text, Len(Eol) <= 3,
         \A n \in 0..Len(base) : ~Found(SubSeq(base, 1, n)),
         NEW m \in Nat, Len(t) <= m,
         (base = <<>> /\ m = Len(Eol)) \/ m = GetLen(base)
  PROVE  \A n \in 0..(Len(base \o t) - 1) : ~Found(SubSeq(base \o t, 1, n))
<1> DEFINE b == Len(base)
           L == Len(Eol)
<1>1. /\ b \in Nat /\ Len(t) \in Nat /\ L \in Nat /\ L > 0
      /\ base \o t \in Text /\ Len(base \o t) = b + Len(t)
  BY SocketAssumption, EmptySeq, Joined
<1> SUFFICES ASSUME NEW n \in 0..(b + Len(t) - 1), Found(SubSeq(base \o t, 1, n))
             PROVE  FALSE
  BY <1>1
<1> DEFINE p == SubSeq(base \o t, 1, n)
<1>2. n \in 0..Len(base \o t) /\ n < b + m
  BY <1>1
<1>3. p \in Text /\ Len(p) = n
  BY <1>1, <1>2, Cut
<1>4. \A i \in 1..n : p[i] = (base \o t)[i]
  <2>1. \A i \in 1..n : (base \o t)[i] \in Chars
    BY <1>1, <1>2, ElementOfSeq DEF Text
  <2> QED
    BY <1>2, <2>1, SubSeqProperties
<1>5. L <= n /\ p[n - L + 1] = Eol[1] /\ Found(p)
  <2> HIDE DEF p
  <2>1. Found(p)
    BY DEF p
  <2>2. L <= Len(p) /\ \A i \in 1..L : p[Len(p) - L + i] = Eol[i]
    BY <1>3, <2>1, FoundEnds
  <2>3. 1 \in 1..L
    BY <1>1
  <2> QED
    BY <1>3, <2>1, <2>2, <2>3
<1> HIDE DEF p
<1>6. n > b
  <2> SUFFICES ASSUME n <= b PROVE FALSE
    BY <1>1, <1>2
  <2>1. 1 \in 1..b /\ n \in 1..b
    BY <1>1, <1>5
  <2>2. p = SubSeq(base, 1, n)
    BY <2>1, SubSeqOfConcat1 DEF Text, p
  <2>3. n \in 0..Len(base)
    BY <2>1
  <2> QED
    BY <1>5, <2>2, <2>3
<1>7. m > 1 /\ m = GetLen(base) /\ ~(base = <<>> /\ m = L)
  <2>1. base = <<>> => b = 0
    BY EmptySeq
  <2> QED
    BY <1>1, <1>2, <1>5, <1>6, <2>1
<1> DEFINE tail == SubSeq(base, b - (L - 1) + 1, b)
           near == \E i \in DOMAIN tail : tail[i] = Head(Eol)
<1>8. /\ L = 3 /\ m = 2
      /\ ~(b >= 2 /\ near)
  <2>1. GetLen(base) = IF L - 1 > 1 /\ ~(b >= L - 1 /\ near) THEN L - 1 ELSE 1
    BY DEF GetLen
  <2> HIDE DEF near
  <2>2. L - 1 > 1 /\ ~(b >= L - 1 /\ near) /\ m = L - 1
    BY <1>1, <1>7, <2>1
  <2> QED
    BY <1>1, <2>2
<1>9. n = b + 1 /\ b >= 2
  BY <1>1, <1>2, <1>5, <1>6, <1>8
<1>10. base[b - 1] = Eol[1]
  <2>1. (base \o t)[b - 1] = base[b - 1]
    BY <1>1, <1>9, ConcatProperties DEF Text
  <2> QED
    BY <1>1, <1>4, <1>5, <1>8, <1>9, <2>1
<1>11. 1 \in DOMAIN tail /\ tail[1] = base[b - 1]
  <2>1. \A i \in (b - 1)..b : base[i] \in Chars
    BY <1>1, <1>9, ElementOfSeq DEF Text
  <2>2. SubSeq(base, b - 1, b) \in Seq(Chars) /\ Len(SubSeq(base, b - 1, b)) = 2
    BY <1>1, <1>9, <2>1, SubSeqProperties
  <2>3. SubSeq(base, b - 1, b)[1] = base[b - 1]
    BY <1>1, <1>9, <2>1, SubSeqProperties
  <2>4. DOMAIN SubSeq(base, b - 1, b) = 1..2
    BY <2>2, LenProperties
  <2>5. tail = SubSeq(base, b - 1, b)
    BY <1>1, <1>8
  <2>6. 1 \in DOMAIN SubSeq(base, b - 1, b)
    BY <2>4
  <2> HIDE DEF tail
  <2> QED
    BY <2>3, <2>5, <2>6, Zenon
<1>12. Head(Eol) = Eol[1]
  BY SocketAssumption
<1> QED
  BY <1>8, <1>9, <1>10, <1>11, <1>12

NoLineIn(t, last) == \A n \in 0..last : ~Found(SubSeq(t, 1, n))

\* While getln() reads, its own text and that of the get() under way are what is read,
\* the first holds no line, and no more is asked for than GetLen allows.
ReadingInv ==
  /\ Read = line.text \o frame.text
  /\ NoLineIn(line.text, Len(line.text))
  /\ (line.text = <<>> /\ frame.maxlen = Len(Eol)) \/ frame.maxlen = GetLen(line.text)
  /\ call.timeout < 0 => frame.timeout = 0 /\ line.end <= now

LineInv ==
  call.op = "getln" =>
    /\ pc # "done" => ReadingInv
    /\ NoLineIn(Read, Len(Read) - 1)
    /\ result.kind = "ok" => result.text = Read /\ Found(Read)

\* A text is its own longest beginning.
LEMMA WholeText == ASSUME NEW t \in Text PROVE SubSeq(t, 1, Len(t)) = t
BY SubSeqFull DEF Text

\* While getln() reads, what is read holds no line but, maybe, as a whole.
LEMMA ReadingFindsNone ==
  ASSUME SocketTypes, Len(Eol) <= 3, call.op = "getln", ReadingInv
  PROVE  NoLineIn(Read, Len(Read) - 1)
<1>1. /\ line.text \in Text /\ frame.text \in Text /\ frame.maxlen \in Nat
      /\ Len(frame.text) <= frame.maxlen
  BY DEF SocketTypes, CallTypes, FlowInv
<1>2. \A n \in 0..Len(line.text) : ~Found(SubSeq(line.text, 1, n))
  BY DEF ReadingInv, NoLineIn
<1>3. \A n \in 0..(Len(line.text \o frame.text) - 1) :
        ~Found(SubSeq(line.text \o frame.text, 1, n))
  BY <1>1, <1>2, NoLineInside DEF ReadingInv
<1> QED
  BY <1>3 DEF ReadingInv, NoLineIn

\* recv() adds to the text of the get() under way.
LEMMA LineReceived ==
  ASSUME SocketTypes, InputInv, LineInv, Len(Eol) <= 3, pc = "recv",
         UNCHANGED <<now, call, out>>, NEW n, Received(n), n \in {0, Taken}
  PROVE  LineInv'
<1> SUFFICES ASSUME call.op = "getln" PROVE LineInv'
  BY DEF LineInv
<1>1. PICK t \in Text : Read' = Read \o t /\ frame'.text = frame.text \o t
  BY InputReceived
<1>2. /\ UNCHANGED <<line, result>> /\ pc' # "done" /\ frame'.maxlen = frame.maxlen
      /\ frame'.timeout = frame.timeout
  BY ReceivedTypes DEF Received, SocketTypes, CallTypes
<1>3. line.text \in Text /\ frame.text \in Text /\ ReadingInv
  BY DEF SocketTypes, CallTypes, LineInv
<1>4. Read' = line'.text \o frame'.text
  <2>1. (line.text \o frame.text) \o t = line.text \o (frame.text \o t)
    BY <1>3, Joined, ZenonT(60)
  <2> QED
    BY <1>1, <1>2, <1>3, <2>1 DEF ReadingInv
<1>5. ReadingInv'
  BY <1>2, <1>3, <1>4 DEF ReadingInv, NoLineIn
<1>6. NoLineIn(Read, Len(Read) - 1)'
  <2>1. /\ line'.text \in Text /\ frame'.text \in Text /\ frame'.maxlen \in Nat
        /\ Len(frame'.text) <= frame'.maxlen
    BY ReceivedTypes DEF SocketTypes, CallTypes, FlowInv
  <2>2. \A k \in 0..(Len(line'.text \o frame'.text) - 1) :
          ~Found(SubSeq(line'.text \o frame'.text, 1, k))
    BY <1>5, <2>1, NoLineInside DEF ReadingInv, NoLineIn
  <2> QED
    BY <1>4, <2>2 DEF NoLineIn
<1>7. result.kind # "ok"
  BY DEF SocketTypes, FlowInv, NoResult
<1> QED
  BY <1>2, <1>5, <1>6, <1>7 DEF LineInv

\* A get() that ends takes nothing from what getln() has.
LEMMA LineGetEnds ==
  ASSUME SocketTypes, LineInv, pc = "recv", UNCHANGED <<now, call, out, net>>,
         \/ \E k \in {"notOpen", "error"} : GetThrows(k) /\ frame.text = <<>>
         \/ pc' = "ret" /\ UNCHANGED <<frame, line, result>>
  PROVE  LineInv'
<1>1. UNCHANGED <<Read, frame, line>> /\ result'.kind # "ok"
  <2>1. result.kind # "ok"
    BY DEF SocketTypes, FlowInv, NoResult
  <2> QED
    BY <2>1 DEF GetThrows, Finish, Read
<1> QED
  BY <1>1 DEF LineInv, ReadingInv, NoLineIn

\* A step of getln() ends with the first line, or with none, or reads on after a text
\* that holds none. Only a get() that timed out after the first one loses its text,
\* and then getln() throws.
LEMMA LineStepKeeps ==
  ASSUME SocketTypes, InputInv, LineInv, Len(Eol) <= 3, LineStep
  PROVE  LineInv'
<1>1. /\ pc = "ret" /\ call.op = "getln" /\ UNCHANGED <<now, net, call, out>>
      /\ line' = [line EXCEPT !.text = GotText, !.first = FALSE]
      /\ line'.text = GotText /\ line'.end = line.end /\ GotText \in Text
  BY LineStepCases, GotTextType DEF SocketTypes, CallTypes
<1>2. /\ line.text \in Text /\ frame.text \in Text
      /\ ReadingInv /\ NoLineIn(Read, Len(Read) - 1)
  BY <1>1 DEF SocketTypes, CallTypes, LineInv
<1>3. Read' = Read
  BY <1>1 DEF Read
<1>4. ~Found(line.text)
  <2>1. Len(line.text) \in 0..Len(line.text)
    BY <1>2, Joined
  <2> QED
    BY <1>2, <2>1, WholeText DEF ReadingInv, NoLineIn
<1>5. GotText = Read \/ GotText = line.text
  BY <1>2 DEF GotText, ReadingInv
<1>6. CASE Found(GotText) /\ Finish("ok", GotText)
  <2>1. GotText = Read
    BY <1>4, <1>5, <1>6
  <2>2. pc' = "done" /\ result'.text = Read
    BY <1>6, <2>1 DEF Finish
  <2> QED
    BY <1>1, <1>2, <1>3, <1>6, <2>1, <2>2 DEF LineInv, NoLineIn
<1>7. CASE \E k \in {"overrun", "timeout"} : Finish(k, GotText)
  <2>1. pc' = "done" /\ result'.kind # "ok"
    BY <1>7 DEF Finish
  <2> QED
    BY <1>1, <1>2, <1>3, <2>1 DEF LineInv, NoLineIn
<1>8. CASE /\ ~Late /\ ~Found(GotText) /\ UNCHANGED result
           /\ pc' = "recv" /\ frame' = Frame(GetLen(GotText), Wait)
  <2>1. call.timeout \in Int /\ frame.timeout \in Int /\ line.end \in Int /\ now \in Int
    BY SocketAssumption DEF SocketTypes, WorldTypes, CallTypes
  <2>2. GotText = Read
    <3>1. ~TimedOut
      BY <1>2, <1>8, <2>1 DEF Late, TimedOut, ReadingInv
    <3> QED
      BY <1>2, <3>1 DEF GotText, ReadingInv
  <2>3. frame'.text = <<>> /\ frame'.maxlen = GetLen(GotText) /\ frame'.timeout = Wait
    BY <1>8 DEF Frame
  <2>4. Read' = line'.text \o frame'.text
    BY <1>1, <1>3, <2>2, <2>3, ConcatEmptySeq DEF Text
  <2>5. NoLineIn(GotText, Len(GotText))
    <3> SUFFICES ASSUME NEW n \in 0..Len(GotText) PROVE ~Found(SubSeq(GotText, 1, n))
      BY DEF NoLineIn
    <3>1. CASE n = Len(GotText)
      BY <1>1, <1>8, <3>1, WholeText
    <3>2. CASE n # Len(GotText)
      <4>1. n \in 0..(Len(Read) - 1)
        BY <1>1, <2>2, <3>2, Joined
      <4> QED
        BY <1>2, <2>2, <4>1 DEF NoLineIn
    <3> QED
      BY <3>1, <3>2
  <2>6. call.timeout < 0 => frame'.timeout = 0 /\ line'.end <= now'
    BY <1>1, <1>2, <2>1, <2>3 DEF ReadingInv, Wait
  <2>7. ReadingInv'
    BY <1>1, <2>3, <2>4, <2>5, <2>6 DEF ReadingInv, NoLineIn
  <2>8. result'.kind # "ok"
    BY <1>1, <1>8 DEF SocketTypes, FlowInv, NoResult
  <2> QED
    BY <1>2, <1>3, <1>8, <2>7, <2>8 DEF LineInv, NoLineIn
<1> QED
  BY <1>6, <1>7, <1>8, LineStepCases

\* Every step keeps what getln() has read to the first line.
LEMMA LineInvStep ==
  ASSUME SocketTypes, InputInv, LineInv, Len(Eol) <= 3, [Next]_vars
  PROVE  LineInv'
<1>1. CASE PutTry \/ PutFails \/ GetReturn
  <2>1. UNCHANGED call /\ call.op # "getln"
    BY <1>1 DEF PutTry, PutFails, GetReturn, SocketTypes, FlowInv
  <2> QED
    BY <2>1 DEF LineInv
<1>2. CASE GetTry
  BY <1>2, GetTryCases, LineReceived, LineGetEnds
<1>3. CASE GetFails
  BY <1>3, LineGetEnds DEF GetFails
<1>4. CASE PeerSends \/ PeerCloses \/ Close \/ Tick
  <2>1. UNCHANGED <<call, pc, out, frame, line, result>>
    BY <1>4 DEF PeerSends, PeerCloses, Close, Tick
  <2>2. now' = now \/ now' = now + 1
    BY <1>4 DEF PeerSends, PeerCloses, Close, Tick
  <2>5. now \in Int /\ line.end \in Int
    BY DEF SocketTypes, WorldTypes, CallTypes
  <2>3. Read' = Read
    BY <1>4, InputGrows
  <2>4. line.end <= now => line.end <= now'
    BY <2>2, <2>5
  <2> QED
    BY <2>1, <2>3, <2>4 DEF LineInv, ReadingInv, NoLineIn
<1>5. CASE UNCHANGED vars
  BY <1>5 DEF vars, LineInv, ReadingInv, NoLineIn, Read
<1> QED
  BY <1>1, <1>2, <1>3, <1>4, <1>5, LineStepKeeps DEF Next, System

\* getln() asks for as many characters as eol has, then for what cannot run past the
\* end of the line: with an eol of one to three characters it never reads into the
\* next line, and what it returns is the first line with its eol.
THEOREM GetlnStopsAtTheLine ==
  ASSUME Len(Eol) <= 3
  PROVE  Spec => []LineIsFirst
<1> DEFINE Inv == SocketTypes /\ InputInv /\ BytesInv /\ LineInv
<1>1. Init => Inv
  <2> SUFFICES ASSUME Init PROVE Inv
    OBVIOUS
  <2>1. SocketTypes /\ InputInv /\ Read = <<>>
    BY InitTypes, InitInput
  <2>2. frame.text = <<>> /\ pc # "done" /\ result.kind # "ok" /\ line.text = <<>>
    BY DEF Init, Frame, NoResult
  <2>3. BytesInv
    <3>1. <<>> \o Payload = Payload
      BY SocketAssumption, ConcatEmptySeq
    <3> QED
      BY <2>1, <2>2, <3>1 DEF Init, BytesInv
  <2>4. <<>> \in Text /\ Len(<<>>) = 0 /\ <<>> \o <<>> = <<>> /\ Len(Eol) > 0
    BY SocketAssumption, EmptySeq, ConcatEmptySeq DEF Text
  <2>5. \A n \in 0..0 : ~Found(SubSeq(<<>>, 1, n))
    <3>1. SubSeq(<<>>, 1, 0) = <<>>
      BY SubSeqEmpty
    <3>2. ~Found(<<>>)
      BY <2>4, FoundEnds
    <3>3. \A n \in 0..0 : n = 0
      OBVIOUS
    <3> QED
      BY <3>1, <3>2, <3>3, Zenon
  <2>6. ASSUME call.op = "getln" PROVE ReadingInv
    <3>1. call.timeout \in Int /\ now = 0
      BY SocketAssumption DEF Init
    <3>2. /\ frame.maxlen = Len(Eol) /\ line.end = now + call.timeout
          /\ call.timeout < 0 => frame.timeout = 0
      BY <2>6 DEF Init, Frame
    <3> QED
      BY <2>1, <2>2, <2>4, <2>5, <3>1, <3>2 DEF ReadingInv, NoLineIn
  <2>7. LineInv
    BY <2>1, <2>2, <2>4, <2>6 DEF LineInv, NoLineIn
  <2> QED
    BY <2>1, <2>3, <2>7
<1>2. Inv /\ [Next]_vars => Inv'
  BY TypesStep, BytesStep, LineInvStep
<1>3. Inv => LineIsFirst
  <2> SUFFICES ASSUME Inv, call.op = "getln" PROVE LineIsFirst
    BY DEF LineIsFirst
  <2> QED
    BY DEF LineInv, LineIsFirst, NoLineIn, Read
<1> QED
  BY <1>1, <1>2, <1>3, PTL DEF Spec
=============================================================================
