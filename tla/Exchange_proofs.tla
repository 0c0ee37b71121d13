---------------------------- MODULE Exchange_proofs ----------------------------
(***************************************************************************)
(* Theorems about Exchange, for any requests, providers and answers, and   *)
(* for any scripts that an upstream may stream, cut anywhere: what a       *)
(* stream's client is told (SseAdapter), by every way a request can take.  *)
(*                                                                         *)
(* Follows says that the state of the stream is the one that the whole     *)
(* events taken so far give one by one, so that in the end it is that of   *)
(* the events of one body; Telling says how far the events that have been  *)
(* told are an answer, before and after its end.                           *)
(*                                                                         *)
(* Then, on top of it, the exchange itself: Exchanged says what of the     *)
(* request has been sent, what the answer was made of and what of it has   *)
(* been counted, at every stage.  From it follow that what is sent goes    *)
(* where the client has meant it (DirectedRequests), that it tells the     *)
(* conversation the client has written (RequestsAreTold), that what comes  *)
(* back is what the upstream has said (AnswersAreHeard), and the types.    *)
(*                                                                         *)
(* That a conversation is told as it was written is an induction over its  *)
(* messages and their items.  It is made once, for FlattenSeq: what reads  *)
(* two sequences that are joined as it reads each of them (KeepsJoins)     *)
(* reads any row of them so (EachJoined).  Every translator is then        *)
(* compared with the reader message by message.                            *)
(***************************************************************************)
EXTENDS Exchange, FiniteSetTheorems, WellFoundedInduction, TLAPS
-------------------------------------------------------------------------------
(***************************************************************************)
(* The inductive invariant                                                 *)
(***************************************************************************)
StreamNow == [started |-> started, done |-> done, out |-> out]

\* A stream runs for these clients only, and before it nothing has been read or told.
Stages ==
  /\ stage \in {"streaming", "logged"} \/ phase = "waiting"
  /\ phase = "waiting" => arrived = 0 /\ used = 0 /\ StreamNow = Fresh
  /\ stage \in {"asked", "normal", "sent"} => hurt = {}
  /\ phase # "waiting" => endpoint \in {"chat", "messages"}

\* Frames are taken once they are there; when the upstream has ended none is left.
Taken == 3 * used <= arrived /\ (phase = "rest" => ~Found)

\* The frames that have come in, or but for their empty line.
Whole == (arrived + 1) \div 3

Follows ==
  hurt = {} =>
    /\ phase \in {"reading", "rest"} => StreamNow = Fed(endpoint, script, {})[used]
    /\ phase = "stop" /\ ~script.crlf => StreamNow = Fed(endpoint, script, {})[Whole]
    /\ phase = "ended" /\ ~script.crlf => out = Finish(endpoint, Fed(endpoint, script, {})[Whole]).out

LastEvents(client) == IF client = "messages" THEN {"message_stop", "error"} ELSE {"[DONE]", "error"}

\* The events o are an answer to a client: over tells whether it has its end, and begun whether
\* its message has been opened.
Answers(client, begun, over, o) ==
  /\ \A m, n \in DOMAIN o : o[m].event = "text" /\ o[n].event = "text" /\ m < n => o[m].frame < o[n].frame
  /\ \A n \in DOMAIN o : o[n].event \in LastEvents(client) => over /\ n = Len(o)
  /\ over => o # <<>> /\ o[Len(o)].event \in LastEvents(client)
  /\ client = "messages" =>
       /\ \A n \in DOMAIN o : /\ o[n].event = "message_start" => n = 1
                              /\ o[n].event = "text" => n > 2 /\ o[2].event = "content_block_start"
       /\ o = <<>> \/ o[1].event = "message_start" \/ (Len(o) = 1 /\ o[1].event = "error")
       /\ ~over => IF begun
                   THEN Len(o) >= 2 /\ o[1].event = "message_start" /\ o[2].event = "content_block_start"
                   ELSE o = <<>>

\* The texts are of frames up to the n-th.
UpToFrame(o, n) == \A i \in DOMAIN o : o[i].event = "text" => o[i].frame <= n

Telling ==
  Orderly(script) =>
    /\ phase \notin {"waiting", "ended"} => Answers(endpoint, started, done, out)
    /\ phase = "ended" => Answers(endpoint, started, TRUE, out)
    /\ phase = "stop" => UpToFrame(out, Len(script.frames))
    /\ phase \in {"reading", "rest"} =>
         /\ UpToFrame(out, used)
         /\ done => \E k \in 1 .. used : Ends(script.frames[k].kind)

IInv == StreamType /\ Stages /\ Taken /\ Follows /\ Telling
-------------------------------------------------------------------------------
(***************************************************************************)
(* The state after each event                                              *)
(***************************************************************************)
LEMMA Leasts ==
  ASSUME NEW T \in SUBSET Nat, T # {}
  PROVE  \E j \in T : \A i \in T : j <= i
<1> DEFINE R == OpToRel(<, Nat)
<1>1. IsWellFoundedOn(R, Nat)
  BY NatLessThanWellFounded
<1>2. \A i, j \in Nat : i < j => <<i, j>> \in R
  BY DEF OpToRel
<1> HIDE DEF R
<1>3. PICK j \in T : \A i \in T : ~(<<i, j>> \in R)
  BY <1>1, WFMin
<1>4. \A i \in T : i \in Nat /\ j \in Nat /\ ~(i < j)
  BY <1>2, <1>3
<1> QED
  BY <1>4

\* Induction up to a number, over a set instead of a predicate.
LEMMA UpTo ==
  ASSUME NEW N \in Nat, NEW S, 0 \in S, \A n \in 1 .. N : n - 1 \in S => n \in S
  PROVE  0 .. N \subseteq S
<1> SUFFICES ASSUME NEW k \in 0 .. N, k \notin S PROVE FALSE
  OBVIOUS
<1> DEFINE T == (0 .. N) \ S
<1>1. PICK j \in T : \A i \in T : j <= i
  <2>1. T \in SUBSET Nat /\ T # {}
    OBVIOUS
  <2> HIDE DEF T
  <2> QED
    BY <2>1, Leasts
<1>2. j \in 1 .. N /\ j - 1 \in 0 .. N
  BY <1>1
<1>3. j - 1 \notin T
  BY <1>1, <1>2
<1> QED
  BY <1>1, <1>2, <1>3

\* u is the state after each of the first N events.
States(client, s, cut, N, u) ==
  u = [i \in 0 .. N |-> IF i = 0 THEN Fresh
                        ELSE Feed(client, u[i - 1], s.frames[i].kind, FrameText(i, cut))]

LEMMA StatesExist ==
  ASSUME NEW client, NEW s, NEW cut, NEW N \in Nat
  PROVE  \E u : States(client, s, cut, N, u)
<1> DEFINE Some(m) == \E u : States(client, s, cut, m, u)
           S == {m \in 0 .. N : Some(m)}
<1>1. Some(0)
  <2> DEFINE u == [i \in 0 .. 0 |-> Fresh]
  <2>1. States(client, s, cut, 0, u)
    BY DEF States
  <2> HIDE DEF u
  <2> QED
    BY <2>1
<1>2. ASSUME NEW m \in 1 .. N, Some(m - 1) PROVE Some(m)
  <2> DEFINE Next1(x, i) == Feed(client, x, s.frames[i].kind, FrameText(i, cut))
  <2>1. PICK u : States(client, s, cut, m - 1, u)
    BY <1>2
  <2>2. u = [i \in 0 .. m - 1 |-> IF i = 0 THEN Fresh ELSE Next1(u[i - 1], i)]
    BY <2>1 DEF States
  <2> HIDE DEF Next1
  <2> DEFINE v == [i \in 0 .. m |-> IF i = m THEN Next1(u[m - 1], m) ELSE u[i]]
  <2>3. \A i \in 0 .. m : v[i] = IF i = m THEN Next1(u[m - 1], m) ELSE u[i]
    OBVIOUS
  <2>4. \A i \in 0 .. m - 1 : u[i] = IF i = 0 THEN Fresh ELSE Next1(u[i - 1], i)
    BY <2>2
  <2>5. v = [i \in 0 .. m |-> v[i]]
    OBVIOUS
  <2> HIDE DEF v
  <2>6. \A i \in 0 .. m : v[i] = IF i = 0 THEN Fresh ELSE Next1(v[i - 1], i)
    <3> SUFFICES ASSUME NEW i \in 0 .. m
                 PROVE  v[i] = IF i = 0 THEN Fresh ELSE Next1(v[i - 1], i)
      OBVIOUS
    <3>1. CASE i = m
      <4>1. m # 0 /\ m - 1 \in 0 .. m /\ m - 1 # m /\ m \in 0 .. m
        OBVIOUS
      <4> QED
        BY <2>3, <3>1, <4>1
    <3>2. CASE i = 0
      BY <2>3, <2>4, <3>2
    <3>3. CASE i # m /\ i # 0
      <4>1. i \in 0 .. m - 1 /\ i - 1 \in 0 .. m /\ i - 1 # m
        BY <3>3
      <4> QED
        BY <2>3, <2>4, <3>3, <4>1
    <3> QED
      BY <3>1, <3>2, <3>3
  <2>7. v = [i \in 0 .. m |-> IF i = 0 THEN Fresh ELSE Next1(v[i - 1], i)]
    BY <2>5, <2>6
  <2>8. States(client, s, cut, m, v)
    BY <2>7 DEF States, Next1
  <2> QED
    BY <2>8
<1> HIDE DEF Some
<1>3. 0 \in S /\ \A n \in 1 .. N : n - 1 \in S => n \in S
  BY <1>1, <1>2
<1>4. N \in S
  <2> HIDE DEF S
  <2> QED
    BY <1>3, UpTo
<1> QED
  BY <1>4 DEF Some

LEMMA FedEach ==
  ASSUME NEW client, NEW s, NEW cut, Len(s.frames) \in Nat
  PROVE  \A i \in 0 .. Len(s.frames) :
           Fed(client, s, cut)[i] =
             IF i = 0 THEN Fresh
             ELSE Feed(client, Fed(client, s, cut)[i - 1], s.frames[i].kind, FrameText(i, cut))
<1> DEFINE u == CHOOSE w : States(client, s, cut, Len(s.frames), w)
<1>1. States(client, s, cut, Len(s.frames), u)
  BY StatesExist
<1>2. Fed(client, s, cut) = u
  BY DEF Fed, States
<1> HIDE DEF u
<1>3. u = [i \in 0 .. Len(s.frames) |->
             IF i = 0 THEN Fresh ELSE Feed(client, u[i - 1], s.frames[i].kind, FrameText(i, cut))]
  BY <1>1 DEF States
<1>4. ASSUME NEW i \in 0 .. Len(s.frames)
      PROVE  u[i] = IF i = 0 THEN Fresh ELSE Feed(client, u[i - 1], s.frames[i].kind, FrameText(i, cut))
  BY <1>3, Zenon
<1> QED
  BY <1>2, <1>4

\* The state after m events is the same, whatever comes after them.
LEMMA FedPrefix ==
  ASSUME NEW client, NEW s, NEW t, NEW cut, Len(s.frames) \in Nat, Len(t.frames) \in Nat,
         Len(t.frames) <= Len(s.frames),
         \A i \in 1 .. Len(t.frames) : t.frames[i] = s.frames[i]
  PROVE  \A i \in 0 .. Len(t.frames) : Fed(client, t, cut)[i] = Fed(client, s, cut)[i]
<1> DEFINE m == Len(t.frames)
           u == Fed(client, t, cut)
           v == Fed(client, s, cut)
           S == {i \in 0 .. m : u[i] = v[i]}
<1>1. /\ \A i \in 0 .. m : u[i] = IF i = 0 THEN Fresh
                                  ELSE Feed(client, u[i - 1], t.frames[i].kind, FrameText(i, cut))
      /\ \A i \in 0 .. Len(s.frames) : v[i] = IF i = 0 THEN Fresh
                                  ELSE Feed(client, v[i - 1], s.frames[i].kind, FrameText(i, cut))
  BY FedEach
<1>2. m \in Nat /\ \A i \in 0 .. m : i \in 0 .. Len(s.frames)
  OBVIOUS
<1> HIDE DEF u, v
<1>3. 0 \in S
  BY <1>1, <1>2
<1>4. ASSUME NEW i \in 1 .. m, i - 1 \in S PROVE i \in S
  <2>1. i \in 0 .. m /\ i # 0 /\ u[i - 1] = v[i - 1] /\ t.frames[i] = s.frames[i]
    BY <1>4
  <2> QED
    BY <1>1, <1>2, <2>1
<1>5. 0 .. m \subseteq S
  <2> HIDE DEF S, m
  <2> QED
    BY <1>2, <1>3, <1>4, UpTo
<1> QED
  BY <1>5 DEF u, v
-------------------------------------------------------------------------------
(***************************************************************************)
(* What an event adds to an answer                                         *)
(***************************************************************************)
LEMMA Joined ==
  ASSUME NEW o \in Seq(Emitted), NEW t \in Seq(Emitted)
  PROVE  /\ o \o t \in Seq(Emitted) /\ Len(o \o t) = Len(o) + Len(t)
         /\ DOMAIN (o \o t) = 1 .. Len(o) + Len(t) /\ DOMAIN o = 1 .. Len(o) /\ DOMAIN t = 1 .. Len(t)
         /\ Len(o) \in Nat /\ Len(t) \in Nat
         /\ \A n \in 1 .. Len(o) : (o \o t)[n] = o[n]
         /\ \A n \in 1 .. Len(o) + Len(t) : n > Len(o) =>
              n - Len(o) \in 1 .. Len(t) /\ (o \o t)[n] = t[n - Len(o)]
OBVIOUS

\* What goes on with an answer that has been opened, if it has to be: a text alone, or an end.
Continues(client, over, i, t) ==
  /\ t # <<>>
  /\ \A n \in DOMAIN t : /\ t[n].event # "message_start"
                         /\ t[n].event = "text" => Len(t) = 1 /\ t[n].frame = i
                         /\ t[n].event \in LastEvents(client) => over /\ n = Len(t)
  /\ over => t[Len(t)].event \in LastEvents(client)

LEMMA AnswerGoesOn ==
  ASSUME NEW client \in {"chat", "messages"}, NEW begun \in BOOLEAN, NEW over \in BOOLEAN,
         NEW o \in Seq(Emitted), NEW t \in Seq(Emitted), NEW i \in Nat \ {0},
         Answers(client, begun, FALSE, o), UpToFrame(o, i - 1),
         client = "messages" => begun, Continues(client, over, i, t)
  PROVE  Answers(client, begun, over, o \o t) /\ UpToFrame(o \o t, i)
<1> DEFINE r == o \o t
<1> USE DEF Continues
<1>1. /\ DOMAIN r = 1 .. Len(o) + Len(t) /\ DOMAIN o = 1 .. Len(o) /\ DOMAIN t = 1 .. Len(t)
      /\ Len(o) \in Nat /\ Len(t) \in Nat /\ Len(r) = Len(o) + Len(t)
      /\ \A n \in 1 .. Len(o) : r[n] = o[n]
      /\ \A n \in 1 .. Len(o) + Len(t) : n > Len(o) => n - Len(o) \in 1 .. Len(t) /\ r[n] = t[n - Len(o)]
  BY Joined
<1>2. Len(t) > 0
  BY <1>1
<1> HIDE DEF r
<1>3. \A n \in 1 .. Len(o) : o[n].frame \in Nat
  <2>1. \A x \in Emitted : x.frame \in Nat
    BY DEF Emitted
  <2> QED
    BY <1>1, <2>1
<1>4. UpToFrame(r, i)
  <2> SUFFICES ASSUME NEW n \in DOMAIN r, r[n].event = "text" PROVE r[n].frame <= i
    BY DEF UpToFrame
  <2>1. CASE n <= Len(o)
    <3>1. n \in DOMAIN o /\ r[n] = o[n]
      BY <1>1, <2>1
    <3> QED
      BY <1>1, <1>3, <3>1 DEF UpToFrame
  <2>2. CASE n > Len(o)
    BY <1>1, <2>2
  <2> QED
    BY <1>1, <2>1, <2>2
<1>5. ASSUME NEW m \in DOMAIN r, NEW n \in DOMAIN r, r[m].event = "text", r[n].event = "text", m < n
      PROVE  r[m].frame < r[n].frame
  <2>1. CASE n <= Len(o)
    <3>1. n \in DOMAIN o /\ r[n] = o[n] /\ m \in DOMAIN o /\ r[m] = o[m]
      BY <1>1, <1>5, <2>1
    <3> QED
      BY <1>5, <3>1 DEF Answers
  <2>2. CASE n > Len(o)
    <3>1. n - Len(o) \in 1 .. Len(t) /\ t[n - Len(o)].event = "text" /\ r[n].frame = i /\ Len(t) = 1
      BY <1>1, <1>5, <2>2
    <3>2. m \in DOMAIN o /\ r[m] = o[m]
      BY <1>1, <1>5, <2>2, <3>1
    <3> QED
      BY <1>1, <1>3, <1>5, <3>1, <3>2 DEF UpToFrame
  <2> QED
    BY <1>1, <2>1, <2>2
<1>6. ASSUME NEW n \in DOMAIN r, r[n].event \in LastEvents(client)
      PROVE  over /\ n = Len(r)
  <2>1. CASE n <= Len(o)
    <3>1. n \in DOMAIN o /\ r[n] = o[n]
      BY <1>1, <2>1
    <3> QED
      BY <1>6, <3>1 DEF Answers
  <2>2. CASE n > Len(o)
    <3>1. n - Len(o) \in DOMAIN t /\ t[n - Len(o)].event \in LastEvents(client)
      BY <1>1, <1>6, <2>2
    <3>2. over /\ n - Len(o) = Len(t)
      BY <3>1 DEF Continues
    <3>3. n \in Nat /\ Len(o) \in Nat /\ Len(t) \in Nat /\ Len(r) = Len(o) + Len(t)
      BY <1>1
    <3>4. n = Len(r)
      BY <3>2, <3>3, SMTT(30)
    <3> QED
      BY <3>2, <3>4
  <2> QED
    BY <1>1, <2>1, <2>2
<1>7. over => r # <<>> /\ r[Len(r)].event \in LastEvents(client)
  <2>1. Len(r) \in 1 .. Len(o) + Len(t) /\ Len(r) > Len(o) /\ Len(r) - Len(o) = Len(t)
    BY <1>1, <1>2
  <2>2. r[Len(r)] = t[Len(t)]
    BY <1>1, <2>1
  <2>3. r # <<>>
    BY <1>1, <1>2
  <2> QED
    BY <2>2, <2>3
<1>8. ASSUME client = "messages"
      PROVE  /\ \A n \in DOMAIN r : /\ r[n].event = "message_start" => n = 1
                                    /\ r[n].event = "text" => n > 2 /\ r[2].event = "content_block_start"
             /\ r[1].event = "message_start"
             /\ Len(r) >= 2 /\ r[1].event = "message_start" /\ r[2].event = "content_block_start"
  <2>1. /\ Len(o) >= 2 /\ o[1].event = "message_start" /\ o[2].event = "content_block_start"
        /\ \A n \in DOMAIN o : /\ o[n].event = "message_start" => n = 1
                               /\ o[n].event = "text" => n > 2
    BY <1>8 DEF Answers
  <2>2. r[1] = o[1] /\ r[2] = o[2] /\ Len(r) >= 2
    BY <1>1, <2>1
  <2>3. ASSUME NEW n \in DOMAIN r
        PROVE  /\ r[n].event = "message_start" => n = 1
               /\ r[n].event = "text" => n > 2
    <3>1. CASE n <= Len(o)
      BY <1>1, <2>1, <3>1
    <3>2. CASE n > Len(o)
      BY <1>1, <2>1, <3>2
    <3> QED
      BY <1>1, <3>1, <3>2
  <2> QED
    BY <2>1, <2>2, <2>3
<1>9. client = "messages" => begun
  OBVIOUS
<1>10. Answers(client, begun, over, r)
  BY <1>5, <1>6, <1>7, <1>8, <1>9 DEF Answers
<1> QED
  BY <1>4, <1>10 DEF r

Names1 == {"message_start", "content_block_start", "content_block_stop", "message_delta",
           "message_stop", "finish", "[DONE]", "error"}

LEMMA PlainIs == ASSUME NEW name \in Names1 PROVE \E e \in Emitted : e = Plain(name) /\ e.event = name
<1>1. Plain(name) \in Emitted /\ Plain(name).event = name
  BY DEF Plain, Emitted, Names1
<1> QED
  BY <1>1

LEMMA TwoAndOne ==
  ASSUME NEW a \in Emitted, NEW b \in Emitted, NEW c \in Emitted
  PROVE  <<a, b>> \o <<c>> = <<a, b, c>>
<1> DEFINE t == <<a, b, c>>
           r == <<a, b>> \o <<c>>
<1>1. t \in Seq(Emitted) /\ Len(t) = 3 /\ t[1] = a /\ t[2] = b /\ t[3] = c
  OBVIOUS
<1>2. r \in Seq(Emitted) /\ Len(r) = 3 /\ r[1] = a /\ r[2] = b /\ r[3] = c
  OBVIOUS
<1> HIDE DEF t, r
<1>3. t = r
  BY <1>1, <1>2
<1> QED
  BY <1>3 DEF t, r

LEMMA OneAndThree ==
  ASSUME NEW a \in Emitted, NEW b \in Emitted, NEW c \in Emitted, NEW d \in Emitted
  PROVE  <<a>> \o <<b, c, d>> = <<a, b, c, d>>
<1> DEFINE t == <<a, b, c, d>>
           r == <<a>> \o <<b, c, d>>
<1>1. t \in Seq(Emitted) /\ Len(t) = 4 /\ t[1] = a /\ t[2] = b /\ t[3] = c /\ t[4] = d
  OBVIOUS
<1>2. r \in Seq(Emitted) /\ Len(r) = 4 /\ r[1] = a /\ r[2] = b /\ r[3] = c /\ r[4] = d
  OBVIOUS
<1> HIDE DEF t, r
<1>3. t = r
  BY <1>1, <1>2
<1> QED
  BY <1>3 DEF t, r

LEMMA OneMore ==
  ASSUME NEW client \in {"chat", "messages"}, NEW begun \in BOOLEAN, NEW over \in BOOLEAN,
         NEW o \in Seq(Emitted), NEW i \in Nat \ {0}, NEW e \in Emitted,
         Answers(client, begun, FALSE, o), UpToFrame(o, i - 1),
         client = "messages" => begun,
         e.event = "text" => e.frame = i, e.event # "message_start",
         over <=> e.event \in LastEvents(client)
  PROVE  Answers(client, begun, over, o \o <<e>>) /\ UpToFrame(o \o <<e>>, i) /\ o \o <<e>> \in Seq(Emitted)
<1>1. PICK t \in Seq(Emitted) :
      t = <<e>> /\ Len(t) = 1 /\ DOMAIN t = 1 .. 1 /\ t # <<>> /\ t[1] = e
  <2>1. PICK t : t = <<e>>
    OBVIOUS
  <2>2. t \in Seq(Emitted) /\ Len(t) = 1 /\ DOMAIN t = 1 .. 1 /\ t # <<>> /\ t[1] = e
    BY <2>1
  <2> QED
    BY <2>1, <2>2
<1>2. Continues(client, over, i, t)
  <2>1. ASSUME NEW n \in DOMAIN t PROVE n = 1 /\ t[n] = e
    BY <1>1
  <2> QED
    BY <1>1, <2>1 DEF Continues
<1>3. Answers(client, begun, over, o \o t) /\ UpToFrame(o \o t, i)
  BY <1>2, AnswerGoesOn
<1>4. o \o t \in Seq(Emitted) /\ t = <<e>>
  BY <1>1
<1> QED
  BY <1>3, <1>4

\* A stop without a text.
LEMMA OneEnd ==
  ASSUME NEW client \in {"chat", "messages"}, NEW begun \in BOOLEAN,
         NEW o \in Seq(Emitted), NEW t \in Seq(Emitted), NEW i \in Nat,
         Answers(client, begun, FALSE, o), UpToFrame(o, i),
         client = "messages" => begun,
         t # <<>>, t[Len(t)].event \in LastEvents(client),
         \A n \in 1 .. Len(t) - 1 : t[n].event \notin LastEvents(client) \cup {"message_start", "text"}
  PROVE  Answers(client, begun, TRUE, o \o t) /\ UpToFrame(o \o t, i + 1) /\ o \o t \in Seq(Emitted)
<1>1. i + 1 \in Nat \ {0} /\ (i + 1) - 1 = i
  OBVIOUS
<1>2. LastEvents(client) \cap {"text", "message_start"} = {}
  BY DEF LastEvents
<1>3. ASSUME NEW n \in DOMAIN t
      PROVE  /\ t[n].event \notin {"message_start", "text"}
             /\ t[n].event \in LastEvents(client) => n = Len(t)
  BY <1>2
<1>4. Continues(client, TRUE, i + 1, t)
  BY <1>3 DEF Continues
<1>5. Answers(client, begun, TRUE, o \o t) /\ UpToFrame(o \o t, i + 1)
  BY <1>1, <1>4, AnswerGoesOn
<1> QED
  BY <1>5, Joined

\* What a client of messages is told first.
LEMMA FirstText ==
  ASSUME NEW a \in Emitted, NEW b \in Emitted, NEW e \in Emitted, NEW i \in Nat,
         a.event = "message_start", b.event = "content_block_start", e.event = "text", e.frame = i
  PROVE  /\ Answers("messages", TRUE, FALSE, <<a, b, e>>) /\ UpToFrame(<<a, b, e>>, i)
         /\ <<a, b, e>> \in Seq(Emitted)
<1>1. PICK t \in Seq(Emitted) :
      t = <<a, b, e>> /\ Len(t) = 3 /\ DOMAIN t = 1 .. 3 /\ t # <<>> /\ t[1] = a /\ t[2] = b /\ t[3] = e
  <2>1. PICK t : t = <<a, b, e>>
    OBVIOUS
  <2>2. t \in Seq(Emitted) /\ Len(t) = 3 /\ DOMAIN t = 1 .. 3 /\ t # <<>> /\ t[1] = a /\ t[2] = b /\ t[3] = e
    BY <2>1
  <2> QED
    BY <2>1, <2>2
<1>2. Answers("messages", TRUE, FALSE, t) /\ UpToFrame(t, i)
  BY <1>1 DEF Answers, UpToFrame, LastEvents
<1> QED
  BY <1>1, <1>2

LEMMA FirstStop ==
  ASSUME NEW a \in Emitted, NEW b \in Emitted, NEW c \in Emitted, NEW d \in Emitted, NEW i \in Nat, NEW begun,
         a.event = "message_start", b.event = "content_block_stop", c.event = "message_delta",
         d.event = "message_stop"
  PROVE  /\ Answers("messages", begun, TRUE, <<a, b, c, d>>) /\ UpToFrame(<<a, b, c, d>>, i)
         /\ <<a, b, c, d>> \in Seq(Emitted)
<1>1. PICK t \in Seq(Emitted) :
      t = <<a, b, c, d>> /\ Len(t) = 4 /\ DOMAIN t = 1 .. 4 /\ t # <<>> /\ t[1] = a /\ t[2] = b /\ t[3] = c /\ t[4] = d
  <2>1. PICK t : t = <<a, b, c, d>>
    OBVIOUS
  <2>2. t \in Seq(Emitted) /\ Len(t) = 4 /\ DOMAIN t = 1 .. 4 /\ t # <<>> /\ t[1] = a /\ t[2] = b /\ t[3] = c /\ t[4] = d
    BY <2>1
  <2> QED
    BY <2>1, <2>2
<1>2. Answers("messages", begun, TRUE, t) /\ UpToFrame(t, i)
  BY <1>1 DEF Answers, UpToFrame, LastEvents
<1> QED
  BY <1>1, <1>2

LEMMA FirstError ==
  ASSUME NEW a \in Emitted, NEW i \in Nat, NEW begun, a.event = "error"
  PROVE  /\ Answers("messages", begun, TRUE, <<a>>) /\ UpToFrame(<<a>>, i)
         /\ <<a>> \in Seq(Emitted)
<1>1. PICK t \in Seq(Emitted) :
      t = <<a>> /\ Len(t) = 1 /\ DOMAIN t = 1 .. 1 /\ t # <<>> /\ t[1] = a
  <2>1. PICK t : t = <<a>>
    OBVIOUS
  <2>2. t \in Seq(Emitted) /\ Len(t) = 1 /\ DOMAIN t = 1 .. 1 /\ t # <<>> /\ t[1] = a
    BY <2>1
  <2> QED
    BY <2>1, <2>2
<1>2. Answers("messages", begun, TRUE, t) /\ UpToFrame(t, i)
  BY <1>1 DEF Answers, UpToFrame, LastEvents
<1> QED
  BY <1>1, <1>2

\* The end that is made up.
LEMMA Ending ==
  ASSUME NEW client \in {"chat", "messages"}, NEW begun \in BOOLEAN, NEW o \in Seq(Emitted),
         Answers(client, begun, FALSE, o), NEW i \in Nat, UpToFrame(o, i)
  PROVE  LET r == o \o Stop(client, begun)
         IN  Answers(client, begun, TRUE, r) /\ UpToFrame(r, i + 1) /\ r \in Seq(Emitted)
<1>1. PICK a \in Emitted : a = Plain("message_start") /\ a.event = "message_start"
  BY PlainIs DEF Names1
<1>2. PICK b \in Emitted : b = Plain("content_block_stop") /\ b.event = "content_block_stop"
  BY PlainIs DEF Names1
<1>3. PICK c \in Emitted : c = Plain("message_delta") /\ c.event = "message_delta"
  BY PlainIs DEF Names1
<1>4. PICK d \in Emitted : d = Plain("message_stop") /\ d.event = "message_stop"
  BY PlainIs DEF Names1
<1>5. PICK e \in Emitted : e = Plain("[DONE]") /\ e.event = "[DONE]"
  BY PlainIs DEF Names1
<1>6. CASE client = "chat"
  <2>1. Stop(client, begun) = <<e>>
    BY <1>5, <1>6 DEF Stop
  <2>2. i + 1 \in Nat \ {0} /\ (i + 1) - 1 = i /\ e.event \in LastEvents(client)
    BY <1>5, <1>6 DEF LastEvents
  <2>3. /\ Answers(client, begun, TRUE, o \o <<e>>) /\ UpToFrame(o \o <<e>>, i + 1)
        /\ o \o <<e>> \in Seq(Emitted)
    BY <1>5, <1>6, <2>2, OneMore
  <2> QED
    BY <2>1, <2>3
<1>7. CASE client = "messages" /\ begun
  <2>1. PICK t \in Seq(Emitted) :
        t = <<b, c, d>> /\ Len(t) = 3 /\ DOMAIN t = 1 .. 3 /\ t # <<>> /\ t[1] = b /\ t[2] = c /\ t[3] = d
    <3>1. PICK t : t = <<b, c, d>>
      OBVIOUS
    <3>2. t \in Seq(Emitted) /\ Len(t) = 3 /\ DOMAIN t = 1 .. 3 /\ t # <<>> /\ t[1] = b /\ t[2] = c /\ t[3] = d
      BY <3>1
    <3> QED
      BY <3>1, <3>2
  <2>2. Stop(client, begun) = t
    BY <1>2, <1>3, <1>4, <1>7, <2>1 DEF Stop, MessagesStop
  <2>3. t[Len(t)].event \in LastEvents(client)
    BY <1>4, <1>7, <2>1 DEF LastEvents
  <2>4. \A n \in 1 .. Len(t) - 1 : t[n].event \notin LastEvents(client) \cup {"message_start", "text"}
    BY <1>2, <1>3, <1>7, <2>1 DEF LastEvents
  <2>5. Answers(client, begun, TRUE, o \o t) /\ UpToFrame(o \o t, i + 1) /\ o \o t \in Seq(Emitted)
    BY <1>7, <2>1, <2>3, <2>4, OneEnd
  <2> QED
    BY <2>2, <2>5
<1>8. CASE client = "messages" /\ ~begun
  <2>1. o = <<>>
    BY <1>8 DEF Answers
  <2>2. Stop(client, begun) = <<a, b, c, d>>
    <3>1. Stop(client, begun) = <<a>> \o <<b, c, d>>
      BY <1>1, <1>2, <1>3, <1>4, <1>8 DEF Stop, MessagesStop
    <3>2. <<a>> \o <<b, c, d>> = <<a, b, c, d>>
      BY OneAndThree
    <3> QED
      BY <3>1, <3>2
  <2>3. /\ Answers("messages", begun, TRUE, <<a, b, c, d>>) /\ UpToFrame(<<a, b, c, d>>, i + 1)
        /\ <<a, b, c, d>> \in Seq(Emitted)
    <3>1. i + 1 \in Nat
      OBVIOUS
    <3> QED
      BY <1>1, <1>2, <1>3, <1>4, <3>1, FirstStop
  <2>4. o \o Stop(client, begun) = <<a, b, c, d>>
    BY <2>1, <2>2, <2>3
  <2> QED
    BY <1>8, <2>3, <2>4
<1> QED
  BY <1>6, <1>7, <1>8

\* What the i-th event makes of an answer without its end is an answer.
Fitting(client, begun, o, kind, e, i) ==
  LET s == Feed(client, [started |-> begun, done |-> FALSE, out |-> o], kind, e)
  IN  /\ s.done => Ends(kind)
      /\ Answers(client, s.started, s.done, s.out) /\ UpToFrame(s.out, i)

LEMMA Feeding ==
  ASSUME NEW client \in {"chat", "messages"}, NEW begun \in BOOLEAN, NEW o \in Seq(Emitted),
         NEW i \in Nat \ {0}, NEW e \in Emitted, e.event = "text", e.frame = i,
         NEW kind \in {"text", "completed", "failed", "error"},
         Answers(client, begun, FALSE, o), UpToFrame(o, i - 1)
  PROVE  Fitting(client, begun, o, kind, e, i)
<1> DEFINE s == Feed(client, [started |-> begun, done |-> FALSE, out |-> o], kind, e)
<1> SUFFICES /\ s.done => Ends(kind)
             /\ Answers(client, s.started, s.done, s.out) /\ UpToFrame(s.out, i)
  BY DEF Fitting
<1>1. PICK m \in Emitted : m = Plain("message_start") /\ m.event = "message_start"
  BY PlainIs DEF Names1
<1>2. PICK x \in Emitted : x = Plain("error") /\ x.event = "error"
  BY PlainIs DEF Names1
<1>3. CASE kind \in {"failed", "error"}
  <2>1. Fails(kind) /\ Ends(kind) /\ kind \notin {"text", "completed"}
    BY <1>3 DEF Fails, Ends
  <2>2. ToChat(kind, e) = <<x>> /\ ToMessages(kind, e, begun) = <<x>>
    BY <1>2, <1>3, <2>1 DEF ToChat, ToMessages, Ignored
  <2>3. s.out = o \o <<x>> /\ s.started = begun /\ s.done = TRUE
    BY <2>1, <2>2 DEF Feed, Begun
  <2>4. CASE client = "messages" => begun
    <3>1. x.event \in LastEvents(client)
      BY <1>2 DEF LastEvents
    <3>2. /\ Answers(client, begun, TRUE, o \o <<x>>) /\ UpToFrame(o \o <<x>>, i)
          /\ o \o <<x>> \in Seq(Emitted)
      BY <1>2, <2>4, <3>1, OneMore
    <3> QED
      BY <2>1, <2>3, <3>2
  <2>5. CASE client = "messages" /\ ~begun
    <3>1. o = <<>>
      BY <2>5 DEF Answers
    <3>2. Answers("messages", begun, TRUE, <<x>>) /\ UpToFrame(<<x>>, i) /\ <<x>> \in Seq(Emitted)
      BY <1>2, FirstError
    <3>3. s.out = <<x>>
      <4>1. <<>> \o <<x>> = <<x>>
        OBVIOUS
      <4> QED
        BY <2>3, <3>1, <4>1
    <3> QED
      BY <2>1, <2>3, <2>5, <3>2, <3>3
  <2> QED
    BY <2>4, <2>5
<1>4. CASE kind = "text"
  <2>1. ~Fails(kind) /\ ~Ends(kind)
    BY <1>4 DEF Fails, Ends
  <2>2. CASE client = "messages" => begun
    <3>1. (client = "chat" => ToChat(kind, e) = <<e>>) /\ (begun => ToMessages(kind, e, begun) = <<>> \o <<e>>)
      BY <1>4, <2>1 DEF ToChat, ToMessages, Ignored
    <3>2. <<>> \o <<e>> = <<e>>
      OBVIOUS
    <3>3. s.out = o \o <<e>> /\ s.started = begun /\ s.done = FALSE
      BY <1>4, <2>1, <2>2, <3>1, <3>2 DEF Feed, Begun
    <3>4. e.event \notin LastEvents(client)
      BY DEF LastEvents
    <3>5. /\ Answers(client, begun, FALSE, o \o <<e>>) /\ UpToFrame(o \o <<e>>, i)
          /\ o \o <<e>> \in Seq(Emitted)
      BY <2>2, <3>4, OneMore
    <3> QED
      BY <3>3, <3>5
  <2>3. CASE client = "messages" /\ ~begun
    <3>1. PICK b \in Emitted : b = Plain("content_block_start") /\ b.event = "content_block_start"
      BY PlainIs DEF Names1
    <3>2. ToMessages(kind, e, begun) = <<m, b>> \o <<e>>
      BY <1>1, <1>4, <2>1, <2>3, <3>1 DEF ToMessages, Ignored
    <3>3. <<m, b>> \o <<e>> = <<m, b, e>>
      BY TwoAndOne
    <3>4. o = <<>>
      BY <2>3 DEF Answers
    <3>5. /\ Answers("messages", TRUE, FALSE, <<m, b, e>>) /\ UpToFrame(<<m, b, e>>, i)
          /\ <<m, b, e>> \in Seq(Emitted)
      BY <1>1, <3>1, FirstText
    <3>6. o \o <<m, b, e>> = <<m, b, e>>
      BY <3>4, <3>5
    <3>7. s.out = <<m, b, e>> /\ s.started = TRUE /\ s.done = FALSE
      BY <1>4, <2>1, <2>3, <3>2, <3>3, <3>6 DEF Feed, Begun
    <3> QED
      BY <2>3, <3>5, <3>7
  <2> QED
    BY <2>2, <2>3
<1>5. CASE kind = "completed"
  <2>1. ~Fails(kind) /\ Ends(kind)
    BY <1>5 DEF Fails, Ends
  <2>2. CASE client = "chat"
    <3>1. PICK f \in Emitted : f = Plain("finish") /\ f.event = "finish"
      BY PlainIs DEF Names1
    <3>2. PICK d \in Emitted : d = Plain("[DONE]") /\ d.event = "[DONE]"
      BY PlainIs DEF Names1
    <3>3. PICK t \in Seq(Emitted) :
          t = <<f, d>> /\ Len(t) = 2 /\ DOMAIN t = 1 .. 2 /\ t # <<>> /\ t[1] = f /\ t[2] = d
      <4>1. PICK t : t = <<f, d>>
        OBVIOUS
      <4>2. t \in Seq(Emitted) /\ Len(t) = 2 /\ DOMAIN t = 1 .. 2 /\ t # <<>> /\ t[1] = f /\ t[2] = d
        BY <4>1
      <4> QED
        BY <4>1, <4>2
    <3>4. ToChat(kind, e) = t
      BY <1>5, <2>1, <3>1, <3>2, <3>3 DEF ToChat, Ignored
    <3>5. s.out = o \o t /\ s.started = begun /\ s.done = TRUE
      BY <2>1, <2>2, <3>4 DEF Feed, Begun
    <3>6. /\ t[Len(t)].event \in LastEvents(client)
          /\ \A n \in 1 .. Len(t) - 1 : t[n].event \notin LastEvents(client) \cup {"message_start", "text"}
      BY <2>2, <3>1, <3>2, <3>3 DEF LastEvents
    <3>7. i - 1 \in Nat /\ (i - 1) + 1 = i
      OBVIOUS
    <3>8. Answers(client, begun, TRUE, o \o t) /\ UpToFrame(o \o t, (i - 1) + 1) /\ o \o t \in Seq(Emitted)
      BY <2>2, <3>3, <3>6, <3>7, OneEnd
    <3> QED
      BY <2>1, <3>5, <3>7, <3>8
  <2>3. CASE client = "messages"
    <3>1. ToMessages(kind, e, begun) = Stop(client, begun)
      BY <1>5, <2>1, <2>3 DEF ToMessages, Ignored, Stop
    <3>2. s.out = o \o Stop(client, begun) /\ s.started = TRUE /\ s.done = TRUE
      BY <1>5, <2>1, <2>3, <3>1 DEF Feed, Begun
    <3>3. PICK j \in Nat : j = i - 1 /\ j + 1 = i
      OBVIOUS
    <3>4. PICK r : r = o \o Stop(client, begun)
      OBVIOUS
    <3>5. Answers(client, begun, TRUE, r) /\ UpToFrame(r, j + 1) /\ r \in Seq(Emitted)
      BY <3>3, <3>4, Ending
    <3>6. /\ Answers(client, begun, TRUE, s.out) /\ UpToFrame(s.out, i)
          /\ s.out \in Seq(Emitted)
      BY <3>2, <3>3, <3>4, <3>5
    <3>7. Answers(client, TRUE, TRUE, s.out)
      BY <3>6 DEF Answers
    <3> QED
      BY <2>1, <3>2, <3>6, <3>7
  <2> QED
    BY <2>2, <2>3
<1> QED
  BY <1>3, <1>4, <1>5

\* An event that is ignored adds nothing.
LEMMA FeedingNothing ==
  ASSUME NEW client \in {"chat", "messages"}, NEW begun \in BOOLEAN, NEW over \in BOOLEAN,
         NEW o \in Seq(Emitted), NEW kind \in Kinds, NEW text, Ignored(kind)
  PROVE  Feed(client, [started |-> begun, done |-> over, out |-> o], kind, text)
           = [started |-> begun, done |-> over, out |-> o]
<1>1. /\ kind \notin {"text", "completed"} /\ ~Fails(kind) /\ ~Ends(kind)
  BY DEF Ignored, Ends, Fails
<1>2. Begun(client, kind, begun) = begun /\ (over \/ Ends(kind)) = over
  BY <1>1 DEF Begun
<1>3. ToChat(kind, text) = <<>> /\ ToMessages(kind, text, begun) = <<>>
  BY <1>1 DEF ToChat, ToMessages
<1>4. o \o <<>> = o
  OBVIOUS
<1> QED
  BY <1>2, <1>3, <1>4 DEF Feed
-------------------------------------------------------------------------------
(***************************************************************************)
(* The steps of a stream                                                   *)
(***************************************************************************)
LEMMA ScriptFacts ==
  ASSUME StreamType
  PROVE  /\ script.frames \in Seq(Frames) /\ Len(script.frames) \in Nat
         /\ DOMAIN script.frames = 1 .. Len(script.frames)
         /\ \A i \in 1 .. Len(script.frames) : script.frames[i].kind \in Kinds
         /\ Size(script) \in 3 * Len(script.frames) - 1 .. 3 * Len(script.frames)
         /\ arrived \in 0 .. Size(script) /\ used \in 0 .. Len(script.frames)
         /\ Whole \in 0 .. Len(script.frames)
         /\ out \in Seq(Emitted) /\ started \in BOOLEAN /\ done \in BOOLEAN
<1>1. script.frames \in Seq(Frames)
  <2>1. script = NoScript \/ script \in Scripts
    BY DEF StreamType
  <2>2. CASE script = NoScript
    BY <2>2 DEF NoScript
  <2>3. CASE script \in Scripts
    BY <2>3, ScriptsAssumption
  <2> QED
    BY <2>1, <2>2, <2>3
<1>2. /\ Len(script.frames) \in Nat /\ DOMAIN script.frames = 1 .. Len(script.frames)
      /\ \A i \in 1 .. Len(script.frames) : script.frames[i] \in Frames
  BY <1>1
<1>3. \A i \in 1 .. Len(script.frames) : script.frames[i].kind \in Kinds
  BY <1>2 DEF Frames
<1>4. Size(script) \in 3 * Len(script.frames) - 1 .. 3 * Len(script.frames)
  <2>1. Size(script) = 3 * Len(script.frames) - 0 \/ Size(script) = 3 * Len(script.frames) - 1
    BY DEF Size
  <2> QED
    BY <1>2, <2>1
<1>5. arrived \in 0 .. Size(script) /\ used \in 0 .. Len(script.frames)
  BY DEF StreamType
<1>6. Whole \in 0 .. Len(script.frames)
  BY <1>2, <1>4, <1>5 DEF Whole
<1> QED
  BY <1>1, <1>2, <1>3, <1>4, <1>5, <1>6 DEF StreamType

LEMMA SizeIsNat ==
  ASSUME NEW s \in Scripts
  PROVE  Size(s) \in Nat /\ s.frames \in Seq(Frames)
<1>1. s.frames \in Seq(Frames)
  BY ScriptsAssumption
<1>2. Len(s.frames) \in Nat /\ (s.frames # <<>> => Len(s.frames) > 0)
  BY <1>1
<1> QED
  BY <1>1, <1>2 DEF Size

LEMMA StopIsEmitted ==
  ASSUME NEW client, NEW begun
  PROVE  Stop(client, begun) \in Seq(Emitted)
<1>1. \A name \in Names1 : Plain(name) \in Emitted
  BY DEF Plain, Emitted, Names1
<1>2. /\ Plain("message_start") \in Emitted /\ Plain("content_block_stop") \in Emitted
      /\ Plain("message_delta") \in Emitted /\ Plain("message_stop") \in Emitted /\ Plain("[DONE]") \in Emitted
  BY <1>1 DEF Names1
<1>3. MessagesStop(begun) \in Seq(Emitted)
  <2>1. /\ <<Plain("content_block_stop"), Plain("message_delta"), Plain("message_stop")>> \in Seq(Emitted)
        /\ <<Plain("message_start")>> \in Seq(Emitted) /\ <<>> \in Seq(Emitted)
    BY <1>2
  <2> QED
    BY <2>1, Joined DEF MessagesStop
<1>4. <<Plain("[DONE]")>> \in Seq(Emitted)
  BY <1>2
<1> QED
  BY <1>3, <1>4 DEF Stop

LEMMA FeedIsEmitted ==
  ASSUME NEW client, NEW begun \in BOOLEAN, NEW over \in BOOLEAN, NEW o \in Seq(Emitted),
         NEW kind \in Kinds, NEW e \in Emitted
  PROVE  LET s == Feed(client, [started |-> begun, done |-> over, out |-> o], kind, e)
         IN  s.out \in Seq(Emitted) /\ s.started \in BOOLEAN /\ s.done \in BOOLEAN
<1> DEFINE s == Feed(client, [started |-> begun, done |-> over, out |-> o], kind, e)
           t == IF client = "chat" THEN ToChat(kind, e) ELSE ToMessages(kind, e, begun)
<1>1. \A name \in Names1 : Plain(name) \in Emitted
  BY DEF Plain, Emitted, Names1
<1>2. /\ Plain("message_start") \in Emitted /\ Plain("content_block_start") \in Emitted
      /\ Plain("error") \in Emitted /\ Plain("finish") \in Emitted /\ Plain("[DONE]") \in Emitted
  BY <1>1 DEF Names1
<1>3. /\ <<>> \in Seq(Emitted) /\ <<Plain("error")>> \in Seq(Emitted) /\ <<e>> \in Seq(Emitted)
      /\ <<Plain("finish"), Plain("[DONE]")>> \in Seq(Emitted)
      /\ <<Plain("message_start"), Plain("content_block_start")>> \in Seq(Emitted)
      /\ MessagesStop(begun) \in Seq(Emitted)
  <2>1. Stop("messages", begun) = MessagesStop(begun)
    BY DEF Stop
  <2> QED
    BY <1>2, <2>1, StopIsEmitted
<1>4. Fails(kind) \/ kind \in {"text", "completed"} \/ Ignored(kind)
  BY DEF Ignored, Fails
<1>5. ToChat(kind, e) \in Seq(Emitted)
  <2>1. CASE Fails(kind)
    BY <1>3, <2>1 DEF ToChat, Fails, Ignored
  <2>2. CASE kind = "text"
    BY <1>3, <2>2 DEF ToChat, Fails, Ignored
  <2>3. CASE kind = "completed"
    BY <1>3, <2>3 DEF ToChat, Fails, Ignored
  <2>4. CASE Ignored(kind)
    BY <1>3, <2>4 DEF ToChat, Fails, Ignored
  <2> QED
    BY <1>4, <2>1, <2>2, <2>3, <2>4
<1>6. ToMessages(kind, e, begun) \in Seq(Emitted)
  <2>1. CASE Fails(kind)
    BY <1>3, <2>1 DEF ToMessages, Fails, Ignored
  <2>2. CASE kind = "text"
    <3>1. ToMessages(kind, e, begun) = (IF begun THEN <<>>
                                        ELSE <<Plain("message_start"), Plain("content_block_start")>>) \o <<e>>
      BY <2>2 DEF ToMessages, Fails, Ignored
    <3> QED
      BY <1>3, <3>1, Joined
  <2>3. CASE kind = "completed"
    BY <1>3, <2>3 DEF ToMessages, Fails, Ignored
  <2>4. CASE Ignored(kind)
    BY <1>3, <2>4 DEF ToMessages, Fails, Ignored
  <2> QED
    BY <1>4, <2>1, <2>2, <2>3, <2>4
<1>7. s.out = o \o t /\ s.started = Begun(client, kind, begun) /\ s.done = (over \/ Ends(kind))
  BY DEF Feed
<1>8. t \in Seq(Emitted)
  BY <1>5, <1>6
<1> HIDE DEF t, s
<1>9. s.out \in Seq(Emitted)
  BY <1>7, <1>8, Joined
<1>10. Begun(client, kind, begun) \in BOOLEAN /\ (over \/ Ends(kind)) \in BOOLEAN
  BY DEF Begun, Ends, Fails
<1> QED
  BY <1>7, <1>9, <1>10 DEF s

LEMMA FrameTextIs ==
  ASSUME NEW i \in Nat, NEW cut
  PROVE  FrameText(i, cut) \in Emitted /\ FrameText(i, cut).event = "text" /\ FrameText(i, cut).frame = i
BY DEF FrameText, Text, Emitted

\* A frame that is taken, whatever it is.
LEMMA TakeIs ==
  ASSUME StreamType, NEW i \in 1 .. Len(script.frames), Take(i)
  PROVE  /\ StreamNow' = Feed(endpoint, StreamNow, script.frames[i].kind, FrameText(i, hurt))
         /\ out' \in Seq(Emitted) /\ started' \in BOOLEAN /\ done' \in BOOLEAN
<1> DEFINE s == Feed(endpoint, StreamNow, script.frames[i].kind, FrameText(i, hurt))
<1>1. out' = s.out /\ started' = s.started /\ done' = s.done
  BY DEF Take, StreamNow
<1>2. s = [started |-> s.started, done |-> s.done, out |-> s.out]
  BY DEF Feed
<1>3. s.out \in Seq(Emitted) /\ s.started \in BOOLEAN /\ s.done \in BOOLEAN
  <2>1. i \in Nat /\ script.frames[i].kind \in Kinds /\ out \in Seq(Emitted) /\ started \in BOOLEAN /\ done \in BOOLEAN
    BY ScriptFacts
  <2>2. FrameText(i, hurt) \in Emitted
    BY <2>1, FrameTextIs
  <2> QED
    BY <2>1, <2>2, FeedIsEmitted DEF StreamNow
<1> HIDE DEF s
<1>4. StreamNow' = s
  BY <1>1, <1>2 DEF StreamNow
<1> QED
  BY <1>1, <1>3, <1>4 DEF s

LEMMA TakeFollows ==
  ASSUME StreamType, NEW i \in 1 .. Len(script.frames), Take(i), hurt = {},
         StreamNow = Fed(endpoint, script, {})[i - 1]
  PROVE  StreamNow' = Fed(endpoint, script, {})[i]
<1>1. Len(script.frames) \in Nat /\ i \in 0 .. Len(script.frames) /\ i # 0
  BY ScriptFacts
<1>2. Fed(endpoint, script, {})[i]
        = Feed(endpoint, Fed(endpoint, script, {})[i - 1], script.frames[i].kind, FrameText(i, {}))
  BY <1>1, FedEach
<1> QED
  BY <1>2, TakeIs

\* A frame that is taken is not one after the end of an orderly answer.
LEMMA TakeTells ==
  ASSUME StreamType, Telling, phase \in {"reading", "rest"}, endpoint \in {"chat", "messages"},
         Orderly(script), NEW i \in used + 1 .. Len(script.frames), Take(i)
  PROVE  /\ Answers(endpoint, started', done', out') /\ UpToFrame(out', i)
         /\ done' => \E k \in 1 .. i : Ends(script.frames[k].kind)
<1> DEFINE kind == script.frames[i].kind
           e    == FrameText(i, hurt)
           s    == Feed(endpoint, StreamNow, kind, e)
<1>1. /\ used \in Nat /\ i \in Nat \ {0} /\ i \in 1 .. Len(script.frames) /\ kind \in Kinds
      /\ Len(script.frames) \in Nat /\ used < i /\ DOMAIN script.frames = 1 .. Len(script.frames)
      /\ out \in Seq(Emitted) /\ started \in BOOLEAN /\ done \in BOOLEAN
  BY ScriptFacts
<1>2. out' = s.out /\ started' = s.started /\ done' = s.done
  BY DEF Take, StreamNow
<1>3. /\ Answers(endpoint, started, done, out) /\ UpToFrame(out, used)
      /\ done => \E k \in 1 .. used : Ends(script.frames[k].kind)
  BY DEF Telling
<1>4. UpToFrame(out, i - 1) /\ UpToFrame(out, i)
  <2>1. \A n \in DOMAIN out : out[n] \in Emitted
    BY <1>1
  <2>2. \A n \in DOMAIN out : out[n].frame \in Nat
    BY <2>1 DEF Emitted
  <2> QED
    BY <1>1, <1>3, <2>2 DEF UpToFrame
<1>5. done => Ignored(kind)
  <2> SUFFICES ASSUME done PROVE Ignored(kind)
    OBVIOUS
  <2>1. PICK k \in 1 .. used : Ends(script.frames[k].kind)
    BY <1>3
  <2>2. k \in DOMAIN script.frames /\ i \in DOMAIN script.frames /\ k < i
    BY <1>1
  <2> QED
    BY <2>1, <2>2 DEF Orderly
<1>6. CASE Ignored(kind)
  <2>1. s = StreamNow
    BY <1>1, <1>6, FeedingNothing DEF StreamNow
  <2>2. out' = out /\ started' = started /\ done' = done
    BY <1>2, <2>1 DEF StreamNow
  <2>3. done' => \E k \in 1 .. i : Ends(script.frames[k].kind)
    BY <1>1, <1>3, <2>2
  <2> QED
    BY <1>3, <1>4, <2>2, <2>3
<1>7. CASE ~Ignored(kind)
  <2>1. done = FALSE /\ kind \in {"text", "completed", "failed", "error"}
    BY <1>1, <1>5, <1>7 DEF Ignored
  <2>2. e \in Emitted /\ e.event = "text" /\ e.frame = i
    BY <1>1, FrameTextIs
  <2>3. StreamNow = [started |-> started, done |-> FALSE, out |-> out]
    BY <2>1 DEF StreamNow
  <2>4. Answers(endpoint, started, FALSE, out)
    BY <1>3, <2>1
  <2>5. Fitting(endpoint, started, out, kind, e, i)
    <3> HIDE DEF kind, e
    <3>1. /\ i \in Nat \ {0} /\ out \in Seq(Emitted) /\ started \in BOOLEAN
          /\ UpToFrame(out, i - 1) /\ kind \in {"text", "completed", "failed", "error"}
      BY <1>1, <1>4, <2>1
    <3>2. e \in Emitted /\ e.event = "text" /\ e.frame = i /\ endpoint \in {"chat", "messages"}
      BY <2>2
    <3>3. ASSUME NEW c \in {"chat", "messages"}, NEW b \in BOOLEAN, NEW o \in Seq(Emitted),
                 NEW k \in {"text", "completed", "failed", "error"}, NEW x \in Emitted,
                 x.event = "text", x.frame = i, Answers(c, b, FALSE, o), UpToFrame(o, i - 1)
          PROVE  Fitting(c, b, o, k, x, i)
      <4>1. i \in Nat \ {0}
        BY <3>1
      <4> HIDE DEF s
      <4> QED
        BY <3>3, <4>1, Feeding, ZenonT(30)
    <3> QED
      BY <2>4, <3>1, <3>2, <3>3
  <2>6. (s.done => Ends(kind)) /\ Answers(endpoint, s.started, s.done, s.out) /\ UpToFrame(s.out, i)
    <3> HIDE DEF kind, e
    <3> QED
      BY <2>3, <2>5 DEF Fitting
  <2>7. s.done => \E k \in 1 .. i : Ends(script.frames[k].kind)
    BY <1>1, <2>6
  <2> QED
    BY <1>2, <2>6, <2>7
<1> QED
  BY <1>6, <1>7

\* Whatever a step does to the request, the stream stays as it is.
LEMMA Elsewhere ==
  ASSUME IInv, UNCHANGED streamVars,
         phase = "waiting" \/ stage' \in {"streaming", "logged"},
         hurt = {} \/ stage' \notin {"asked", "normal", "sent"}
  PROVE  IInv'
<1>1. /\ script' = script /\ endpoint' = endpoint /\ arrived' = arrived /\ used' = used /\ hurt' = hurt
      /\ started' = started /\ done' = done /\ out' = out /\ phase' = phase
  BY DEF streamVars
<1>2. StreamNow' = StreamNow /\ Whole' = Whole /\ Found' = Found
  BY <1>1 DEF StreamNow, Whole, Found
<1>3. StreamType'
  BY <1>1 DEF IInv, StreamType
<1>4. Stages' /\ Taken'
  BY <1>1, <1>2 DEF IInv, Stages, Taken
<1>5. Follows'
  BY <1>1, <1>2 DEF IInv, Follows
<1>6. Telling'
  BY <1>1 DEF IInv, Telling
<1> QED
  BY <1>3, <1>4, <1>5, <1>6 DEF IInv

\* Where the script of a request is chosen.
LEMMA NewScript ==
  ASSUME IInv, phase = "waiting", script' \in Scripts, hurt' \subseteq DOMAIN script'.frames,
         UNCHANGED <<endpoint, arrived, used, started, done, out>>,
         phase' = "waiting" \/ (phase' = "reading" /\ hurt' = {} /\ endpoint \in {"chat", "messages"}),
         phase' = "waiting" \/ stage' = "streaming",
         phase' = "reading" \/ hurt' = {} \/ stage' \notin {"asked", "normal", "sent"}
  PROVE  IInv'
<1>1. arrived = 0 /\ used = 0 /\ started = FALSE /\ done = FALSE /\ out = <<>>
  BY DEF IInv, Stages, StreamNow, Fresh
<1>2. Size(script') \in Nat /\ Len(script'.frames) \in Nat
  BY SizeIsNat
<1>3. StreamType'
  <2>1. arrived' \in 0 .. Size(script)' /\ used' \in 0 .. Len(script.frames)'
    BY <1>1, <1>2
  <2>2. out' \in Seq(Emitted) /\ {started', done'} \subseteq BOOLEAN
    BY DEF IInv, StreamType
  <2>3. phase' \in {"waiting", "reading"}
    OBVIOUS
  <2> QED
    BY <2>1, <2>2, <2>3 DEF StreamType
<1>4. StreamNow' = Fresh
  BY <1>1 DEF StreamNow, Fresh
<1>5. Stages'
  BY <1>1, <1>4 DEF Stages
<1>6. Taken'
  BY <1>1 DEF Taken
<1>7. Follows'
  <2>1. Fed(endpoint', script', {})[0] = Fresh
    BY <1>2, FedEach
  <2> QED
    BY <1>1, <1>4, <2>1 DEF Follows
<1>8. Telling'
  <2>1. \A c : Answers(c, FALSE, FALSE, <<>>) /\ UpToFrame(<<>>, 0)
    BY DEF Answers, UpToFrame
  <2> QED
    BY <1>1, <2>1 DEF Telling
<1> QED
  BY <1>3, <1>5, <1>6, <1>7, <1>8 DEF IInv

LEMMA Arriving == IInv /\ Arrive /\ stage = "streaming" /\ stage' = stage => IInv'
<1> SUFFICES ASSUME IInv, Arrive, stage = "streaming", stage' = stage PROVE IInv'
  OBVIOUS
<1>1. /\ script' = script /\ endpoint' = endpoint /\ used' = used /\ phase = "reading" /\ phase' = phase
      /\ started' = started /\ done' = done /\ out' = out
      /\ arrived' \in arrived + 1 .. Size(script) /\ hurt \subseteq hurt' /\ hurt' \subseteq hurt \cup DOMAIN script.frames
  BY DEF Arrive
<1>2. /\ Size(script) \in Int /\ arrived \in Nat /\ used \in Nat
  BY ScriptFacts DEF IInv
<1>3. StreamNow' = StreamNow
  BY <1>1 DEF StreamNow
<1>4. StreamType'
  BY <1>1, <1>2 DEF IInv, StreamType
<1>5. Stages'
  BY <1>1 DEF IInv, Stages
<1>6. Taken'
  BY <1>1, <1>2 DEF IInv, Taken
<1>7. Follows'
  BY <1>1, <1>3 DEF IInv, Follows
<1>8. Telling'
  BY <1>1 DEF IInv, Telling
<1> QED
  BY <1>4, <1>5, <1>6, <1>7, <1>8 DEF IInv

LEMMA Translating == IInv /\ Translate /\ stage = "streaming" /\ stage' = stage => IInv'
<1> SUFFICES ASSUME IInv, Translate, stage = "streaming", stage' = stage PROVE IInv'
  OBVIOUS
<1>1. /\ script' = script /\ endpoint' = endpoint /\ used' = used + 1 /\ phase = "reading" /\ phase' = phase
      /\ arrived' = arrived /\ hurt' = hurt /\ 3 * (used + 1) <= arrived /\ Take(used + 1)
  BY DEF Translate, Found
<1>2. /\ Size(script) \in 3 * Len(script.frames) - 1 .. 3 * Len(script.frames)
      /\ arrived \in 0 .. Size(script) /\ used \in Nat /\ Len(script.frames) \in Nat
  BY ScriptFacts DEF IInv
<1>3. used + 1 \in 1 .. Len(script.frames) /\ used + 1 \in used + 1 .. Len(script.frames) /\ (used + 1) - 1 = used
  BY <1>1, <1>2
<1>4. out' \in Seq(Emitted) /\ started' \in BOOLEAN /\ done' \in BOOLEAN
  BY <1>1, <1>3, TakeIs DEF IInv
<1>5. StreamType'
  BY <1>1, <1>2, <1>3, <1>4 DEF IInv, StreamType
<1>6. Stages'
  BY <1>1 DEF IInv, Stages
<1>7. Taken'
  BY <1>1 DEF IInv, Taken
<1>8. Follows'
  <2>1. ASSUME hurt = {} PROVE StreamNow' = Fed(endpoint, script, {})[used + 1]
    <3>1. StreamNow = Fed(endpoint, script, {})[(used + 1) - 1]
      BY <1>1, <1>3, <2>1 DEF IInv, Follows
    <3> QED
      BY <1>1, <1>3, <2>1, <3>1, TakeFollows DEF IInv
  <2> QED
    BY <1>1, <2>1 DEF Follows
<1>9. Telling'
  <2>1. ASSUME Orderly(script)
        PROVE  /\ Answers(endpoint, started', done', out') /\ UpToFrame(out', used + 1)
               /\ done' => \E k \in 1 .. used + 1 : Ends(script.frames[k].kind)
    <3>1. endpoint \in {"chat", "messages"}
      BY <1>1 DEF IInv, Stages
    <3> QED
      BY <1>1, <1>3, <2>1, <3>1, TakeTells DEF IInv
  <2> QED
    BY <1>1, <2>1 DEF Telling
<1> QED
  BY <1>5, <1>6, <1>7, <1>8, <1>9 DEF IInv

LEMMA EndsComing == IInv /\ (UpstreamEnds \/ Break) /\ stage = "streaming" /\ stage' = stage => IInv'
<1> SUFFICES ASSUME IInv, UpstreamEnds \/ Break, stage = "streaming", stage' = stage PROVE IInv'
  OBVIOUS
<1>1. /\ script' = script /\ endpoint' = endpoint /\ arrived' = arrived /\ used' = used /\ hurt' = hurt
      /\ started' = started /\ done' = done /\ out' = out
      /\ phase = "reading" /\ ~Found /\ phase' \in {"rest", "broken"}
  BY DEF UpstreamEnds, Break
<1>2. StreamNow' = StreamNow /\ Found' = Found
  BY <1>1 DEF StreamNow, Found
<1>3. StreamType'
  BY <1>1 DEF IInv, StreamType
<1>4. Stages'
  BY <1>1 DEF IInv, Stages
<1>5. Taken'
  BY <1>1, <1>2 DEF IInv, Taken
<1>6. Follows'
  BY <1>1, <1>2 DEF IInv, Follows
<1>7. Telling'
  BY <1>1 DEF IInv, Telling
<1> QED
  BY <1>3, <1>4, <1>5, <1>6, <1>7 DEF IInv

\* What is left in pending is one event at the most, if its lines end in \n.
LEMMA RestIsOne ==
  ASSUME StreamType, Taken, phase = "rest", ~script.crlf
  PROVE  \/ Whole = used
         \/ /\ Whole = used + 1 /\ used + 1 \in 1 .. Len(script.frames) /\ 3 * (used + 1) - 1 <= arrived
            /\ \A i \in used + 1 .. Len(script.frames) : 3 * i - 1 <= arrived => i = used + 1
<1>1. /\ Size(script) \in 3 * Len(script.frames) - 1 .. 3 * Len(script.frames)
      /\ arrived \in 0 .. Size(script) /\ used \in 0 .. Len(script.frames) /\ Len(script.frames) \in Nat
  BY ScriptFacts
<1>2. 3 * used <= arrived /\ arrived < 3 * (used + 1)
  BY <1>1 DEF Taken, Found
<1>3. CASE arrived < 3 * used + 2
  BY <1>1, <1>2, <1>3 DEF Whole
<1>4. CASE arrived = 3 * used + 2
  <2>1. Whole = used + 1
    BY <1>1, <1>4 DEF Whole
  <2>2. used + 1 \in 1 .. Len(script.frames)
    BY <1>1, <1>4
  <2> QED
    BY <1>1, <1>4, <2>1, <2>2
<1> QED
  BY <1>1, <1>2, <1>3, <1>4

\* The event that is taken of what is left, if any.
TakesRest(i) ==
  /\ i \in used + 1 .. Len(script.frames) /\ 3 * i - 1 <= arrived
  /\ script.frames[i].kind \notin {"junk", "[DONE]"}
  /\ Take(i)

TakesNone ==
  /\ \A i \in used + 1 .. Len(script.frames) : 3 * i - 1 <= arrived => script.frames[i].kind \in {"junk", "[DONE]"}
  /\ UNCHANGED <<out, started, done>>

LEMMA RestIs == ASSUME Rest PROVE TakesNone \/ \E i \in used + 1 .. Len(script.frames) : TakesRest(i)
<1> DEFINE Parsed == {i \in used + 1 .. Len(script.frames) :
                        3 * i - 1 <= arrived /\ script.frames[i].kind \notin {"junk", "[DONE]"}}
<1>1. CASE Parsed = {}
  BY <1>1 DEF Rest, TakesNone
<1>2. CASE Parsed # {}
  <2>1. \E i \in Parsed : Take(i)
    BY <1>2 DEF Rest
  <2> QED
    BY <2>1 DEF TakesRest
<1> QED
  BY <1>1, <1>2

LEMMA RestFollows ==
  ASSUME IInv, Rest, hurt = {}, ~script.crlf
  PROVE  StreamNow' = Fed(endpoint, script, {})[Whole]
<1>1. /\ phase = "rest" /\ StreamType /\ Taken /\ endpoint \in {"chat", "messages"}
      /\ StreamNow = Fed(endpoint, script, {})[used]
  BY DEF Rest, IInv, Stages, Follows
<1>2. /\ used \in Nat /\ Len(script.frames) \in Nat /\ out \in Seq(Emitted) /\ started \in BOOLEAN /\ done \in BOOLEAN
      /\ \A i \in 1 .. Len(script.frames) : script.frames[i].kind \in Kinds
  BY <1>1, ScriptFacts
<1>3. CASE TakesNone
  <2>1. StreamNow' = StreamNow
    BY <1>3 DEF TakesNone, StreamNow
  <2>2. CASE Whole = used
    BY <1>1, <2>1, <2>2
  <2>3. CASE Whole = used + 1 /\ used + 1 \in 1 .. Len(script.frames) /\ 3 * (used + 1) - 1 <= arrived
    <3>1. used + 1 \in used + 1 .. Len(script.frames) /\ used + 1 \in 0 .. Len(script.frames)
          /\ used + 1 # 0 /\ (used + 1) - 1 = used
      BY <1>2, <2>3
    <3>2. script.frames[used + 1].kind \in Kinds /\ Ignored(script.frames[used + 1].kind)
      BY <1>2, <1>3, <2>3, <3>1 DEF TakesNone, Ignored
    <3>3. Fed(endpoint, script, {})[used + 1]
            = Feed(endpoint, StreamNow, script.frames[used + 1].kind, FrameText(used + 1, {}))
      BY <1>1, <1>2, <3>1, FedEach
    <3>4. Feed(endpoint, StreamNow, script.frames[used + 1].kind, FrameText(used + 1, {})) = StreamNow
      BY <1>1, <1>2, <3>2, FeedingNothing DEF StreamNow
    <3> QED
      BY <2>1, <2>3, <3>3, <3>4
  <2> QED
    BY <1>1, <2>2, <2>3, RestIsOne
<1>4. CASE \E i \in used + 1 .. Len(script.frames) : TakesRest(i)
  <2>1. PICK i \in used + 1 .. Len(script.frames) : TakesRest(i)
    BY <1>4
  <2>2. i \in 1 .. Len(script.frames) /\ 3 * i - 1 <= arrived /\ Take(i) /\ i # used
    BY <1>2, <2>1 DEF TakesRest
  <2>3. Whole = used + 1 /\ i = used + 1
    <3>1. Whole # used
      <4>1. arrived \in Nat
        BY <1>1, ScriptFacts
      <4> QED
        BY <1>2, <2>1, <2>2, <4>1 DEF Whole
    <3> QED
      BY <1>1, <2>2, <3>1, RestIsOne
  <2>4. i - 1 = used
    BY <1>2, <2>3
  <2> QED
    BY <1>1, <2>2, <2>3, <2>4, TakeFollows
<1> QED
  BY <1>3, <1>4, RestIs

LEMMA RestTells ==
  ASSUME IInv, Rest, Orderly(script)
  PROVE  Answers(endpoint, started', done', out') /\ UpToFrame(out', Len(script.frames))
<1>1. /\ phase = "rest" /\ StreamType /\ Telling /\ endpoint \in {"chat", "messages"}
      /\ Answers(endpoint, started, done, out) /\ UpToFrame(out, used)
  BY DEF Rest, IInv, Stages, Telling
<1>2. /\ used \in 0 .. Len(script.frames) /\ Len(script.frames) \in Nat /\ out \in Seq(Emitted)
  BY <1>1, ScriptFacts
<1>3. ASSUME NEW o \in Seq(Emitted), NEW i \in 0 .. Len(script.frames), UpToFrame(o, i)
      PROVE  UpToFrame(o, Len(script.frames))
  <2>1. \A n \in DOMAIN o : o[n] \in Emitted
    OBVIOUS
  <2>2. \A n \in DOMAIN o : o[n].frame \in Nat
    BY <2>1 DEF Emitted
  <2> QED
    BY <1>2, <1>3, <2>2 DEF UpToFrame
<1>4. CASE TakesNone
  BY <1>1, <1>2, <1>3, <1>4 DEF TakesNone
<1>5. CASE \E i \in used + 1 .. Len(script.frames) : TakesRest(i)
  <2>1. PICK i \in used + 1 .. Len(script.frames) : TakesRest(i)
    BY <1>5
  <2>2. i \in 1 .. Len(script.frames) /\ i \in 0 .. Len(script.frames) /\ Take(i)
    BY <1>2, <2>1 DEF TakesRest
  <2>3. out' \in Seq(Emitted)
    BY <1>1, <2>2, TakeIs
  <2>4. Answers(endpoint, started', done', out') /\ UpToFrame(out', i)
    BY <1>1, <2>1, <2>2, TakeTells
  <2> QED
    BY <1>3, <2>2, <2>3, <2>4
<1> QED
  BY <1>4, <1>5, RestIs

LEMMA Resting == IInv /\ Rest /\ stage = "streaming" /\ stage' = stage => IInv'
<1> SUFFICES ASSUME IInv, Rest, stage = "streaming", stage' = stage PROVE IInv'
  OBVIOUS
<1>1. /\ script' = script /\ endpoint' = endpoint /\ arrived' = arrived /\ used' = used /\ hurt' = hurt
      /\ phase = "rest" /\ phase' = "stop"
  BY DEF Rest
<1>2. out' \in Seq(Emitted) /\ started' \in BOOLEAN /\ done' \in BOOLEAN
  <2>1. CASE TakesNone
    BY <2>1 DEF TakesNone, IInv, StreamType
  <2>2. CASE \E i \in used + 1 .. Len(script.frames) : TakesRest(i)
    <3>1. PICK i \in used + 1 .. Len(script.frames) : TakesRest(i)
      BY <2>2
    <3>2. used \in Nat
      BY ScriptFacts DEF IInv
    <3>3. i \in 1 .. Len(script.frames) /\ Take(i)
      BY <3>1, <3>2 DEF TakesRest
    <3> QED
      BY <3>3, TakeIs DEF IInv
  <2> QED
    BY <2>1, <2>2, RestIs
<1>3. StreamType'
  BY <1>1, <1>2 DEF IInv, StreamType
<1>4. Stages'
  BY <1>1 DEF IInv, Stages
<1>5. Taken'
  BY <1>1 DEF IInv, Taken
<1>6. Follows'
  <2>1. Whole' = Whole
    BY <1>1 DEF Whole
  <2> QED
    BY <1>1, <2>1, RestFollows DEF Follows
<1>7. Telling'
  BY <1>1, RestTells DEF Telling
<1> QED
  BY <1>3, <1>4, <1>5, <1>6, <1>7 DEF IInv

LEMMA Ended == IInv /\ MakeEnd /\ stage = "streaming" /\ stage' = stage => IInv'
<1> SUFFICES ASSUME IInv, MakeEnd, stage = "streaming", stage' = stage PROVE IInv'
  OBVIOUS
<1>1. /\ script' = script /\ endpoint' = endpoint /\ arrived' = arrived /\ used' = used /\ hurt' = hurt
      /\ started' = started /\ done' = done /\ phase = "stop" /\ phase' = "ended"
      /\ out' = Finish(endpoint, StreamNow).out /\ endpoint \in {"chat", "messages"}
  BY DEF MakeEnd, StreamNow, IInv, Stages
<1>2. /\ Len(script.frames) \in Nat /\ out \in Seq(Emitted) /\ started \in BOOLEAN /\ done \in BOOLEAN
  BY ScriptFacts DEF IInv
<1>3. done => out' = out
  BY <1>1 DEF Finish, StreamNow
<1>4. ~done => out' = out \o Stop(endpoint, started)
  BY <1>1 DEF Finish, StreamNow
<1>5. out' \in Seq(Emitted)
  BY <1>2, <1>3, <1>4, StopIsEmitted, Joined
<1>6. StreamType'
  BY <1>1, <1>5 DEF IInv, StreamType
<1>7. Stages'
  BY <1>1 DEF IInv, Stages
<1>8. Taken'
  BY <1>1 DEF IInv, Taken
<1>9. Follows'
  <2>1. Whole' = Whole
    BY <1>1 DEF Whole
  <2>2. ASSUME hurt = {}, ~script.crlf PROVE StreamNow = Fed(endpoint, script, {})[Whole]
    BY <1>1, <2>2 DEF IInv, Follows
  <2> QED
    BY <1>1, <2>1, <2>2 DEF Follows
<1>10. Telling'
  <2>1. ASSUME Orderly(script) PROVE Answers(endpoint, started, TRUE, out')
    <3>1. Answers(endpoint, started, done, out) /\ UpToFrame(out, Len(script.frames))
      BY <1>1, <2>1 DEF IInv, Telling
    <3>2. CASE done
      <4>1. done = TRUE
        BY <1>2, <3>2
      <4> QED
        BY <1>3, <3>1, <3>2, <4>1
    <3>3. CASE ~done
      <4>1. Answers(endpoint, started, FALSE, out)
        BY <1>2, <3>1, <3>3
      <4> QED
        BY <1>1, <1>2, <1>4, <3>1, <3>3, <4>1, Ending
    <3> QED
      BY <3>2, <3>3
  <2> QED
    BY <1>1, <2>1 DEF Telling
<1> QED
  BY <1>6, <1>7, <1>8, <1>9, <1>10 DEF IInv
-------------------------------------------------------------------------------
(***************************************************************************)
(* Every step                                                              *)
(***************************************************************************)
LEMMA Initially == Init => IInv
<1> SUFFICES ASSUME Init PROVE IInv
  OBVIOUS
<1>1. /\ script = NoScript /\ arrived = 0 /\ used = 0 /\ hurt = {} /\ started = FALSE /\ done = FALSE
      /\ out = <<>> /\ phase = "waiting" /\ stage = "asked"
  BY DEF Init, StreamInit
<1>2. NoScript.frames = <<>> /\ Len(NoScript.frames) = 0
  BY DEF NoScript
<1>3. Size(NoScript) = 0
  BY <1>2 DEF Size
<1>4. StreamType
  <2>1. arrived \in 0 .. Size(script) /\ used \in 0 .. Len(script.frames)
    BY <1>1, <1>2, <1>3
  <2>2. out \in Seq(Emitted)
    <3>1. <<>> \in Seq(Emitted)
      OBVIOUS
    <3> QED
      BY <1>1, <3>1
  <2>3. {started, done} \subseteq BOOLEAN
    BY <1>1
  <2>4. hurt \subseteq DOMAIN script.frames
    BY <1>1
  <2>5. script = NoScript /\ phase = "waiting"
    BY <1>1
  <2> QED
    BY <2>1, <2>2, <2>3, <2>4, <2>5 DEF StreamType
<1>5. StreamNow = Fresh
  BY <1>1 DEF StreamNow, Fresh
<1> QED
  BY <1>1, <1>4, <1>5 DEF IInv, Stages, Taken, Follows, Telling

LEMMA Steps == IInv /\ [Next]_vars => IInv'
<1> SUFFICES ASSUME IInv, [Next]_vars PROVE IInv'
  OBVIOUS
<1>1. stage \notin {"streaming", "logged"} => phase = "waiting"
  BY DEF IInv, Stages
<1>2. stage \in {"asked", "normal", "sent"} => hurt = {}
  BY DEF IInv, Stages
<1>3. CASE Normalize
  BY <1>1, <1>2, <1>3, Elsewhere DEF Normalize
<1>4. ASSUME NEW p \in Providers, Send(p) PROVE IInv'
  BY <1>1, <1>2, <1>4, Elsewhere DEF Send
<1>5. CASE AnswerWhole
  BY <1>1, <1>2, <1>5, Elsewhere DEF AnswerWhole
<1>6. CASE AnswerEvents
  <2>1. /\ stage = "sent" /\ stage' = "replied" /\ script' \in Scripts
        /\ UNCHANGED <<endpoint, arrived, used, hurt, started, done, out, phase>>
    BY <1>6 DEF AnswerEvents
  <2> QED
    BY <1>1, <1>2, <2>1, NewScript
<1>7. CASE Collect
  <2>1. /\ stage = "sent" /\ stage' = "collected" /\ script' \in Scripts
        /\ hurt' \subseteq DOMAIN script'.frames
        /\ UNCHANGED <<endpoint, arrived, used, started, done, out, phase>>
    BY <1>7 DEF Collect
  <2> QED
    BY <1>1, <2>1, NewScript
<1>8. CASE StreamAdapted
  <2>1. /\ stage = "sent" /\ stage' = "streaming" /\ script' \in Scripts /\ endpoint \in {"chat", "messages"}
        /\ phase' = "reading" /\ UNCHANGED <<endpoint, arrived, used, hurt, started, done, out>>
    BY <1>8 DEF StreamAdapted, Open, Adapts
  <2> QED
    BY <1>1, <1>2, <2>1, NewScript
<1>9. CASE StreamRelayed
  BY <1>1, <1>2, <1>9, Elsewhere DEF StreamRelayed
<1>10. CASE Answer
  BY <1>1, <1>10, Elsewhere DEF Answer
<1>11. CASE Stream
  <2>1. stage = "streaming" /\ stage' = stage /\ Reading
    BY <1>11 DEF Stream, exchangeVars
  <2> QED
    BY <2>1, Arriving, Translating, EndsComing, Resting, Ended DEF Reading
<1>12. CASE LogStream
  BY <1>12, Elsewhere DEF LogStream
<1>13. CASE UNCHANGED vars
  <2>1. UNCHANGED streamVars /\ stage' = stage
    BY <1>13 DEF vars, exchangeVars
  <2> QED
    BY <1>1, <1>2, <2>1, Elsewhere
<1> QED
  BY <1>3, <1>4, <1>5, <1>6, <1>7, <1>8, <1>9, <1>10, <1>11, <1>12, <1>13 DEF Next

\* Every state of a stream is the one that the events so far give, and an answer so far.
THEOREM InductiveInvariant == Spec => []IInv
BY Initially, Steps, PTL DEF Spec

\* For any scripts, the state of a stream has its type: what has come in is never more than there
\* is, and only whole frames of it are taken (responses_sse_to_endpoint_stream's loop,
\* service.rs:2240-2256).
THEOREM StreamTypeCorrect == Spec => []StreamType
<1>1. IInv => StreamType
  BY DEF IInv
<1> QED
  BY <1>1, InductiveInvariant, PTL

\* For any scripts, cut into any chunks and ended anywhere, a client that reads along gets what
\* the events that came in give when they come as one body (service.rs:2251-2272 against
\* responses_sse_transcript_to_endpoint_stream_text).
THEOREM LiveStreamsAreWhole == Spec => []LiveIsWhole
<1>1. IInv => LiveIsWhole
  <2> SUFFICES ASSUME IInv, phase = "ended", ~script.crlf, hurt = {}
               PROVE  out = Transcript(endpoint, CameIn(script, arrived), {})
    BY DEF LiveIsWhole
  <2> DEFINE t == CameIn(script, arrived)
  <2>1. /\ script.frames \in Seq(Frames) /\ Len(script.frames) \in Nat /\ Whole \in 0 .. Len(script.frames)
    BY ScriptFacts DEF IInv
  <2>2. t.frames = SubSeq(script.frames, 1, Whole)
    <3>1. script \in [frames : Seq(Frames), crlf : BOOLEAN, closed : BOOLEAN, full : BOOLEAN]
      <4>1. NoScript \in [frames : Seq(Frames), crlf : BOOLEAN, closed : BOOLEAN, full : BOOLEAN]
        BY DEF NoScript
      <4>2. script \in Scripts \/ script = NoScript
        BY DEF IInv, StreamType
      <4> QED
        BY <4>1, <4>2, ScriptsAssumption
    <3> QED
      BY <3>1 DEF CameIn, Whole
  <2>3. Len(t.frames) = Whole /\ \A i \in 1 .. Whole : t.frames[i] = script.frames[i]
    BY <2>1, <2>2
  <2>4. Fed(endpoint, t, {})[Whole] = Fed(endpoint, script, {})[Whole]
    <3> HIDE DEF t
    <3>1. Len(t.frames) \in Nat /\ Len(t.frames) <= Len(script.frames) /\ Whole \in 0 .. Len(t.frames)
      BY <2>1, <2>3
    <3> QED
      BY <2>1, <2>3, <3>1, FedPrefix
  <2>5. out = Finish(endpoint, Fed(endpoint, script, {})[Whole]).out
    BY DEF IInv, Follows
  <2> QED
    BY <2>3, <2>4, <2>5 DEF Transcript
<1> QED
  BY <1>1, InductiveInvariant, PTL

\* For any scripts that do not go on after their own end, a client sees one answer, opened once and
\* before its text, and ended once and last, with the text's pieces in order, at every moment and
\* wherever the upstream has stopped (service.rs:2387-2455, 2488-2517).
THEOREM WellFormedAnswers == Spec => []WellFormed
<1>1. IInv => WellFormed
  <2> SUFFICES ASSUME IInv, Orderly(script) PROVE WellFormed
    BY DEF WellFormed
  <2>1. out \in Seq(Emitted) /\ Len(out) \in Nat /\ DOMAIN out = 1 .. Len(out)
    BY DEF IInv, StreamType
  <2>2. CASE phase = "waiting"
    <3>1. out = <<>>
      BY <2>2 DEF IInv, Stages, StreamNow, Fresh
    <3>2. \A name : Positions(name) = {}
      BY <3>1 DEF Positions
    <3>3. Cardinality(Positions("message_start")) = 0
      BY <3>2, FS_EmptySet
    <3> QED
      BY <2>2, <3>1, <3>2, <3>3 DEF WellFormed
  <2>3. CASE phase # "waiting"
    <3>1. PICK over \in BOOLEAN : Answers(endpoint, started, over, out) /\ (phase = "ended" => over)
      <4>1. CASE phase = "ended"
        BY <2>3, <4>1 DEF IInv, Telling
      <4>2. CASE phase # "ended"
        BY <2>3, <4>2 DEF IInv, Telling, StreamType
      <4> QED
        BY <4>1, <4>2
    <3>2. Over = LastEvents(endpoint)
      BY DEF Over, LastEvents
    <3>3. \A i, j \in Positions("text") : i < j => out[i].frame < out[j].frame
      BY <3>1 DEF Answers, Positions
    <3>4. \A i, j \in DOMAIN out : out[i].event \in Over => j <= i
      BY <2>1, <3>1, <3>2 DEF Answers
    <3>5. phase = "ended" => out # <<>> /\ Last(out).event \in Over
      BY <3>1, <3>2 DEF Answers, Last
    <3>6. ASSUME endpoint = "messages"
          PROVE  /\ Cardinality(Positions("message_start")) <= 1
                 /\ \A i \in DOMAIN out : out[i].event # "error" =>
                      \E j \in 1 .. i : out[j].event = "message_start"
                 /\ \A i \in Positions("text") : \E j \in 1 .. i : out[j].event = "content_block_start"
      <4>1. /\ \A n \in DOMAIN out : /\ out[n].event = "message_start" => n = 1
                                     /\ out[n].event = "text" => n > 2 /\ out[2].event = "content_block_start"
            /\ out = <<>> \/ out[1].event = "message_start" \/ (Len(out) = 1 /\ out[1].event = "error")
        BY <3>1, <3>6 DEF Answers
      <4>2. Cardinality(Positions("message_start")) <= 1
        <5>1. Positions("message_start") \subseteq {1}
          BY <4>1 DEF Positions
        <5>2. IsFiniteSet({1}) /\ Cardinality({1}) = 1
          BY FS_Singleton
        <5> QED
          BY <5>1, <5>2, FS_Subset
      <4>3. ASSUME NEW i \in DOMAIN out, out[i].event # "error"
            PROVE  \E j \in 1 .. i : out[j].event = "message_start"
        BY <2>1, <4>1, <4>3
      <4>4. ASSUME NEW i \in Positions("text")
            PROVE  \E j \in 1 .. i : out[j].event = "content_block_start"
        BY <2>1, <4>1 DEF Positions
      <4> QED
        BY <4>2, <4>3, <4>4
    <3> QED
      BY <3>3, <3>4, <3>5, <3>6 DEF WellFormed
  <2> QED
    BY <2>2, <2>3
<1> QED
  BY <1>1, InductiveInvariant, PTL
-------------------------------------------------------------------------------
(***************************************************************************)
(* What is sent and what comes back                                        *)
(***************************************************************************)
PassedNow   == PassedOn(carried.headers)
UpstreamOf(p) == UpstreamEndpoint(endpoint, FromProvider(p))
BodyFor(p)  == TranslateRequest(DetectSource(endpoint, normal), FromProvider(p), normal)
FinalFor(p) ==
  IF NeedsInjection(FromProvider(p), PassedNow) THEN InjectBody(Prepared(endpoint, p, BodyFor(p), normal))
  ELSE Prepared(endpoint, p, BodyFor(p), normal)
SentTo(p)   == ForceStream(Resolved(p), UpstreamOf(p), WithModel(FinalFor(p)))
CalledAt(p) == CallTo(Resolved(p), Added(p, PassedNow), UpstreamOf(p), SentTo(p))

\* Once a request is normal its model's name can be split, and what is sent is what Send has sent.
AsSent ==
  /\ stage = "normal" \/ IsSent =>
       /\ normal = NormalizeRequest(endpoint, asked)
       /\ ~Bad(normal) /\ ~Bad(SplitModel(normal.model))
  /\ IsSent => /\ provider \in Matching(Usable, SplitModel(normal.model))
               /\ ~Bad(BodyFor(provider))
               /\ sent = SentTo(provider)
               /\ call = CalledAt(provider)

\* An answer that has come whole, and one that Codex has streamed.
CameWhole ==
  \/ endpoint = "search" /\ reply \in Findings(provider.name)
  \/ endpoint # "search" /\ reply \in Replies(Speaks(endpoint, provider))
  \/ endpoint # "search" /\ reply = Events /\ Speaks(endpoint, provider) = "responses"
CameStreamed == reply = Events /\ Collects /\ Speaks(endpoint, provider) = "responses"

\* The client's answer is made of the upstream's, and its cost is counted.
AsAnswered ==
  /\ stage = "replied" => CameWhole
  /\ stage = "collected" => CameStreamed
  /\ stage = "answered" =>
       /\ ~Bad(answer) /\ counted = ExtractUsage(answer)
       /\ (CameWhole /\ answer = Buffered) \/ (CameStreamed /\ answer = Collected)
  /\ stage = "logged" => counted = SseUsage(script, arrived)
  /\ stage \notin {"answered", "logged"} => counted = NoUsage

Staged ==
  /\ stage \in {"asked", "normal", "refused", "sent", "replied", "collected", "answered", "failed",
                "streaming", "relayed", "logged"}
  /\ [client |-> endpoint, body |-> asked] ++ carried \in Requests
  /\ provider \in Providers \cup {Nothing}
  /\ stage \in {"streaming", "logged"} => phase # "waiting"

Exchanged == IInv /\ Staged /\ AsSent /\ AsAnswered

LEMMA MatchingIsOfThem == ASSUME NEW S, NEW m PROVE Matching(S, m) \subseteq S
BY DEF Matching, ForBareModel

LEMMA ExchangeStarts == Init => Exchanged
<1> SUFFICES ASSUME Init PROVE Exchanged
  OBVIOUS
<1>1. stage = "asked" /\ counted = NoUsage /\ provider = Nothing
  BY DEF Init
<1>2. [client |-> endpoint, body |-> asked] ++ carried \in Requests
  <2>1. PICK r \in Requests : endpoint = r.client /\ asked = r.body /\ carried = Only(r, {"headers", "suffix"})
    BY DEF Init
  <2>2. r = [client |-> r.client, body |-> r.body, headers |-> r.headers, suffix |-> r.suffix]
    BY RequestsAssumption
  <2>3. carried = [headers |-> r.headers, suffix |-> r.suffix]
    BY <2>1, <2>2 DEF Only
  <2>4. [client |-> endpoint, body |-> asked] ++ carried = r
    BY <2>1, <2>2, <2>3 DEF ++
  <2> QED
    BY <2>4
<1>3. Staged
  BY <1>1, <1>2 DEF Staged
<1> QED
  BY <1>1, <1>3, Initially DEF Exchanged, AsSent, IsSent, AsAnswered

LEMMA AsSentStays ==
  UNCHANGED <<endpoint, request>> /\ AsSent /\ (IsSent' => IsSent) /\ stage' # "normal" => AsSent'
BY DEF request, AsSent, SentTo, CalledAt, BodyFor, FinalFor, PassedNow, UpstreamOf, Usable, WithModel, CallTo

LEMMA AnswersStay ==
  UNCHANGED <<endpoint, request, reply, script, hurt>> =>
    /\ CameWhole' <=> CameWhole
    /\ CameStreamed' <=> CameStreamed
    /\ Buffered' = Buffered /\ Collected' = Collected
<1> SUFFICES ASSUME UNCHANGED <<endpoint, request, reply, script, hurt>>
             PROVE  /\ CameWhole' <=> CameWhole
                    /\ CameStreamed' <=> CameStreamed
                    /\ Buffered' = Buffered /\ Collected' = Collected
  OBVIOUS
<1>1. /\ endpoint' = endpoint /\ normal' = normal /\ provider' = provider /\ sent' = sent
      /\ reply' = reply /\ script' = script /\ hurt' = hurt
  BY DEF request
<1>2. Streams' = Streams
  BY <1>1 DEF Streams
<1>3. CameWhole' <=> CameWhole
  BY <1>1 DEF CameWhole
<1>4. CameStreamed' <=> CameStreamed
  BY <1>1, <1>2 DEF CameStreamed, Collects
<1>5. Rebuilt' = Rebuilt
  BY <1>1 DEF Rebuilt
<1>6. \A body : ResponsesSuccess(body)' = ResponsesSuccess(body)
  BY <1>2, <1>5 DEF ResponsesSuccess
<1>7. Received' = Received
  BY <1>1 DEF Received
<1>8. SameDialect' = SameDialect
  BY <1>1, <1>2, <1>5, <1>7 DEF SameDialect, ResponsesSuccess
<1>9. ForAdapt' = ForAdapt
  BY <1>1, <1>2, <1>5, <1>7 DEF ForAdapt, ResponsesSuccess
<1>10. OtherDialect' = OtherDialect
  BY <1>1, <1>2, <1>5, <1>9 DEF OtherDialect, ResponsesSuccess
<1>11. Buffered' = Buffered
  BY <1>1, <1>8, <1>10 DEF Buffered
<1>12. Collected' = Collected
  BY <1>1, <1>5 DEF Collected
<1> QED
  BY <1>3, <1>4, <1>11, <1>12

\* The stages that a step leads to.
LEMMA ExchangeSteps == Exchanged /\ [Next]_vars => Exchanged'
<1> SUFFICES ASSUME Exchanged, [Next]_vars PROVE Exchanged'
  OBVIOUS
<1>1. IInv'
  BY Steps DEF Exchanged
<1>2. Staged /\ AsSent /\ AsAnswered
  BY DEF Exchanged
<1>3. SUFFICES Staged' /\ AsSent' /\ AsAnswered'
  BY <1>1 DEF Exchanged
<1>4. CASE Normalize
  <2>1. /\ stage = "asked" /\ stage' \in {"refused", "normal"} /\ counted' = counted
        /\ UNCHANGED <<endpoint, asked, carried, provider>>
    BY <1>4 DEF Normalize, streamVars
  <2>2. stage' = "normal" => /\ normal' = NormalizeRequest(endpoint, asked)
                             /\ ~Bad(normal') /\ ~Bad(SplitModel(normal'.model))
    BY <1>4 DEF Normalize
  <2>3. Staged'
    BY <1>2, <2>1 DEF Staged
  <2>4. AsSent'
    BY <2>1, <2>2 DEF AsSent, IsSent
  <2> QED
    BY <1>2, <2>1, <2>3, <2>4 DEF AsAnswered
<1>5. ASSUME NEW p \in Providers, Send(p) PROVE Staged' /\ AsSent' /\ AsAnswered'
  <2>1. /\ stage = "normal" /\ stage' \in {"refused", "sent"} /\ counted' = counted /\ provider' = p
        /\ UNCHANGED <<endpoint, asked, carried, down, normal>>
        /\ p \in Matching(Usable, SplitModel(normal.model))
    BY <1>5 DEF Send, streamVars
  <2>2. stage' = "sent" => ~Bad(BodyFor(p)) /\ sent' = SentTo(p) /\ call' = CalledAt(p)
    BY <1>5 DEF Send, SentTo, CalledAt, BodyFor, FinalFor, PassedNow, UpstreamOf
  <2>3. Staged'
    BY <1>2, <2>1 DEF Staged
  <2>4. normal = NormalizeRequest(endpoint, asked) /\ ~Bad(normal) /\ ~Bad(SplitModel(normal.model))
    BY <1>2, <2>1 DEF AsSent
  <2>5. Usable' = Usable /\ BodyFor(p)' = BodyFor(p) /\ SentTo(p)' = SentTo(p) /\ CalledAt(p)' = CalledAt(p)
    BY <2>1 DEF Usable, SentTo, CalledAt, BodyFor, FinalFor, PassedNow, UpstreamOf, WithModel, CallTo
  <2>6. AsSent'
    BY <2>1, <2>2, <2>4, <2>5 DEF AsSent, IsSent
  <2> QED
    BY <1>2, <2>1, <2>3, <2>6 DEF AsAnswered
<1>6. CASE AnswerWhole
  <2>1. /\ stage = "sent" /\ stage' = "replied" /\ counted' = counted
        /\ UNCHANGED <<endpoint, request>>
        /\ UNCHANGED <<asked, carried, provider, phase>>
    BY <1>6 DEF AnswerWhole, streamVars, request
  <2>2. CameWhole'
    BY <1>6 DEF AnswerWhole, CameWhole, request, streamVars
  <2>3. Staged'
    BY <1>2, <2>1 DEF Staged
  <2>4. AsSent'
    BY <1>2, <2>1, AsSentStays DEF IsSent
  <2> QED
    BY <1>2, <2>1, <2>2, <2>3, <2>4 DEF AsAnswered
<1>7. CASE AnswerEvents
  <2>1. /\ stage = "sent" /\ stage' = "replied" /\ counted' = counted
        /\ UNCHANGED <<endpoint, request>>
        /\ UNCHANGED <<asked, carried, provider, phase>>
    BY <1>7 DEF AnswerEvents, request
  <2>2. CameWhole'
    BY <1>7, <2>1 DEF AnswerEvents, CameWhole
  <2>3. Staged'
    BY <1>2, <2>1 DEF Staged
  <2>4. AsSent'
    BY <1>2, <2>1, AsSentStays DEF IsSent
  <2> QED
    BY <1>2, <2>1, <2>2, <2>3, <2>4 DEF AsAnswered
<1>8. CASE Collect
  <2>1. /\ stage = "sent" /\ stage' = "collected" /\ counted' = counted
        /\ UNCHANGED <<endpoint, request>>
        /\ UNCHANGED <<asked, carried, normal, provider, phase>>
    BY <1>8 DEF Collect, request
  <2>2. CameStreamed'
    BY <1>8, <2>1 DEF Collect, CameStreamed, Collects, Streams
  <2>3. Staged'
    BY <1>2, <2>1 DEF Staged
  <2>4. AsSent'
    BY <1>2, <2>1, AsSentStays DEF IsSent
  <2> QED
    BY <1>2, <2>1, <2>2, <2>3, <2>4 DEF AsAnswered
<1>9. CASE StreamAdapted
  <2>1. /\ stage = "sent" /\ stage' = "streaming" /\ counted' = counted /\ phase' = "reading"
        /\ UNCHANGED <<endpoint, request>>
        /\ UNCHANGED <<asked, carried, provider>>
    BY <1>9 DEF StreamAdapted, Open, request
  <2>2. Staged'
    BY <1>2, <2>1 DEF Staged
  <2>3. AsSent'
    BY <1>2, <2>1, AsSentStays DEF IsSent
  <2> QED
    BY <1>2, <2>1, <2>2, <2>3 DEF AsAnswered
<1>10. CASE StreamRelayed
  <2>1. /\ stage = "sent" /\ stage' = "relayed" /\ counted' = counted
        /\ UNCHANGED <<endpoint, request>>
        /\ UNCHANGED <<asked, carried, provider, phase>>
    BY <1>10 DEF StreamRelayed, streamVars, request
  <2>2. Staged'
    BY <1>2, <2>1 DEF Staged
  <2>3. AsSent'
    BY <1>2, <2>1, AsSentStays DEF IsSent
  <2> QED
    BY <1>2, <2>1, <2>2, <2>3 DEF AsAnswered
<1>11. CASE Answer
  <2>1. /\ stage \in {"replied", "collected"} /\ stage' \in {"answered", "failed"}
        /\ UNCHANGED <<endpoint, request, reply, script, hurt>>
        /\ UNCHANGED <<asked, carried, provider, phase>>
    BY <1>11 DEF Answer, streamVars, request
  <2>2. /\ answer' = IF stage = "collected" THEN Collected ELSE Buffered
        /\ stage' = IF Bad(answer') THEN "failed" ELSE "answered"
        /\ counted' = IF Bad(answer') THEN NoUsage ELSE ExtractUsage(answer')
    BY <1>11 DEF Answer
  <2>3. Staged'
    BY <1>2, <2>1 DEF Staged
  <2>4. AsSent'
    BY <1>2, <2>1, AsSentStays DEF IsSent
  <2>5. /\ CameWhole' <=> CameWhole
        /\ CameStreamed' <=> CameStreamed
        /\ Buffered' = Buffered /\ Collected' = Collected
    BY <2>1, AnswersStay
  <2>6. AsAnswered'
    <3>1. CASE stage = "replied"
      BY <1>2, <2>2, <2>5, <3>1 DEF AsAnswered
    <3>2. CASE stage = "collected"
      BY <1>2, <2>2, <2>5, <3>2 DEF AsAnswered
    <3> QED
      BY <2>1, <3>1, <3>2
  <2> QED
    BY <2>3, <2>4, <2>6
<1>12. CASE Stream
  <2>1. /\ stage = "streaming" /\ stage' = stage /\ counted' = counted /\ phase # "waiting"
        /\ UNCHANGED request /\ UNCHANGED <<asked, carried, provider>>
    BY <1>2, <1>12 DEF Stream, exchangeVars, request, Staged
  <2>2. endpoint' = endpoint /\ phase' # "waiting"
    BY <1>12, <2>1 DEF Stream, Reading, Arrive, Translate, UpstreamEnds, Rest, MakeEnd, Break
  <2>3. Staged'
    BY <1>2, <2>1, <2>2 DEF Staged
  <2>4. AsSent'
    BY <1>2, <2>1, <2>2, AsSentStays DEF IsSent
  <2> QED
    BY <1>2, <2>1, <2>3, <2>4 DEF AsAnswered
<1>13. CASE LogStream
  <2>1. /\ stage = "streaming" /\ stage' = "logged" /\ phase # "waiting"
        /\ UNCHANGED <<endpoint, request>>
        /\ UNCHANGED <<asked, carried, provider, phase, script, arrived>>
    BY <1>13 DEF LogStream, streamVars, request
  <2>2. counted' = SseUsage(script, arrived)
    BY <1>13 DEF LogStream
  <2>3. Staged'
    BY <1>2, <2>1 DEF Staged
  <2>4. AsSent'
    BY <1>2, <2>1, AsSentStays DEF IsSent
  <2> QED
    BY <1>2, <2>1, <2>2, <2>3, <2>4 DEF AsAnswered
<1>14. CASE UNCHANGED vars
  <2>1. /\ UNCHANGED <<endpoint, request, reply, script, hurt>>
        /\ UNCHANGED <<asked, carried, normal, provider, phase, arrived, answer, counted, stage>>
    BY <1>14 DEF vars, exchangeVars, streamVars, request
  <2>2. Staged'
    BY <1>2, <2>1 DEF Staged
  <2>3. AsSent'
    BY <1>2, <2>1 DEF request, AsSent, IsSent, SentTo, CalledAt, BodyFor, FinalFor, PassedNow, UpstreamOf,
                      Usable, WithModel, CallTo
  <2>4. AsAnswered'
    BY <1>2, <2>1, AnswersStay DEF AsAnswered
  <2> QED
    BY <2>2, <2>3, <2>4
<1> QED
  BY <1>4, <1>5, <1>6, <1>7, <1>8, <1>9, <1>10, <1>11, <1>12, <1>13, <1>14 DEF Next

\* Whatever stage an exchange is at, what has been sent is what its request comes to for its
\* provider, its answer is made of what the upstream has answered, and what is counted is the cost
\* of that answer or of the stream that was logged (service.rs:472-562, 2533-2759, upstream.rs:461).
THEOREM ExchangeInvariant == Spec => []Exchanged
BY ExchangeStarts, ExchangeSteps, PTL DEF Spec

-------------------------------------------------------------------------------
(***************************************************************************)
(* What an answer has cost                                                 *)
(***************************************************************************)
Counts    == [input : Nat, output : Nat]
CostKeys  == {"usage", "usageMetadata", "eval"}
Priced(b) == \A k \in CostKeys \cap DOMAIN b : b[k] \in Counts

LEMMA Dialectal == \A p : FromProvider(p) \in Dialects
BY DEF FromProvider, Dialects

LEMMA SpeaksDialect == \A c, p : Speaks(c, p) \in Dialects
<1> SUFFICES ASSUME NEW c, NEW p PROVE Speaks(c, p) \in Dialects
  OBVIOUS
<1>1. FromProvider(Resolved(p)) \in Dialects /\ "responses" \in Dialects
  BY Dialectal DEF Dialects
<1> QED
  BY <1>1 DEF Speaks

LEMMA NoUsageCounts == NoUsage \in Counts /\ Usage(2, 3) \in Counts
BY DEF NoUsage, Usage, Counts

LEMMA PricedGet ==
  ASSUME NEW b, Priced(b), NEW k \in CostKeys
  PROVE  Get(b, k, NoUsage) \in Counts
BY NoUsageCounts DEF Priced, Get, Has

LEMMA PricedExtract == ASSUME NEW b, Priced(b) PROVE ExtractUsage(b) \in Counts
<1>1. Get(b, "usageMetadata", NoUsage) \in Counts
  BY PricedGet DEF CostKeys
<1> QED
  BY <1>1 DEF ExtractUsage, Get, Has, Priced, CostKeys

LEMMA ChatPriced == ASSUME NEW t, NEW c, NEW f, NEW u \in Counts PROVE Priced(Chat(t, c, f, u))
BY DEF Chat, Priced, CostKeys

LEMMA Unpriced == ASSUME NEW b, DOMAIN b \cap CostKeys = {} PROVE Priced(b)
BY DEF Priced

LEMMA ReceivedPriced == CameWhole => Priced(Received)
<1> SUFFICES ASSUME CameWhole PROVE Priced(Received)
  OBVIOUS
<1>1. CASE endpoint = "search"
  BY <1>1 DEF Received, NormalizeSearch, Priced, CostKeys
<1>2. CASE endpoint # "search" /\ reply \in Replies(Speaks(endpoint, provider))
  <2>1. IsAnswer(Speaks(endpoint, provider), reply)
    BY <1>2, SpeaksDialect, RepliesAssumption
  <2> QED
    BY <1>2, <2>1 DEF Received, IsAnswer, Priced, CostKeys, Counts
<1>3. CASE endpoint # "search" /\ reply = Events
  BY <1>3 DEF Received, Events, Priced, CostKeys
<1> QED
  BY <1>1, <1>2, <1>3 DEF CameWhole

LEMMA SpentCounts == ASSUME NEW s PROVE Spent(s) \in Counts
BY NoUsageCounts DEF Spent

LEMMA RebuiltPriced == Priced(Rebuilt)
<1>1. Spent(script) \in Counts
  BY SpentCounts
<1>2. \A o, t, u : u \in Counts => Priced([output |-> o, status |-> t, usage |-> u])
  BY DEF Priced, CostKeys
<1> QED
  BY <1>1, <1>2, Zenon DEF Rebuilt

LEMMA CapturePriced == ASSUME NEW b PROVE Priced(Capture(b))
BY DEF Capture, Priced, CostKeys

LEMMA AdaptPriced ==
  ASSUME NEW client, NEW b, Priced(b)
  PROVE  Priced(AdaptTo(client, b)) /\ Priced(AdaptToResponses(b))
<1>1. Priced(AdaptToResponses(b))
  BY DEF AdaptToResponses, Priced, CostKeys
<1>2. Priced(AdaptToMessages(b))
  BY DEF AdaptToMessages, Priced, CostKeys, ++, Only
<1>3. Priced(AdaptToOllama(b))
  BY DEF AdaptToOllama, Priced, CostKeys
<1>4. Priced(Error)
  BY DEF Error, Priced, CostKeys
<1> QED
  BY <1>1, <1>2, <1>3, <1>4 DEF AdaptTo

LEMMA SuccessPriced == ASSUME NEW b, Priced(b) PROVE Priced(ResponsesSuccess(b))
<1>1. /\ Priced(Capture(Events)) /\ Priced(Rebuilt)
      /\ Priced(AdaptToResponses(b))
  BY CapturePriced, RebuiltPriced, AdaptPriced
<1> QED
  BY <1>1 DEF ResponsesSuccess

LEMMA ToOpenAIPriced ==
  ASSUME NEW format \in Dialects, NEW b, Priced(b)
  PROVE  Priced(ToOpenAI(format, b)) /\ Priced(ResponsesToOpenAI(b))
<1>1. \A k \in CostKeys : Get(b, k, NoUsage) \in Counts
  BY PricedGet
<1>2. Priced(ClaudeToOpenAI(b))
  BY <1>1, ChatPriced, Zenon DEF ClaudeToOpenAI, CostKeys
<1>3. Priced(GeminiToOpenAI(b))
  <2>1. Priced(Error)
    BY DEF Error, Priced, CostKeys
  <2> QED
    BY <1>1, <2>1, ChatPriced, Zenon DEF GeminiToOpenAI, CostKeys
<1>4. Priced(OllamaToOpenAI(b))
  BY <1>1, ChatPriced, Zenon DEF OllamaToOpenAI, CostKeys
<1>5. Priced(ResponsesToOpenAI(b))
  BY <1>1, ChatPriced, Zenon DEF ResponsesToOpenAI, CostKeys
<1> QED
  BY <1>2, <1>3, <1>4, <1>5 DEF ToOpenAI, Dialects

LEMMA BufferedPriced == CameWhole => Priced(Buffered)
<1> SUFFICES ASSUME CameWhole PROVE Priced(Buffered)
  OBVIOUS
<1>1. Priced(Received)
  BY ReceivedPriced
<1>2. Priced(Error)
  BY DEF Error, Priced, CostKeys
<1>3. endpoint # "search" => Received = reply
  BY DEF Received
<1>4. Priced(SameDialect)
  <2>1. endpoint = "responses" => Priced(ResponsesSuccess(reply))
    BY <1>1, <1>3, SuccessPriced
  <2> QED
    BY <1>1, <2>1, CapturePriced DEF SameDialect
<1>5. Priced(ForAdapt)
  <2>1. Priced(ResponsesToOpenAI(ResponsesSuccess(Received)))
    BY <1>1, SuccessPriced, ToOpenAIPriced DEF Dialects
  <2>2. Priced(ToOpenAI(FromProvider(provider), Received))
    BY <1>1, Dialectal, ToOpenAIPriced
  <2>3. \A x : Priced([sse |-> x])
    BY DEF Priced, CostKeys
  <2> QED
    BY <2>1, <2>2, <2>3 DEF ForAdapt
<1>6. Priced(OtherDialect)
  <2>1. Priced(ResponsesSuccess(ForAdapt)) /\ Priced(Capture(ForAdapt)) /\ Priced(AdaptTo(endpoint, ForAdapt))
    BY <1>5, SuccessPriced, CapturePriced, AdaptPriced
  <2> QED
    BY <1>2, <2>1 DEF OtherDialect
<1> QED
  BY <1>2, <1>4, <1>6 DEF Buffered

LEMMA CollectedPriced == Priced(Collected)
<1>1. Priced(Error)
  BY DEF Error, Priced, CostKeys
<1>2. Priced(Rebuilt)
  BY RebuiltPriced
<1>3. Priced(AdaptTo(endpoint, ResponsesToOpenAI(Rebuilt)))
  BY <1>2, ToOpenAIPriced, AdaptPriced DEF Dialects
<1> QED
  BY <1>1, <1>2, <1>3 DEF Collected

\* u is what N steps from x lead to, one by one, g[i] being the i-th.
Steps1(N, S)         == [1 .. N -> [S -> S]]
Stepped(N, S, x, g, u) == u \in [0 .. N -> S] /\ u[0] = x /\ \A i \in 1 .. N : u[i] = g[i][u[i - 1]]

LEMMA StepByStep ==
  ASSUME NEW N \in Nat, NEW S, NEW x \in S, NEW g \in Steps1(N, S)
  PROVE  \E u : Stepped(N, S, x, g, u)
<1> DEFINE Some(m) == \E u \in [0 .. m -> S] : u[0] = x /\ \A i \in 1 .. m : u[i] = g[i][u[i - 1]]
           T == {m \in 0 .. N : Some(m)}
<1> USE DEF Steps1
<1>1. Some(0)
  <2> DEFINE u == [i \in 0 .. 0 |-> x]
  <2>1. u \in [0 .. 0 -> S] /\ u[0] = x /\ 1 .. 0 = {}
    OBVIOUS
  <2> HIDE DEF u
  <2> QED
    BY <2>1
<1>2. ASSUME NEW m \in 1 .. N, Some(m - 1) PROVE Some(m)
  <2>1. PICK u \in [0 .. m - 1 -> S] : u[0] = x /\ \A i \in 1 .. m - 1 : u[i] = g[i][u[i - 1]]
    BY <1>2
  <2> DEFINE v == [i \in 0 .. m |-> IF i = m THEN g[m][u[m - 1]] ELSE u[i]]
  <2>2. g[m] \in [S -> S] /\ u[m - 1] \in S
    BY <2>1
  <2>3. v \in [0 .. m -> S]
    BY <2>1, <2>2
  <2>4. \A i \in 0 .. m : v[i] = IF i = m THEN g[m][u[m - 1]] ELSE u[i]
    OBVIOUS
  <2> HIDE DEF v
  <2>5. v[0] = x
    BY <2>1, <2>4
  <2>6. ASSUME NEW i \in 1 .. m PROVE v[i] = g[i][v[i - 1]]
    <3>1. i - 1 \in 0 .. m /\ i - 1 # m
      OBVIOUS
    <3>2. v[i - 1] = u[i - 1]
      BY <2>4, <3>1
    <3> QED
      BY <2>1, <2>4, <3>2
  <2> QED
    BY <2>3, <2>5, <2>6
<1> HIDE DEF Some
<1>3. 0 \in T /\ \A n \in 1 .. N : n - 1 \in T => n \in T
  BY <1>1, <1>2
<1>4. N \in T
  <2> HIDE DEF T
  <2>1. 0 .. N \subseteq T
    BY <1>3, UpTo
  <2> QED
    BY <2>1
<1> QED
  BY <1>4 DEF Some, Stepped

LEMMA UsageOfEvents ==
  ASSUME NEW s, NEW size, Len(CameIn(s, size).frames) \in Nat
  PROVE  LET frames == CameIn(s, size).frames IN
         /\ SseUsage(s, size) \in Counts
         /\ frames = <<>> => SseUsage(s, size) = NoUsage
         /\ Len(frames) > 0 /\ frames[Len(frames)].kind \in {"completed", "incomplete"} =>
              SseUsage(s, size) = Usage(2, 3)
<1> DEFINE frames == CameIn(s, size).frames
           N == Len(frames)
           Is(u) == u = [i \in 0 .. N |-> IF i = 0 THEN NoUsage ELSE After(u[i - 1], FrameUsage(frames[i]))]
           g == [i \in 1 .. N |-> [y \in Counts |-> After(y, FrameUsage(frames[i]))]]
<1>1. \A f : FrameUsage(f) \in Counts
  BY NoUsageCounts DEF FrameUsage
<1>2. \A y, z \in Counts : After(y, z) \in Counts
  BY DEF After, Counts, Usage
<1>3. N \in Nat /\ NoUsage \in Counts
  BY NoUsageCounts
<1>4. PICK h \in [1 .. N -> [Counts -> Counts]] :
        \A i \in 1 .. N : \A y \in Counts : h[i][y] = After(y, FrameUsage(frames[i]))
  <2>1. g \in [1 .. N -> [Counts -> Counts]] /\ \A i \in 1 .. N : \A y \in Counts : g[i][y] = After(y, FrameUsage(frames[i]))
    BY <1>1, <1>2
  <2> HIDE DEF g, N, frames
  <2> QED
    BY <2>1
<1> HIDE DEF frames, N
<1>5. PICK u \in [0 .. N -> Counts] : u[0] = NoUsage /\ \A i \in 1 .. N : u[i] = h[i][u[i - 1]]
  <2>1. h \in Steps1(N, Counts)
    BY <1>4 DEF Steps1
  <2>2. PICK u : Stepped(N, Counts, NoUsage, h, u)
    BY <1>3, <2>1, StepByStep
  <2> QED
    BY <2>2 DEF Stepped
<1>6. \A i \in 1 .. N : u[i] = After(u[i - 1], FrameUsage(frames[i]))
  BY <1>3, <1>4, <1>5
<1>7. Is(u)
  <2>1. \A i \in 0 .. N : u[i] = IF i = 0 THEN NoUsage ELSE After(u[i - 1], FrameUsage(frames[i]))
    BY <1>3, <1>5, <1>6
  <2>2. u = [i \in 0 .. N |-> u[i]]
    BY <1>5
  <2> QED
    BY <2>1, <2>2
<1> HIDE DEF Is
<1>8. Is(CHOOSE w : Is(w))
  BY <1>7
<1> DEFINE w == CHOOSE v : Is(v)
<1>9. SseUsage(s, size) = w[N]
  BY DEF SseUsage, Is, N, frames
<1>10. Is(w)
  BY <1>8
<1> HIDE DEF w
<1>11. \A i \in 0 .. N : w[i] = IF i = 0 THEN NoUsage ELSE After(w[i - 1], FrameUsage(frames[i]))
  BY <1>10, Zenon DEF Is
<1>12. N = 0 => SseUsage(s, size) = NoUsage
  BY <1>3, <1>9, <1>11
<1>13. frames = <<>> => N = 0
  BY DEF N
<1>14. ASSUME N > 0, frames[N].kind \in {"completed", "incomplete"} PROVE SseUsage(s, size) = Usage(2, 3)
  <2>1. w[N] = After(w[N - 1], FrameUsage(frames[N]))
    BY <1>3, <1>11, <1>14
  <2> QED
    BY <1>9, <1>14, <2>1 DEF FrameUsage, After, Usage
<1>15. SseUsage(s, size) \in Counts
  <2> DEFINE T == {i \in 0 .. N : w[i] \in Counts}
  <2>1. 0 \in T
    BY <1>3, <1>11
  <2>2. ASSUME NEW i \in 1 .. N, i - 1 \in T PROVE i \in T
    <3>1. i \in 0 .. N /\ i # 0
      OBVIOUS
    <3>2. w[i] = After(w[i - 1], FrameUsage(frames[i]))
      BY <1>11, <3>1
    <3> QED
      BY <1>1, <1>2, <2>2, <3>1, <3>2
  <2>3. N \in T
    <3> HIDE DEF T
    <3>1. 0 .. N \subseteq T
      BY <1>3, <2>1, <2>2, UpTo
    <3> QED
      BY <1>3, <3>1
  <2> QED
    BY <1>9, <2>3
<1> QED
  BY <1>12, <1>13, <1>14, <1>15 DEF N, frames

LEMMA FramesCameIn ==
  ASSUME StreamType
  PROVE  /\ CameIn(script, arrived).frames = SubSeq(script.frames, 1, Whole)
         /\ script.frames \in Seq(Frames) /\ Len(script.frames) \in Nat /\ Whole \in 0 .. Len(script.frames)
<1>1. script \in [frames : Seq(Frames), crlf : BOOLEAN, closed : BOOLEAN, full : BOOLEAN]
  <2>1. NoScript \in [frames : Seq(Frames), crlf : BOOLEAN, closed : BOOLEAN, full : BOOLEAN]
    BY DEF NoScript
  <2>2. script \in Scripts \/ script = NoScript
    BY DEF StreamType
  <2> QED
    BY <2>1, <2>2, ScriptsAssumption
<1> QED
  BY <1>1, ScriptFacts DEF CameIn, Whole

\* The counted usage is of its type at every stage.
LEMMA CountedCounts == Exchanged => counted \in Counts
<1> SUFFICES ASSUME Exchanged PROVE counted \in Counts
  OBVIOUS
<1>1. AsAnswered
  BY DEF Exchanged
<1>2. CASE stage = "answered"
  <2>1. Priced(answer)
    BY <1>1, <1>2, BufferedPriced, CollectedPriced DEF AsAnswered
  <2> QED
    BY <1>1, <1>2, <2>1, PricedExtract DEF AsAnswered
<1>3. CASE stage = "logged"
  <2>1. /\ CameIn(script, arrived).frames = SubSeq(script.frames, 1, Whole)
        /\ script.frames \in Seq(Frames) /\ Whole \in 0 .. Len(script.frames)
    BY FramesCameIn DEF Exchanged, IInv
  <2>2. Len(CameIn(script, arrived).frames) \in Nat
    BY <2>1
  <2> QED
    BY <1>1, <1>3, <2>2, UsageOfEvents DEF AsAnswered
<1>4. CASE stage \notin {"answered", "logged"}
  BY <1>1, <1>4, NoUsageCounts DEF AsAnswered
<1> QED
  BY <1>2, <1>3, <1>4

\* For any requests, providers and answers, every variable has its type.  What goes out has a
\* method, a URL, a body and headers, and goes to a provider that supports what the client has
\* called; and what is logged of its cost are numbers, whichever dialects the answer has gone
\* through (service.rs:472-562, upstream.rs:461-534, cost.rs:178-322).
THEOREM ExchangeTypeCorrect == Spec => []TypeOK
<1>1. Exchanged => TypeOK
  <2> SUFFICES ASSUME Exchanged PROVE TypeOK
    OBVIOUS
  <2>1. IInv /\ Staged /\ AsSent
    BY DEF Exchanged
  <2>2. StreamType /\ (phase # "waiting" => stage \in {"streaming", "logged"})
    BY <2>1 DEF IInv, Stages
  <2>3. ASSUME IsSent
        PROVE  Supports(provider, endpoint) /\ {"method", "url", "body", "headers"} \subseteq DOMAIN call
    <3>1. provider \in Usable /\ call = CalledAt(provider)
      BY <2>1, <2>3, MatchingIsOfThem DEF AsSent
    <3>2. {"method", "url", "body", "headers"} \subseteq DOMAIN CalledAt(provider)
      BY DEF CalledAt, CallTo, SearchRequest, ++
    <3> QED
      BY <3>1, <3>2 DEF Usable
  <2>4. counted \in [input : Nat, output : Nat]
    BY CountedCounts DEF Counts
  <2> QED
    BY <2>1, <2>2, <2>3, <2>4 DEF TypeOK, Staged
<1> QED
  BY <1>1, ExchangeInvariant, PTL

\* What an adapted stream has cost, once all of it is there.
LEMMA CostOfStream ==
  ASSUME Exchanged, stage = "logged", Complete(script), arrived = Size(script)
  PROVE  counted = Spent(script)
<1>1. /\ CameIn(script, arrived).frames = SubSeq(script.frames, 1, Whole)
      /\ script.frames \in Seq(Frames) /\ Len(script.frames) \in Nat /\ Whole \in 0 .. Len(script.frames)
  BY FramesCameIn DEF Exchanged, IInv
<1>2. script.frames # <<>> /\ Len(script.frames) > 0
      /\ script.frames[Len(script.frames)].kind \in {"completed", "incomplete"}
  BY <1>1 DEF Complete, Last
<1>3. Whole = Len(script.frames)
  <2>1. Size(script) = 3 * Len(script.frames) \/ Size(script) = 3 * Len(script.frames) - 1
    <3>1. \A n \in Nat : \A m \in 3 * n - 1 .. 3 * n : m = 3 * n \/ m = 3 * n - 1
      OBVIOUS
    <3>2. Size(script) \in 3 * Len(script.frames) - 1 .. 3 * Len(script.frames)
      BY ScriptFacts DEF Exchanged, IInv
    <3> QED
      BY <1>1, <3>1, <3>2
  <2>2. \A n \in Nat : (3 * n + 1) \div 3 = n /\ ((3 * n - 1) + 1) \div 3 = n
    OBVIOUS
  <2> QED
    BY <1>1, <2>1, <2>2 DEF Whole
<1>4. CameIn(script, arrived).frames = script.frames
  BY <1>1, <1>3
<1>5. SseUsage(script, arrived) = Usage(2, 3)
  BY <1>1, <1>2, <1>4, UsageOfEvents
<1>6. Spent(script) = Usage(2, 3)
  BY <1>1, <1>2 DEF Spent
<1> QED
  BY <1>5, <1>6 DEF Exchanged, AsAnswered
-------------------------------------------------------------------------------
(***************************************************************************)
(* Where a request goes                                                    *)
(***************************************************************************)
LEMMA OverIs ==
  ASSUME NEW f, NEW g, NEW k
  PROVE  /\ Has(f ++ g, k) <=> Has(f, k) \/ Has(g, k)
         /\ Has(f, k) => (f ++ g)[k] = f[k]
         /\ ~Has(f, k) /\ Has(g, k) => (f ++ g)[k] = g[k]
BY DEF ++, Has

LEMMA ModelIsSent ==
  ASSUME Exchanged, IsSent, endpoint # "search"
  PROVE  sent.model = normal.model.name
<1>1. sent = SentTo(provider) /\ ~Bad(SplitModel(normal.model))
  BY DEF Exchanged, AsSent
<1>2. SplitModel(normal.model).name = normal.model.name
  BY <1>1 DEF SplitModel, Bad, Named
<1>3. ASSUME NEW b
      PROVE  Has(WithModel(b), "model") /\ WithModel(b).model = normal.model.name
  BY <1>2 DEF WithModel, ++, Has
<1>4. ASSUME NEW p, NEW u, NEW b, Has(b, "model") PROVE ForceStream(p, u, b).model = b.model
  BY <1>4 DEF ForceStream, ++, Has
<1> QED
  BY <1>1, <1>3, <1>4 DEF SentTo

LEMMA NoneStrays == ASSUME Exchanged, IsSent PROVE NoStrays
<1> SUFFICES ASSUME ~normal.model.slash
             PROVE  LET vendor   == InferProvider(normal.model)
                        Knows(p) == (vendor # "" /\ IsOf(p, vendor)) \/ HasDefault(p, normal.model)
                    IN  Knows(provider) \/ ~\E p \in Usable : Knows(p)
  BY DEF NoStrays
<1>1. SplitModel(normal.model) = normal.model
  BY DEF SplitModel
<1>2. provider \in Matching(Usable, normal.model)
  BY <1>1 DEF Exchanged, AsSent
<1> QED
  BY <1>2 DEF Matching, ForBareModel

\* What an account does not change.
LEMMA ResolvedPaths ==
  ASSUME NEW p \in Providers
  PROVE  Resolved(p).paths = p.paths /\ Resolved(p).streams = p.streams
BY ProvidersAssumption DEF Resolved

LEMMA FirstIsThere ==
  ASSUME NEW f, NEW keys, DOMAIN keys \subseteq Nat, There(f, keys) # {}
  PROVE  \E i \in DOMAIN keys : Has(f, keys[i]) /\ FirstOf(f, keys) = f[keys[i]]
<1> DEFINE T == There(f, keys)
<1>1. T \in SUBSET Nat /\ T # {}
  BY DEF There
<1>2. \E j \in T : \A i \in T : j <= i
  <2> HIDE DEF T
  <2> QED
    BY <1>1, Leasts
<1> DEFINE j == CHOOSE j \in T : \A i \in T : j <= i
<1>3. j \in T
  BY <1>2
<1>4. FirstOf(f, keys) = f[keys[j]]
  BY DEF FirstOf
<1> HIDE DEF j
<1> QED
  BY <1>3, <1>4 DEF There

PathKeys == {"chat.completions", "chat", "completions", "messages", "responses"}
Asked1   == {"chat", "completions", "messages", "responses"}

LEMMA KeysAre ==
  ASSUME NEW u \in Asked1
  PROVE  DOMAIN KeysOf(u) \subseteq Nat /\ \A i \in DOMAIN KeysOf(u) : KeysOf(u)[i] \in PathKeys
<1>1. PICK t : t = <<AsStr(u), Capability(u)>>
  OBVIOUS
<1>2. PICK c : c = <<"chat">>
  OBVIOUS
<1>3. AsStr(u) \in PathKeys /\ Capability(u) \in PathKeys /\ "chat" \in PathKeys
  BY DEF AsStr, Capability, PathKeys, Asked1
<1>4. t \in Seq(PathKeys) /\ c \in Seq(PathKeys)
  BY <1>1, <1>2, <1>3
<1>5. KeysOf(u) = t \o c
  BY <1>1, <1>2 DEF KeysOf, Family, Asked1
<1>6. t \o c \in Seq(PathKeys)
  BY <1>4
<1>7. \A s \in Seq(PathKeys) : DOMAIN s \subseteq Nat /\ \A i \in DOMAIN s : s[i] \in PathKeys
  OBVIOUS
<1> QED
  BY <1>5, <1>6, <1>7

LEMMA PathIs ==
  ASSUME NEW p \in Providers, NEW u \in Asked1, NEW streams
  PROVE  \/ EndpointPath(Resolved(p), u, streams) = At(DefaultPath[u])
         \/ EndpointPath(Resolved(p), u, streams).at \in Paths(p)
<1>1. Resolved(p).paths = p.paths /\ Resolved(p).streams = p.streams
  BY ResolvedPaths
<1>2. ASSUME NEW f, Overrides(f, u), f \in {p.paths, p.streams}
      PROVE  FirstOf(f, KeysOf(u)).at \in Paths(p)
  <2>1. PICK i \in DOMAIN KeysOf(u) : Has(f, KeysOf(u)[i]) /\ FirstOf(f, KeysOf(u)) = f[KeysOf(u)[i]]
    BY <1>2, KeysAre, FirstIsThere DEF Overrides
  <2>2. KeysOf(u)[i] \in DOMAIN f \cap PathKeys
    BY <2>1, KeysAre DEF Has
  <2> QED
    BY <1>2, <2>1, <2>2 DEF Paths, PathKeys
<1> QED
  BY <1>1, <1>2 DEF EndpointPath

\* Where there is a way between the dialects, the page that is called is that of the dialect.
LEMMA UpstreamIsHome ==
  ASSUME endpoint \in Family, Translates, Speaks(endpoint, provider) \in DOMAIN Home
  PROVE  /\ UpstreamOf(provider) \in Asked1
         /\ DefaultPath[UpstreamOf(provider)] = Home[Speaks(endpoint, provider)]
         /\ UpstreamOf(provider) = "responses" <=> Speaks(endpoint, provider) = "responses"
<1> DEFINE S == DetectSource(endpoint, normal)
           T == FromProvider(provider)
           O == FromProvider(Resolved(provider))
           D == Speaks(endpoint, provider)
           U == UpstreamOf(provider)
<1>1. /\ endpoint = "messages" => S = "claude"
      /\ endpoint = "responses" => S \in {"openai", "responses"}
      /\ endpoint = "ollama" => S = "ollama"
      /\ endpoint \in {"chat", "completions"} => S = "openai"
  BY DEF DetectSource
<1>2. D = IF O = "openai" /\ endpoint = "responses" THEN "responses" ELSE O
  BY DEF Speaks
<1>3. U = IF endpoint \in {"chat", "completions", "messages", "responses"} /\ T = "claude" THEN "messages"
          ELSE IF T = "responses" THEN "responses" ELSE endpoint
  BY DEF UpstreamOf, UpstreamEndpoint, ToMessagesEndpoint, Family
<1>4. \/ S = D /\ T = O
      \/ T = D /\ (S = "openai" \/ (S = "claude" /\ T = "responses"))
  BY DEF Translates
<1>5. D \in {"openai", "claude", "responses"}
  BY DEF Home
<1>6. endpoint \in {"chat", "completions", "messages", "responses", "ollama"}
  BY DEF Family
<1> HIDE DEF S, T, O, D, U
<1>7. /\ D = "openai" => U \in {"chat", "completions"}
      /\ D = "claude" => U = "messages"
      /\ D = "responses" => U = "responses"
  BY <1>1, <1>2, <1>3, <1>4, <1>5, <1>6
<1>8. /\ DefaultPath.chat = Home.openai /\ DefaultPath.completions = Home.openai
      /\ DefaultPath.messages = Home.claude /\ DefaultPath.responses = Home.responses
  BY DEF DefaultPath, Home
<1>9. U \in Asked1 /\ DefaultPath[U] = Home[D] /\ (U = "responses" <=> D = "responses")
  BY <1>5, <1>7, <1>8 DEF Asked1
<1> QED
  BY <1>9 DEF U, D

LEMMA AllAddressed ==
  ASSUME Exchanged, IsSent, endpoint \in Family, Translates
  PROVE  AddressedByDialect
<1> SUFFICES ASSUME Speaks(endpoint, provider) \in DOMAIN Home
             PROVE  LET dialect == Speaks(endpoint, provider) IN
                    /\ call.url.at = Home[dialect] \/ call.url.at \in Paths(provider)
                    /\ call.url.base = IF call.url.at \in Paths(provider) /\ call.url.base = "" THEN ""
                                       ELSE Resolved(provider).base
                    /\ call.url.suffix = IF dialect = "responses" THEN carried.suffix ELSE ""
  BY DEF AddressedByDialect
<1> DEFINE U == UpstreamOf(provider)
           path == EndpointPath(Resolved(provider), U, Get(SentTo(provider), "stream", FALSE))
<1>1. provider \in Providers /\ call = CalledAt(provider)
  BY MatchingIsOfThem DEF Exchanged, AsSent, Usable
<1>2. /\ U \in Asked1
      /\ DefaultPath[U] = Home[Speaks(endpoint, provider)]
      /\ U = "responses" <=> Speaks(endpoint, provider) = "responses"
  BY UpstreamIsHome
<1>3. call.url = Url(Resolved(provider), path, Suffix(U, carried.suffix))
  <2>1. U # "search"
    BY <1>2 DEF Asked1
  <2> QED
    BY <1>1, <2>1 DEF CalledAt, CallTo, ++
<1>4. path = At(DefaultPath[U]) \/ path.at \in Paths(provider)
  BY <1>1, <1>2, PathIs
<1> HIDE DEF path, U
<1>5. /\ call.url.base = IF path.absolute THEN "" ELSE Resolved(provider).base
      /\ call.url.at = path.at /\ call.url.suffix = Suffix(U, carried.suffix)
  <2>1. call.url = [base |-> IF path.absolute THEN "" ELSE Resolved(provider).base, at |-> path.at,
                    suffix |-> Suffix(U, carried.suffix)]
    BY <1>3 DEF Url
  <2> DEFINE b == IF path.absolute THEN "" ELSE Resolved(provider).base
  <2>2. call.url = [base |-> b, at |-> path.at, suffix |-> Suffix(U, carried.suffix)]
    BY <2>1
  <2> HIDE DEF b
  <2>3. call.url.base = b /\ call.url.at = path.at /\ call.url.suffix = Suffix(U, carried.suffix)
    BY <2>2
  <2> QED
    BY <2>3 DEF b
<1>6. path = At(DefaultPath[U]) => path.at = DefaultPath[U] /\ path.absolute = FALSE
  BY DEF At
<1>7. call.url.suffix = IF Speaks(endpoint, provider) = "responses" THEN carried.suffix ELSE ""
  BY <1>2, <1>5 DEF Suffix
<1> QED
  BY <1>2, <1>4, <1>5, <1>6, <1>7
-------------------------------------------------------------------------------
(***************************************************************************)
(* What a search finds                                                     *)
(***************************************************************************)
LEMMA ValueIsOf ==
  ASSUME NEW x, NEW keys, DOMAIN keys \subseteq Nat, NEW K,
         \A i \in DOMAIN keys : keys[i] \in K, \A k \in K : \E i \in DOMAIN keys : keys[i] = k,
         K \cap DOMAIN x # {}
  PROVE  \E k \in K \cap DOMAIN x : ValueOf(x, keys) = x[k]
<1>1. There(x, keys) # {}
  BY DEF There, Has
<1>2. PICK i \in DOMAIN keys : Has(x, keys[i]) /\ FirstOf(x, keys) = x[keys[i]]
  BY <1>1, FirstIsThere
<1> QED
  BY <1>1, <1>2 DEF ValueOf, Has

\* The keys, one by one, are those of K.
AreKeys(keys, K) ==
  /\ DOMAIN keys \subseteq Nat
  /\ \A i \in DOMAIN keys : keys[i] \in K
  /\ \A k \in K : \E i \in DOMAIN keys : keys[i] = k

LEMMA OneKey == ASSUME NEW k PROVE AreKeys(<<k>>, {k})
<1>1. PICK t : t = <<k>>
  OBVIOUS
<1>2. DOMAIN t = {1} /\ t[1] = k
  BY <1>1
<1> QED
  BY <1>1, <1>2 DEF AreKeys

LEMMA TwoKeys == ASSUME NEW j, NEW k PROVE AreKeys(<<j, k>>, {j, k})
<1>1. PICK t : t = <<j, k>>
  OBVIOUS
<1>2. DOMAIN t = {1, 2} /\ t[1] = j /\ t[2] = k
  BY <1>1
<1> QED
  BY <1>1, <1>2 DEF AreKeys

LEMMA KeysOfEngine ==
  ASSUME NEW engine \in Engines
  PROVE  LET keys == KeysOfResult(engine) IN
         /\ {"title", "url", "snippet"} \subseteq DOMAIN keys /\ "position" \notin DOMAIN keys
         /\ AreKeys(keys.title, {"title"}) /\ AreKeys(keys.url, AddressKeys(engine))
         /\ AreKeys(keys.snippet, TextKeys(engine))
<1>1. ASSUME engine = "serper-search"
      PROVE  LET keys == KeysOfResult(engine) IN
             /\ {"title", "url", "snippet"} \subseteq DOMAIN keys /\ "position" \notin DOMAIN keys
             /\ keys.title = <<"title">> /\ keys.url = <<"link">> /\ keys.snippet = <<"snippet", "description">>
  BY <1>1 DEF KeysOfResult, SerperKeys, Plainly, ++
<1>2. ASSUME engine = "brave-search"
      PROVE  LET keys == KeysOfResult(engine) IN
             /\ {"title", "url", "snippet"} \subseteq DOMAIN keys /\ "position" \notin DOMAIN keys
             /\ keys.title = <<"title">> /\ keys.url = <<"url">> /\ keys.snippet = <<"description">>
  BY <1>2 DEF KeysOfResult, BraveKeys, Plainly, ++
<1>3. ASSUME engine = "perplexity-search"
      PROVE  LET keys == KeysOfResult(engine) IN
             /\ {"title", "url", "snippet"} \subseteq DOMAIN keys /\ "position" \notin DOMAIN keys
             /\ keys.title = <<"title">> /\ keys.url = <<"url">> /\ keys.snippet = <<"snippet">>
  BY <1>3 DEF KeysOfResult, PerplexityKeys, Plainly, ++
<1>4. ASSUME engine = "exa-search"
      PROVE  LET keys == KeysOfResult(engine) IN
             /\ {"title", "url", "snippet"} \subseteq DOMAIN keys /\ "position" \notin DOMAIN keys
             /\ keys.title = <<"title">> /\ keys.url = <<"url">> /\ keys.snippet = <<"highlights", "text">>
  BY <1>4 DEF KeysOfResult, ExaKeys, Plainly, ++
<1>5. ASSUME engine = "tavily-search"
      PROVE  LET keys == KeysOfResult(engine) IN
             /\ {"title", "url", "snippet"} \subseteq DOMAIN keys /\ "position" \notin DOMAIN keys
             /\ keys.title = <<"title">> /\ keys.url = <<"url">> /\ keys.snippet = <<"content">>
  BY <1>5 DEF KeysOfResult, TavilyKeys, Plainly, ++
<1>6. /\ \A k : AreKeys(<<k>>, {k})
      /\ \A j, k : AreKeys(<<j, k>>, {j, k})
  BY OneKey, TwoKeys
<1> QED
  BY <1>1, <1>2, <1>3, <1>4, <1>5, <1>6, Zenon DEF Engines, AddressKeys, TextKeys

\* What is asked of a search engine is what the client has asked.
LEMMA SearchIsAsIs ==
  ASSUME endpoint = "search", FromProvider(provider) = "openai" PROVE SentTo(provider) = normal
<1>1. UpstreamOf(provider) = "search"
  BY DEF UpstreamOf, UpstreamEndpoint, ToMessagesEndpoint, Family
<1>2. DetectSource(endpoint, normal) = "openai"
  BY DEF DetectSource
<1>3. BodyFor(provider) = normal
  BY <1>2 DEF BodyFor, TranslateRequest, FromOpenAI
<1>4. FinalFor(provider) = normal
  BY <1>1, <1>3 DEF FinalFor, NeedsInjection, Prepared, UpstreamOf
<1> QED
  BY <1>1, <1>4 DEF SentTo, WithModel, ForceStream

LEMMA ListedAre ==
  ASSUME NEW engine \in Engines, NEW r, Lists(engine, r),
         NEW news \in BOOLEAN, ~(engine \in {"serper-search", "brave-search"} /\ news)
  PROVE  ResultsIn(engine, news, r) = Listed(r)
<1>1. CASE engine = "serper-search"
  BY <1>1 DEF Lists, ResultsIn, Listed, Get, Has
<1>2. CASE engine = "brave-search"
  BY <1>2 DEF Lists, ResultsIn, Listed, Get, Has
<1>3. CASE engine \notin {"serper-search", "brave-search"}
  BY <1>3 DEF Lists, ResultsIn, Listed, Get, Has, Engines
<1> QED
  BY <1>1, <1>2, <1>3

LEMMA AllFound ==
  ASSUME Exchanged, stage = "answered", endpoint = "search", ~Streams,
         provider.name \in Engines, FromProvider(provider) = "openai"
  PROVE  FoundAsListed
<1> DEFINE engine == provider.name
<1>1. ~Bad(answer) /\ ((CameWhole /\ answer = Buffered) \/ (CameStreamed /\ answer = Collected))
  BY DEF Exchanged, AsAnswered
<1>2. ~CameStreamed
  BY DEF CameStreamed, Collects, IsCodex, Engines
<1>3. Lists(engine, reply)
  BY <1>1, <1>2, FindingsAssumption DEF CameWhole
<1>4. reply # Events
  <2>1. {"organic", "web", "results"} \cap DOMAIN reply # {}
    BY <1>3 DEF Lists, Has, Engines
  <2> QED
    BY <2>1 DEF Events
<1>5. sent = normal
  BY SearchIsAsIs DEF Exchanged, AsSent, IsSent
<1>6. answer = NormalizeSearch(engine, normal, reply)
  <2>1. SameDialect = Received
    BY <1>4 DEF SameDialect
  <2>2. DetectSource(endpoint, normal) = FromProvider(provider)
    BY DEF DetectSource
  <2> QED
    BY <1>1, <1>2, <1>5, <2>1, <2>2 DEF Buffered, Bad, Received
<1> SUFFICES ASSUME ~(engine \in {"serper-search", "brave-search"} /\ IsNews(normal))
             PROVE  /\ Len(answer.results) = Len(Listed(reply))
                    /\ \A i \in DOMAIN Listed(reply) :
                         /\ answer.results[i].position = i
                         /\ answer.results[i].title = Listed(reply)[i].title
                         /\ answer.results[i].url \in
                              {Get(Listed(reply)[i], "url", ""), Get(Listed(reply)[i], "link", "")} \ {""}
                         /\ answer.results[i].snippet # ""
  BY DEF FoundAsListed
<1> DEFINE items     == Listed(reply)
           keys      == KeysOfResult(engine)
           Result(i) == [k \in DOMAIN keys |-> ValueOf(items[i], keys[k])] ++ [position |-> i]
           results   == [i \in DOMAIN items |-> Result(i)]
<1>7. ResultsIn(engine, IsNews(normal), reply) = items
  BY <1>3, ListedAre DEF IsNews
<1>8. answer.results = results
  <2>1. \A r, q : [results |-> r, query |-> q].results = r
    OBVIOUS
  <2> QED
    BY <1>6, <1>7, <2>1, Zenon DEF NormalizeSearch
<1>9. Len(items) \in Nat /\ DOMAIN items = 1 .. Len(items)
  BY <1>3 DEF Lists
<1>10. Len(results) = Len(items)
  <2> DEFINE n == Len(items)
             R == {Result(i) : i \in 1 .. n}
  <2>1. results \in [1 .. n -> R]
    BY <1>9
  <2> HIDE DEF results, R, n
  <2>2. n \in Nat
    BY <1>9 DEF n
  <2>3. \A f \in [1 .. n -> R] : Len(f) = n
    BY <2>2
  <2> QED
    BY <2>1, <2>3 DEF n
<1>11. ASSUME NEW i \in DOMAIN items
       PROVE  /\ results[i].position = i
              /\ results[i].title = items[i].title
              /\ results[i].url \in {Get(items[i], "url", ""), Get(items[i], "link", "")} \ {""}
              /\ results[i].snippet # ""
  <2> DEFINE x == items[i]
             f == [k \in DOMAIN keys |-> ValueOf(items[i], keys[k])]
             g == [position |-> i]
  <2>1. results[i] = f ++ g
    OBVIOUS
  <2>2. /\ {"title", "url", "snippet"} \subseteq DOMAIN keys /\ "position" \notin DOMAIN keys
        /\ AreKeys(keys.title, {"title"}) /\ AreKeys(keys.url, AddressKeys(engine))
        /\ AreKeys(keys.snippet, TextKeys(engine))
    BY KeysOfEngine
  <2>3. /\ "title" \in DOMAIN x
        /\ \A k \in AddressKeys(engine) : k \in DOMAIN x /\ x[k] # ""
        /\ TextKeys(engine) \cap DOMAIN x # {} /\ \A k \in TextKeys(engine) \cap DOMAIN x : x[k] # ""
    BY <1>3 DEF Lists, AddressKeys, TextKeys
  <2>4. \A k : AreKeys(keys[k], {"title"}) => ValueOf(x, keys[k]) = x.title
    <3> HIDE DEF x, keys
    <3> SUFFICES ASSUME NEW k, AreKeys(keys[k], {"title"}) PROVE ValueOf(x, keys[k]) = x.title
      OBVIOUS
    <3> DEFINE K == {"title"}
    <3>1. K \cap DOMAIN x # {} /\ AreKeys(keys[k], K)
      BY <2>3
    <3> HIDE DEF K
    <3>2. \E j \in K \cap DOMAIN x : ValueOf(x, keys[k]) = x[j]
      BY <3>1, ValueIsOf DEF AreKeys
    <3> QED
      BY <3>2 DEF K
  <2>5. ASSUME NEW k, NEW K \in {AddressKeys(engine), TextKeys(engine)}, AreKeys(keys[k], K)
        PROVE  \E j \in K \cap DOMAIN x : ValueOf(x, keys[k]) = x[j] /\ x[j] # ""
    <3> HIDE DEF x, keys
    <3>1. K \cap DOMAIN x # {} /\ \A j \in K \cap DOMAIN x : x[j] # ""
      BY <2>3 DEF AddressKeys
    <3> QED
      BY <2>5, <3>1, ValueIsOf DEF AreKeys
  <2>6. /\ Has(f, "title") /\ f.title = ValueOf(x, keys.title)
        /\ Has(f, "url") /\ f.url = ValueOf(x, keys.url)
        /\ Has(f, "snippet") /\ f.snippet = ValueOf(x, keys.snippet)
        /\ ~Has(f, "position")
    BY <2>2 DEF Has
  <2>7. Has(g, "position") /\ g.position = i
    BY DEF Has
  <2> HIDE DEF f, g, results
  <2>8. /\ results[i].title = ValueOf(x, keys.title) /\ results[i].url = ValueOf(x, keys.url)
        /\ results[i].snippet = ValueOf(x, keys.snippet) /\ results[i].position = i
    BY <2>1, <2>6, <2>7, OverIs
  <2> HIDE DEF keys
  <2>9. results[i].title = x.title
    BY <2>2, <2>4, <2>8
  <2>10. results[i].url \in {Get(x, "url", ""), Get(x, "link", "")} \ {""}
    <3>1. PICK j \in AddressKeys(engine) \cap DOMAIN x : ValueOf(x, keys.url) = x[j] /\ x[j] # ""
      BY <2>2, <2>5
    <3>2. j \in {"url", "link"}
      BY DEF AddressKeys
    <3>3. x[j] \in {Get(x, "url", ""), Get(x, "link", "")}
      BY <3>1, <3>2 DEF Get, Has
    <3> QED
      BY <2>8, <3>1, <3>3
  <2>11. results[i].snippet # ""
    BY <2>2, <2>5, <2>8
  <2> QED
    BY <2>8, <2>9, <2>10, <2>11
<1> HIDE DEF results
<1> QED
  BY <1>8, <1>10, <1>11
-------------------------------------------------------------------------------
(***************************************************************************)
(* What a client hears                                                     *)
(***************************************************************************)
LEMMA FlattenOne ==
  ASSUME NEW s, Len(s) = 1
  PROVE  FlattenSeq(s) = s[1]
<1> DEFINE Is(f) == f = [i \in 1 .. Len(s) |-> IF i = 1 THEN s[i] ELSE f[i - 1] \o s[i]]
           g == [i \in 1 .. 1 |-> s[i]]
           w == CHOOSE f : Is(f)
<1>1. Is(g)
  <2>1. g = [i \in 1 .. 1 |-> IF i = 1 THEN s[i] ELSE g[i - 1] \o s[i]]
    OBVIOUS
  <2> QED
    BY <2>1
<1> HIDE DEF g, Is
<1>2. Is(w)
  BY <1>1
<1>3. FlattenSeq(s) = w[1]
  BY DEF FlattenSeq, Is
<1> HIDE DEF w
<1>4. w[1] = s[1]
  BY <1>2 DEF Is
<1> QED
  BY <1>3, <1>4

\* A text by itself.
LEMMA OneText == ASSUME NEW d, NEW t PROVE Texts(<<Item("text", d, t)>>) = t
<1>1. PICK x : x = Item("text", d, t)
  OBVIOUS
<1>2. x.kind = "text" /\ x.text = t
  BY <1>1 DEF Item
<1>3. PICK s : s = <<x>>
  OBVIOUS
<1>4. DOMAIN s = 1 .. 1 /\ s[1] = x
  BY <1>3
<1> DEFINE f == MapSeq(s, LAMBDA y : IF y.kind = "text" THEN y.text ELSE <<>>)
<1>5. f = [i \in 1 .. 1 |-> t]
  BY <1>2, <1>4 DEF MapSeq
<1>6. Len(f) = 1 /\ f[1] = t
  <2>1. \A h \in [1 .. 1 -> {t}] : Len(h) = 1 /\ h[1] = t
    OBVIOUS
  <2> HIDE DEF f
  <2> QED
    BY <1>5, <2>1
<1>7. Texts(s) = FlattenSeq(f)
  BY DEF Texts, FlatMap
<1> HIDE DEF f
<1> QED
  BY <1>1, <1>3, <1>6, <1>7, FlattenOne

\* What an upstream has said: the body it has sent, or what its events come to.
SaidBody == IF reply = Events THEN Rebuilt ELSE reply

\* What is made of a whole answer's events says what they say.
LEMMA EventsAreHeard ==
  ASSUME Complete(script), hurt = {}, script.frames \in Seq(Frames)
  PROVE  LET said == HearResponses(Rebuilt) IN
         said.text = HearEvents.text /\ said.cut = HearEvents.cut /\ said.usage = HearEvents.usage
<1> DEFINE frames == script.frames
           N      == Len(frames)
           Of(kinds) == {i \in DOMAIN frames : frames[i].kind \in kinds}
           texts  == {i \in DOMAIN frames : frames[i].kind = "text"}
           last   == CHOOSE i \in Stated(script) : \A j \in Stated(script) : j <= i
<1>1. N \in Nat /\ N > 0 /\ DOMAIN frames = 1 .. N /\ frames[N].kind \in {"completed", "incomplete"}
  BY DEF Complete, Last
<1>2. \A i \in DOMAIN frames : frames[i].kind \in {"completed", "incomplete"} => i = N
  BY DEF Complete
<1>3. \A i \in DOMAIN frames : frames[i].kind \in {"text", "thought"} =>
        \E j \in DOMAIN frames : i < j /\ frames[j].kind = "item"
  BY DEF Complete
<1>4. last = N /\ Stated(script) # {}
  <2>1. N \in Stated(script) /\ \A j \in Stated(script) : j \in Nat /\ j <= N
    BY <1>1 DEF Stated
  <2>2. \A i \in Stated(script) : (\A j \in Stated(script) : j <= i) => i = N
    BY <2>1
  <2> QED
    BY <2>1, <2>2
<1> HIDE DEF last
<1>5. Reconstruct(script).status = frames[N].kind
  BY <1>1, <1>4 DEF Reconstruct, StatusOf, last
<1>6. Reconstruct(script).output = FramesOf(script, texts)
  <2> DEFINE wanted == IF script.full /\ Stated(script) # {} /\ frames[last].kind \in {"completed", "incomplete"}
                       THEN Of({"text"})
                       ELSE IF Of({"item"}) # {} THEN InItems(script) ELSE Of({"text", "thought"})
  <2>1. Reconstruct(script).output = FramesOf(script, wanted)
    BY DEF Reconstruct, last
  <2>2. Of({"text"}) = texts
    OBVIOUS
  <2>3. InItems(script) = texts
    BY <1>3 DEF InItems
  <2>4. Of({"item"}) = {} => Of({"text", "thought"}) = texts
    BY <1>3
  <2>5. wanted = texts
    BY <2>2, <2>3, <2>4
  <2> HIDE DEF wanted, texts
  <2> QED
    BY <2>1, <2>5
<1>7. Rebuilt.output = <<Item("text", "responses", FrameTexts(FramesOf(script, texts), {}))>>
  BY <1>6, Zenon DEF Rebuilt
<1>8. Texts(Rebuilt.output) = FrameTexts(FramesOf(script, texts), {})
  BY <1>7, OneText
<1>9. HearResponses(Rebuilt).text = Texts(Rebuilt.output) /\ HearEvents.text = FrameTexts(FramesOf(script, texts), {})
  BY DEF HearResponses, HearEvents, Heard
<1>10. Rebuilt.status = frames[N].kind /\ Has(Rebuilt, "status")
       /\ Rebuilt.usage = Spent(script) /\ Has(Rebuilt, "usage")
  BY <1>5, Zenon DEF Rebuilt, Has
<1>11. (frames[N].kind = "incomplete") <=> \E i \in DOMAIN frames : frames[i].kind = "incomplete"
  BY <1>1, <1>2
<1> QED
  BY <1>8, <1>9, <1>10, <1>11 DEF HearResponses, HearEvents, Heard, Get

\* What a body in a dialect has, the rebuilt ones too.
Formed(dialect, b) ==
  /\ dialect = "openai"    => Has(b, "choices") /\ b.choices # <<>>
  /\ dialect = "claude"    => Has(b, "content") /\ Has(b, "stop_reason") /\ b.content.form = "array"
  /\ dialect = "gemini"    => Has(b, "candidates")
  /\ dialect = "ollama"    => Has(b, "message")
  /\ dialect = "responses" => Has(b, "output") /\ ~Has(b, "choices")
  /\ Has(b, "usageMetadata") => dialect = "gemini"

SameHeard(h, g) == h.text = g.text /\ h.cut = g.cut /\ h.usage = g.usage

\* A chat's body: it has a choice, and its cost is where a chat has it.
IsChat(c) == Has(c, "choices") /\ c.choices # <<>> /\ ~Has(c, "usageMetadata")

LEMMA ChatIs ==
  ASSUME NEW t, NEW calls, NEW f, NEW u
  PROVE  LET c == Chat(t, calls, f, u) IN
         /\ IsChat(c) /\ ~Has(c, "output") /\ AssistantText(c) = t
         /\ c.choices[1].calls = calls /\ c.choices[1].finish = f
         /\ Has(c, "usage") /\ c.usage = u
<1>1. PICK x : x = [text |-> t, calls |-> calls, finish |-> f]
  OBVIOUS
<1>2. PICK s : s = <<x>>
  OBVIOUS
<1>3. s[1] = x /\ s # <<>> /\ x.text = t /\ x.calls = calls /\ x.finish = f
  BY <1>1, <1>2
<1>4. PICK c : c = [choices |-> s, usage |-> u]
  OBVIOUS
<1>5. c = Chat(t, calls, f, u)
  BY <1>1, <1>2, <1>4 DEF Chat
<1>6. Has(c, "choices") /\ c.choices = s /\ Has(c, "usage") /\ c.usage = u
      /\ ~Has(c, "usageMetadata") /\ ~Has(c, "output")
  BY <1>4 DEF Has
<1> QED
  BY <1>3, <1>5, <1>6 DEF IsChat, AssistantText

\* A chat that is made of an answer says what the answer says.
LEMMA ToOpenAIHeard ==
  ASSUME NEW d \in Dialects, NEW b, Formed(d, b), ~Bad(ToOpenAI(d, b))
  PROVE  LET c == ToOpenAI(d, b) IN
         /\ IsChat(c) /\ SameHeard(HearChat(c), Hear(d, b))
         /\ d # "responses" => HearChat(c).calls = Hear(d, b).calls
         /\ d # "openai" => ~Has(c, "output")
<1> DEFINE c == ToOpenAI(d, b)
<1>1. CASE d = "openai"
  <2>1. c = b /\ Hear(d, b) = HearChat(b)
    BY <1>1 DEF ToOpenAI, Hear
  <2> QED
    BY <1>1, <2>1 DEF Formed, IsChat, SameHeard
<1>2. CASE d = "claude"
  <2> DEFINE items == b.content.items
             found == OfKind(items, "call")
             calls == MapSeq(found, LAMBDA x : [id |-> x.of, name |-> x.name])
             finish == ClaudeStop(b.stop_reason)
             u     == Get(b, "usage", NoUsage)
  <2>1. c = Chat(TextOf(b.content), calls, finish, u)
    BY <1>2, Zenon DEF ToOpenAI, ClaudeToOpenAI, Formed, Get, Has
  <2>2. NamesOf(calls) = NamesOf(found)
    <3>1. PICK s : s = found
      OBVIOUS
    <3>2. NamesOf(MapSeq(s, LAMBDA x : [id |-> x.of, name |-> x.name])) = NamesOf(s)
      BY DEF NamesOf, MapSeq
    <3> QED
      BY <3>1, <3>2
  <2>3. Hear(d, b) = Heard(TextOf(b.content), NamesOf(found), b.stop_reason = "max_tokens", u)
    BY <1>2, Zenon DEF Hear, HearClaude
  <2>4. (finish = "length") <=> (b.stop_reason = "max_tokens")
    BY DEF ClaudeStop
  <2> HIDE DEF calls, finish, u, found, c
  <2>5. /\ IsChat(c) /\ ~Has(c, "output") /\ AssistantText(c) = TextOf(b.content)
        /\ c.choices[1].calls = calls /\ c.choices[1].finish = finish
        /\ Has(c, "usage") /\ c.usage = u
    BY <2>1, ChatIs
  <2>6. HearChat(c) = Heard(TextOf(b.content), NamesOf(calls), finish = "length", u)
    BY <2>5 DEF HearChat, Get
  <2> QED
    BY <2>2, <2>3, <2>4, <2>5, <2>6 DEF SameHeard, Heard, c
<1>3. CASE d = "gemini"
  <2> DEFINE first == b.candidates[1]
             found == OfKind(first.parts, "call")
             calls == MapSeq(found, LAMBDA x : [id |-> "", name |-> x.name])
             finish == GeminiFinish(first.finish)
             u     == Get(b, "usageMetadata", NoUsage)
  <2>1. c = Chat(TextOf(Arr(first.parts)), calls, finish, u)
    <3>1. c = GeminiToOpenAI(b)
      BY <1>3 DEF ToOpenAI
    <3>2. Get(b, "candidates", <<>>) # <<>>
      BY <3>1, Zenon DEF GeminiToOpenAI, Bad
    <3> QED
      BY <3>1, <3>2, Zenon DEF GeminiToOpenAI
  <2>2. NamesOf(calls) = NamesOf(found)
    <3>1. PICK s : s = found
      OBVIOUS
    <3>2. NamesOf(MapSeq(s, LAMBDA x : [id |-> "", name |-> x.name])) = NamesOf(s)
      BY DEF NamesOf, MapSeq
    <3> QED
      BY <3>1, <3>2
  <2>3. Hear(d, b) = Heard(TextOf(Arr(first.parts)), NamesOf(found), first.finish = "MAX_TOKENS", u)
    BY <1>3, Zenon DEF Hear, HearGemini
  <2>4. (finish = "length") <=> (first.finish = "MAX_TOKENS")
    BY DEF GeminiFinish
  <2> HIDE DEF calls, finish, u, found, c
  <2>5. /\ IsChat(c) /\ ~Has(c, "output") /\ AssistantText(c) = TextOf(Arr(first.parts))
        /\ c.choices[1].calls = calls /\ c.choices[1].finish = finish
        /\ Has(c, "usage") /\ c.usage = u
    BY <2>1, ChatIs
  <2>6. HearChat(c) = Heard(TextOf(Arr(first.parts)), NamesOf(calls), finish = "length", u)
    BY <2>5 DEF HearChat, Get
  <2> QED
    BY <2>2, <2>3, <2>4, <2>5, <2>6 DEF SameHeard, Heard, c
<1>4. CASE d = "ollama"
  <2> DEFINE finish == IF Get(b, "done", FALSE) THEN "stop" ELSE "null"
             u == Get(b, "eval", NoUsage)
  <2>1. c = Chat(b.message.text, b.message.calls, finish, u)
    BY <1>4, Zenon DEF ToOpenAI, OllamaToOpenAI, Formed, Get, Has
  <2>2. Hear(d, b) = Heard(b.message.text, NamesOf(b.message.calls), FALSE, u)
    BY <1>4, Zenon DEF Hear, HearOllama
  <2>3. finish # "length"
    OBVIOUS
  <2> HIDE DEF finish, u, c
  <2>4. /\ IsChat(c) /\ ~Has(c, "output") /\ AssistantText(c) = b.message.text
        /\ c.choices[1].calls = b.message.calls /\ c.choices[1].finish = finish
        /\ Has(c, "usage") /\ c.usage = u
    BY <2>1, ChatIs
  <2>5. HearChat(c) = Heard(b.message.text, NamesOf(b.message.calls), finish = "length", u)
    BY <2>4 DEF HearChat, Get
  <2> QED
    BY <2>2, <2>3, <2>4, <2>5 DEF SameHeard, Heard, c
<1>5. CASE d = "responses"
  <2> DEFINE status == Get(b, "status", "completed")
             finish == CASE status = "incomplete" -> "length" [] status = "failed" -> "error" [] OTHER -> "stop"
             u == Get(b, "usage", NoUsage)
  <2>1. c = Chat(Texts(b.output), <<>>, finish, u)
    BY <1>5, Zenon DEF ToOpenAI, ResponsesToOpenAI, Formed, Get, Has
  <2>2. Hear(d, b) = Heard(Texts(b.output), NamesOf(OfKind(b.output, "call")), status = "incomplete", u)
    BY <1>5, Zenon DEF Hear, HearResponses
  <2>3. (finish = "length") <=> (status = "incomplete")
    OBVIOUS
  <2> HIDE DEF finish, u, c, status
  <2>4. /\ IsChat(c) /\ ~Has(c, "output") /\ AssistantText(c) = Texts(b.output)
        /\ c.choices[1].finish = finish
        /\ Has(c, "usage") /\ c.usage = u
    BY <2>1, ChatIs
  <2>5. /\ HearChat(c).text = Texts(b.output) /\ HearChat(c).cut = (finish = "length")
        /\ HearChat(c).usage = u
    BY <2>4 DEF HearChat, Get, Heard
  <2>6. /\ Hear(d, b).text = Texts(b.output) /\ Hear(d, b).cut = (status = "incomplete") /\ Hear(d, b).usage = u
    BY <2>2 DEF Heard
  <2> QED
    BY <1>5, <2>3, <2>4, <2>5, <2>6 DEF SameHeard, c
<1> QED
  BY <1>1, <1>2, <1>3, <1>4, <1>5 DEF Dialects

\* What is made of a chat for a client says what the chat says, as far as the client is told.
LEMMA AdaptIsHeard ==
  ASSUME NEW c, IsChat(c), endpoint \in Family, endpoint = "responses" => ~Has(c, "output")
  PROVE  LET heard == Hear(ClientDialect, AdaptTo(endpoint, c)) IN
         /\ heard.text = HearChat(c).text
         /\ endpoint \in {"chat", "completions", "messages"} =>
              SameHeard(heard, HearChat(c)) /\ ExtractUsage(AdaptTo(endpoint, c)) = HearChat(c).usage
         /\ endpoint \in {"chat", "completions"} => heard.calls = HearChat(c).calls
<1>1. HearChat(c) = Heard(AssistantText(c), NamesOf(c.choices[1].calls), c.choices[1].finish = "length",
                          Get(c, "usage", NoUsage))
  BY DEF HearChat
<1>2. HearChat(c).text = AssistantText(c) /\ HearChat(c).usage = Get(c, "usage", NoUsage)
      /\ HearChat(c).cut = (c.choices[1].finish = "length")
  BY DEF HearChat, Heard
<1>3. CASE endpoint \in {"chat", "completions"}
  <2>1. AdaptTo(endpoint, c) = c /\ Hear(ClientDialect, c) = HearChat(c)
    BY <1>3 DEF AdaptTo, Hear, ClientDialect
  <2>2. ExtractUsage(c) = Get(c, "usage", NoUsage)
    BY DEF ExtractUsage, Get, Has, IsChat
  <2> QED
    BY <1>2, <2>1, <2>2 DEF SameHeard
<1>4. CASE endpoint = "messages"
  <2> DEFINE a == AdaptToMessages(c)
             x == [content     |-> Arr(<<Item("text", "claude", AssistantText(c))>>),
                   stop_reason |-> MessagesStopReason(c.choices[1].finish)]
  <2>1. AdaptTo(endpoint, c) = a /\ ClientDialect = "claude"
    BY <1>4 DEF AdaptTo, ClientDialect
  <2>2. a = x ++ Only(c, {"usage"})
    BY Zenon DEF AdaptToMessages, IsChat
  <2>3. PICK items : items = <<Item("text", "claude", AssistantText(c))>>
    OBVIOUS
  <2>4. /\ Has(x, "content") /\ x.content = Arr(items)
        /\ Has(x, "stop_reason") /\ x.stop_reason = MessagesStopReason(c.choices[1].finish)
        /\ ~Has(x, "usage") /\ ~Has(x, "usageMetadata")
    BY <2>3 DEF Has
  <2>5. /\ Has(Only(c, {"usage"}), "usage") <=> Has(c, "usage")
        /\ ~Has(Only(c, {"usage"}), "usageMetadata")
        /\ Has(c, "usage") => Only(c, {"usage"}).usage = c.usage
    BY DEF Only, Has
  <2> HIDE DEF a, x
  <2>6. /\ a.content = Arr(items) /\ a.stop_reason = MessagesStopReason(c.choices[1].finish)
        /\ Get(a, "usage", NoUsage) = Get(c, "usage", NoUsage) /\ ~Has(a, "usageMetadata")
    BY <2>2, <2>4, <2>5, OverIs DEF Get
  <2>7. TextOf(a.content) = AssistantText(c)
    BY <2>3, <2>6, OneText DEF TextOf, Arr
  <2>8. (a.stop_reason = "max_tokens") <=> (c.choices[1].finish = "length")
    BY <2>6 DEF MessagesStopReason
  <2>9. Hear(ClientDialect, a) = HearClaude(a)
    BY <2>1 DEF Hear
  <2>10. /\ HearClaude(a).text = TextOf(a.content) /\ HearClaude(a).usage = Get(a, "usage", NoUsage)
         /\ HearClaude(a).cut = (a.stop_reason = "max_tokens")
    BY DEF HearClaude, Heard
  <2>11. ExtractUsage(a) = Get(a, "usage", NoUsage)
    BY <2>6 DEF ExtractUsage, Get
  <2> QED
    BY <1>2, <1>4, <2>1, <2>6, <2>7, <2>8, <2>9, <2>10, <2>11 DEF SameHeard
<1>5. CASE endpoint = "ollama"
  <2> DEFINE m == [text |-> AssistantText(c), calls |-> <<>>]
             a == AdaptToOllama(c)
  <2>1. m.text = AssistantText(c)
    OBVIOUS
  <2>2. a = [message |-> m, done |-> TRUE]
    BY DEF AdaptToOllama
  <2> HIDE DEF m
  <2>3. a.message = m
    BY <2>2
  <2>4. AdaptTo(endpoint, c) = a /\ Hear(ClientDialect, a) = HearOllama(a)
    BY <1>5 DEF AdaptTo, ClientDialect, Hear
  <2> HIDE DEF a
  <2>5. HearOllama(a).text = AssistantText(c)
    BY <2>1, <2>3 DEF HearOllama, Heard
  <2> QED
    BY <1>2, <1>5, <2>4, <2>5
<1>6. CASE endpoint = "responses"
  <2>1. PICK items : items = <<Item("text", "responses", AssistantText(c))>>
    OBVIOUS
  <2> DEFINE a == AdaptToResponses(c)
  <2>2. a = [output |-> items]
    BY <1>6, <2>1 DEF AdaptToResponses
  <2>3. a.output = items
    BY <2>2
  <2>4. AdaptTo(endpoint, c) = a /\ Hear(ClientDialect, a) = HearResponses(a)
    BY <1>6 DEF AdaptTo, ClientDialect, Hear
  <2> HIDE DEF a
  <2>5. HearResponses(a).text = Texts(items)
    BY <2>3 DEF HearResponses, Heard
  <2> QED
    BY <1>2, <1>6, <2>1, <2>4, <2>5, OneText
<1> QED
  BY <1>3, <1>4, <1>5, <1>6 DEF Family

LEMMA RebuiltIsFormed == Formed("responses", Rebuilt) /\ Has(Rebuilt, "output")
<1>1. \A o, t, u : LET b == [output |-> o, status |-> t, usage |-> u] IN
        Has(b, "output") /\ ~Has(b, "choices") /\ ~Has(b, "usageMetadata")
  BY DEF Has
<1>2. Has(Rebuilt, "output") /\ ~Has(Rebuilt, "choices") /\ ~Has(Rebuilt, "usageMetadata")
  BY <1>1, Zenon DEF Rebuilt
<1> QED
  BY <1>2 DEF Formed

LEMMA ReplyIsFormed ==
  ASSUME NEW d \in Dialects, NEW r, IsAnswer(d, r)
  PROVE  Formed(d, r) /\ r # Events
<1>1. Formed(d, r)
  BY DEF IsAnswer, Formed, Has, Dialects
<1>2. {"choices", "content", "candidates", "message", "output"} \cap DOMAIN r # {}
  BY <1>1 DEF Formed, Has, Dialects
<1> QED
  BY <1>1, <1>2 DEF Events

\* A body of Responses, for a client that does not stream, is what the upstream has said.
LEMMA SuccessIsSaid ==
  ASSUME ~Streams, reply = Events \/ Has(reply, "output")
  PROVE  ResponsesSuccess(reply) = SaidBody
BY DEF ResponsesSuccess, SaidBody, AdaptToResponses

LEMMA ChatIsNoError == ASSUME NEW c, IsChat(c) PROVE ~Bad(c) /\ c # Events
BY DEF IsChat, Bad, Error, Events, Has

LEMMA FromResponses ==
  ASSUME NEW b, Formed("responses", b)
  PROVE  LET c == ToOpenAI("responses", b) IN c = ResponsesToOpenAI(b) /\ IsChat(c) /\ ~Has(c, "output")
<1> DEFINE c == ToOpenAI("responses", b)
<1>1. c = ResponsesToOpenAI(b)
  BY DEF ToOpenAI
<1>2. PICK t, f, u : c = Chat(t, <<>>, f, u)
  BY <1>1, Zenon DEF ResponsesToOpenAI, Formed
<1> HIDE DEF c
<1>3. IsChat(c) /\ ~Has(c, "output")
  BY <1>2, ChatIs
<1> QED
  BY <1>1, <1>3 DEF c

\* The answer is what the upstream has said, in the dialect of both; or it is made of a chat
\* that is made of that.
LEMMA AnswerIs ==
  ASSUME Exchanged, stage = "answered", endpoint \in Family, OneDialect, ~Streams
  PROVE  LET D == Speaks(endpoint, provider)
             C == ToOpenAI(D, SaidBody)
         IN  /\ Formed(D, SaidBody) /\ (reply = Events => D = "responses")
             /\ counted = ExtractUsage(answer)
             /\ \/ ClientDialect = D /\ answer = SaidBody
                \/ /\ DetectSource(endpoint, normal) # D /\ answer = AdaptTo(endpoint, C) /\ ~Bad(C)
                   /\ endpoint = "responses" => D # "openai"
<1> DEFINE S == DetectSource(endpoint, normal)
           T == FromProvider(provider)
           D == Speaks(endpoint, provider)
           R == SaidBody
           C == ToOpenAI(D, R)
<1>1. /\ endpoint = "messages"  => S = "claude" /\ ClientDialect = "claude"
      /\ endpoint = "responses" => S \in {"openai", "responses"} /\ ClientDialect = "responses"
      /\ endpoint = "ollama"    => S = "ollama" /\ ClientDialect = "ollama"
      /\ endpoint \in {"chat", "completions"} => S = "openai" /\ ClientDialect = "openai"
  BY DEF DetectSource, ClientDialect
<1>2. /\ D = IF T = "openai" /\ endpoint = "responses" THEN "responses" ELSE T
      /\ T \in Dialects /\ D \in Dialects
  BY Dialectal, SpeaksDialect DEF OneDialect, Speaks
<1>3. endpoint \in {"chat", "completions", "messages", "responses", "ollama"}
  BY DEF Family
<1>4. /\ ~Bad(answer) /\ counted = ExtractUsage(answer)
      /\ (CameWhole /\ answer = Buffered) \/ (CameStreamed /\ answer = Collected)
  BY DEF Exchanged, AsAnswered
<1>5. CASE CameWhole /\ answer = Buffered
  <2>1. \/ IsAnswer(D, reply)
        \/ reply = Events /\ D = "responses"
    BY <1>2, <1>3, <1>5, RepliesAssumption DEF CameWhole
  <2>2. /\ Formed(D, R) /\ (reply = Events => D = "responses")
        /\ reply # Events => R = reply
    <3>1. CASE IsAnswer(D, reply)
      BY <1>2, <3>1, ReplyIsFormed DEF SaidBody
    <3>2. CASE reply = Events /\ D = "responses"
      BY <3>2, RebuiltIsFormed DEF SaidBody
    <3> QED
      BY <2>1, <3>1, <3>2
  <2>3. D = "responses" => ResponsesSuccess(reply) = R
    BY <2>2, SuccessIsSaid DEF Formed
  <2>4. Received = reply
    BY <1>3 DEF Received
  <2>5. answer = (IF S = T THEN SameDialect ELSE OtherDialect)
    BY <1>4, <1>5 DEF Buffered, Bad
  <2>6. CASE S = T
    <3>1. SameDialect = IF endpoint = "responses" THEN ResponsesSuccess(reply)
                        ELSE IF reply = Events THEN Capture(reply) ELSE reply
      BY <2>4 DEF SameDialect
    <3>2. ClientDialect = D /\ answer = R
      <4> HIDE DEF S, T, D, R
      <4> QED
        BY <1>1, <1>2, <1>3, <2>2, <2>3, <2>5, <2>6, <3>1
    <3> QED
      BY <1>4, <2>2, <3>2
  <2>7. CASE S # T
    <3>1. OtherDialect # Error /\ answer = OtherDialect
      BY <1>4, <2>5, <2>7 DEF Bad
    <3>2. ~Bad(ForAdapt)
      BY <3>1 DEF OtherDialect
    <3>3. ForAdapt = IF T = "responses" THEN ResponsesToOpenAI(ResponsesSuccess(reply)) ELSE ToOpenAI(T, reply)
      BY <2>4 DEF ForAdapt
    <3>4. D = "responses" => C = ResponsesToOpenAI(R) /\ IsChat(C) /\ ~Has(C, "output")
      <4> HIDE DEF R
      <4> QED
        BY <2>2, FromResponses
    <3>5. CASE T = "openai" /\ endpoint = "responses"
      <4>1. ForAdapt = reply
        BY <3>3, <3>5 DEF ToOpenAI
      <4>2. answer = ResponsesSuccess(reply)
        BY <3>1, <3>2, <3>5, <4>1 DEF OtherDialect
      <4>3. ClientDialect = D /\ answer = R
        BY <1>1, <1>2, <2>3, <3>5, <4>2
      <4> QED
        BY <1>4, <2>2, <4>3
    <3>6. CASE ~(T = "openai" /\ endpoint = "responses")
      <4>1. D = T /\ S # D
        BY <1>2, <2>7, <3>6
      <4>2. ForAdapt = C
        <5>1. CASE T = "responses"
          BY <2>3, <3>3, <3>4, <4>1, <5>1
        <5>2. CASE T # "responses"
          <6>1. R = reply
            BY <2>2, <4>1, <5>2
          <6> QED
            BY <3>3, <4>1, <5>2, <6>1
        <5> QED
          BY <5>1, <5>2
      <4>3. ~Bad(C)
        BY <3>2, <4>2
      <4>4. CASE endpoint # "responses"
        <5>1. answer = AdaptTo(endpoint, C)
          BY <3>1, <3>2, <4>2, <4>4 DEF OtherDialect
        <5> QED
          BY <1>4, <2>2, <4>1, <4>3, <4>4, <5>1
      <4>5. CASE endpoint = "responses"
        <5>1. answer = ResponsesSuccess(C)
          BY <3>1, <3>2, <4>2, <4>5 DEF OtherDialect
        <5>2. IsChat(C)
          <6> HIDE DEF R, D
          <6> QED
            BY <1>2, <2>2, <4>3, ToOpenAIHeard
        <5>3. ResponsesSuccess(C) = AdaptToResponses(C)
          BY <5>2, ChatIsNoError DEF ResponsesSuccess
        <5>4. answer = AdaptTo(endpoint, C)
          BY <4>5, <5>1, <5>3 DEF AdaptTo
        <5> QED
          BY <1>4, <2>2, <3>6, <4>1, <4>3, <4>5, <5>4
      <4> QED
        BY <4>4, <4>5
    <3> QED
      BY <3>5, <3>6
  <2> QED
    BY <2>6, <2>7
<1>6. CASE CameStreamed /\ answer = Collected
  <2>1. reply = Events /\ D = "responses"
    BY <1>6 DEF CameStreamed
  <2>2. R = Rebuilt /\ Formed(D, R)
    BY <2>1, RebuiltIsFormed DEF SaidBody
  <2>3. C = ResponsesToOpenAI(R) /\ IsChat(C) /\ ~Bad(C)
    <3> HIDE DEF R
    <3> QED
      BY <2>1, <2>2, FromResponses, ChatIsNoError
  <2>4. answer = IF endpoint = "responses" THEN R ELSE AdaptTo(endpoint, C)
    BY <1>4, <1>6, <2>2, <2>3 DEF Collected, Bad
  <2>5. endpoint # "responses" => S # D
    BY <1>1, <1>3, <2>1
  <2> QED
    BY <1>1, <1>4, <2>1, <2>2, <2>3, <2>4, <2>5
<1> QED
  BY <1>4, <1>5, <1>6

LEMMA AllHeard ==
  ASSUME Exchanged, stage = "answered", endpoint \in Family, OneDialect
  PROVE  HeardAsSaid
<1> SUFFICES ASSUME ~Streams, reply = Events => Complete(script) /\ hurt = {}
             PROVE  LET said   == IF reply = Events THEN HearEvents ELSE Hear(Speaks(endpoint, provider), reply)
                        heard  == Hear(ClientDialect, answer)
                        direct == DetectSource(endpoint, normal) = Speaks(endpoint, provider)
                    IN  /\ heard.text = said.text
                        /\ endpoint \in {"chat", "completions"} /\ Speaks(endpoint, provider) # "responses" =>
                             heard.calls = said.calls
                        /\ direct \/ endpoint \in {"chat", "completions", "messages"} =>
                             /\ heard.cut = said.cut
                             /\ heard.usage = said.usage
                             /\ ClientDialect # "ollama" => counted = said.usage
  BY DEF HeardAsSaid
<1> DEFINE D     == Speaks(endpoint, provider)
           C     == ToOpenAI(D, SaidBody)
           said  == IF reply = Events THEN HearEvents ELSE Hear(D, reply)
           heard == Hear(ClientDialect, answer)
<1>1. /\ D \in Dialects /\ Formed(D, SaidBody) /\ (reply = Events => D = "responses")
      /\ counted = ExtractUsage(answer)
      /\ \/ ClientDialect = D /\ answer = SaidBody
         \/ /\ DetectSource(endpoint, normal) # D /\ answer = AdaptTo(endpoint, C) /\ ~Bad(C)
            /\ endpoint = "responses" => D # "openai"
  BY AnswerIs, SpeaksDialect
<1>2. SameHeard(Hear(D, SaidBody), said) /\ (D # "responses" => Hear(D, SaidBody).calls = said.calls)
  <2>1. CASE reply = Events
    <3>1. script.frames \in Seq(Frames)
      BY FramesCameIn DEF Exchanged, IInv
    <3>2. Hear(D, SaidBody) = HearResponses(Rebuilt)
      BY <1>1, <2>1 DEF Hear, SaidBody
    <3> QED
      BY <1>1, <2>1, <3>1, <3>2, EventsAreHeard DEF SameHeard
  <2>2. CASE reply # Events
    BY <2>2 DEF SaidBody, SameHeard
  <2> QED
    BY <2>1, <2>2
<1>3. CASE ClientDialect = D /\ answer = SaidBody
  <2>1. heard = Hear(D, SaidBody)
    BY <1>3
  <2>2. ClientDialect # "ollama" => ExtractUsage(SaidBody) = Hear(D, SaidBody).usage
    <3>1. ClientDialect \in {"openai", "claude", "responses", "ollama"}
      BY DEF ClientDialect
    <3>2. D \in {"openai", "claude", "responses"} => ExtractUsage(SaidBody) = Get(SaidBody, "usage", NoUsage)
      BY <1>1 DEF ExtractUsage, Get, Formed
    <3>3. \A b : /\ HearChat(b).usage = Get(b, "usage", NoUsage)
                 /\ HearClaude(b).usage = Get(b, "usage", NoUsage)
                 /\ HearResponses(b).usage = Get(b, "usage", NoUsage)
      BY DEF HearChat, HearClaude, HearResponses, Heard
    <3>4. D \in {"openai", "claude", "responses"} => Hear(D, SaidBody).usage = Get(SaidBody, "usage", NoUsage)
      BY <3>3 DEF Hear
    <3> QED
      BY <1>3, <3>1, <3>2, <3>4
  <2> HIDE DEF heard, said, D
  <2>3. /\ heard.text = said.text /\ heard.cut = said.cut /\ heard.usage = said.usage
        /\ D # "responses" => heard.calls = said.calls
        /\ ClientDialect # "ollama" => counted = said.usage
    BY <1>1, <1>2, <1>3, <2>1, <2>2 DEF SameHeard
  <2> QED
    BY <2>3 DEF heard, said, D
<1>4. CASE /\ DetectSource(endpoint, normal) # D /\ answer = AdaptTo(endpoint, C) /\ ~Bad(C)
           /\ endpoint = "responses" => D # "openai"
  <2>1. /\ IsChat(C) /\ SameHeard(HearChat(C), Hear(D, SaidBody))
        /\ D # "responses" => HearChat(C).calls = Hear(D, SaidBody).calls
        /\ D # "openai" => ~Has(C, "output")
    <3> HIDE DEF D
    <3> QED
      BY <1>1, <1>4, ToOpenAIHeard
  <2> HIDE DEF C
  <2>2. /\ heard.text = HearChat(C).text
        /\ endpoint \in {"chat", "completions", "messages"} =>
             SameHeard(heard, HearChat(C)) /\ ExtractUsage(answer) = HearChat(C).usage
        /\ endpoint \in {"chat", "completions"} => heard.calls = HearChat(C).calls
    BY <1>4, <2>1, AdaptIsHeard
  <2> HIDE DEF heard, said, D
  <2>3. /\ heard.text = said.text
        /\ endpoint \in {"chat", "completions"} /\ D # "responses" => heard.calls = said.calls
        /\ endpoint \in {"chat", "completions", "messages"} =>
             heard.cut = said.cut /\ heard.usage = said.usage /\ counted = said.usage
    BY <1>1, <1>2, <2>1, <2>2 DEF SameHeard
  <2> QED
    BY <1>4, <2>3 DEF heard, said, D
<1> QED
  BY <1>1, <1>3, <1>4

\* For any requests, providers, answers and streams: a client that does not stream hears what the
\* upstream has said: the same text, and, where the client's dialect has them, the same calls,
\* whether the answer was cut off and what it has cost, which is what is counted, whichever
\* dialects lie between and whether the upstream has answered in JSON or in events; a search's
\* results are the engine's, in their order; and the cost of an adapted stream that has come in
\* whole is counted once it is logged (service.rs:2533, 2721, claude_to_openai.rs:7,
\* gemini_to_openai.rs:8, search.rs:197, cost.rs:267).
THEOREM AnswersAreHeard == Spec => []AnsweredAsReplied
<1>1. Exchanged => AnsweredAsReplied
  BY AllHeard, AllFound, CostOfStream DEF AnsweredAsReplied
<1> QED
  BY <1>1, ExchangeInvariant, PTL
-------------------------------------------------------------------------------
(***************************************************************************)
(* The headers                                                             *)
(***************************************************************************)
\* s has the headers of H, which are pairs, each once, and no name twice.
Once(s, H) ==
  /\ s \in Seq(H)
  /\ \A h \in H : \E i \in DOMAIN s : s[i] = h
  /\ \A i, j \in DOMAIN s : s[i][1] = s[j][1] => i = j

NamesIn(H) == {h[1] : h \in H}

LEMMA SetToSeqIs ==
  ASSUME NEW S, IsFiniteSet(S)
  PROVE  /\ SetToSeq(S) \in Seq(S)
         /\ \A x \in S : \E i \in DOMAIN SetToSeq(S) : SetToSeq(S)[i] = x
         /\ \A i, j \in DOMAIN SetToSeq(S) : SetToSeq(S)[i] = SetToSeq(S)[j] => i = j
<1> DEFINE n == Cardinality(S)
           Is(f) == f \in [1 .. n -> S] /\ IsInjective(f)
           f == CHOOSE g \in [1 .. n -> S] : IsInjective(g)
<1>1. n \in Nat /\ ExistsBijection(1 .. n, S)
  BY FS_CardinalityType
<1>2. \E g \in [1 .. n -> S] : IsInjective(g)
  <2>1. PICK g \in Bijection(1 .. n, S) : TRUE
    BY <1>1 DEF ExistsBijection
  <2> QED
    BY <2>1 DEF Bijection, Injection, IsInjective
<1>3. f \in [1 .. n -> S] /\ IsInjective(f)
  BY <1>2
<1>4. SetToSeq(S) = f
  BY DEF SetToSeq
<1> HIDE DEF f
<1>5. f \in Injection(1 .. n, S)
  BY <1>3 DEF Injection, IsInjective
<1>6. f \in Surjection(1 .. n, S)
  <2>1. IsFiniteSet(1 .. n) /\ Cardinality(1 .. n) = n
    BY <1>1, FS_Interval
  <2> QED
    BY <1>5, <2>1, FS_Injection
<1>7. \A x \in S : \E i \in 1 .. n : f[i] = x
  BY <1>6 DEF Surjection
<1> HIDE DEF n
<1>8. f \in Seq(S) /\ DOMAIN f = 1 .. n
  BY <1>1, <1>3
<1> QED
  BY <1>3, <1>4, <1>7, <1>8 DEF IsInjective

Labelled(names, whose) == {<<n, whose>> : n \in names}

LEMMA FromIs ==
  ASSUME NEW names, IsFiniteSet(names), NEW whose
  PROVE  Once(From(names, whose), Labelled(names, whose))
<1>1. PICK s : s = SetToSeq(names)
  OBVIOUS
<1>2. /\ s \in Seq(names) /\ \A x \in names : \E i \in DOMAIN s : s[i] = x
      /\ \A i, j \in DOMAIN s : s[i] = s[j] => i = j
  BY <1>1, SetToSeqIs
<1> DEFINE t == From(names, whose)
           H == Labelled(names, whose)
<1>3. t = [i \in DOMAIN s |-> <<s[i], whose>>]
  BY <1>1 DEF From, MapSeq
<1>4. DOMAIN t = DOMAIN s /\ \A i \in DOMAIN s : t[i] = <<s[i], whose>>
  BY <1>3
<1>5. t \in Seq(H)
  <2>1. Len(s) \in Nat /\ DOMAIN s = 1 .. Len(s) /\ \A i \in DOMAIN s : s[i] \in names
    BY <1>2
  <2>2. t \in [1 .. Len(s) -> H]
    BY <1>3, <2>1 DEF Labelled
  <2> HIDE DEF t, H
  <2> QED
    BY <2>1, <2>2
<1>6. \A i \in DOMAIN s : t[i][1] = s[i]
  BY <1>4
<1>7. \A h \in H : \E i \in DOMAIN t : t[i] = h
  BY <1>2, <1>4 DEF Labelled
<1> HIDE DEF t, H
<1> QED
  BY <1>2, <1>4, <1>5, <1>6, <1>7 DEF Once, t, H

LEMMA OnceJoined ==
  ASSUME NEW s, NEW H, Once(s, H), NEW t, NEW J, Once(t, J), NamesIn(H) \cap NamesIn(J) = {}
  PROVE  Once(s \o t, H \cup J)
<1>1. s \in Seq(H \cup J) /\ t \in Seq(H \cup J)
  BY DEF Once
<1>2. s \o t \in Seq(H \cup J) /\ Len(s) \in Nat /\ Len(t) \in Nat /\ DOMAIN s = 1 .. Len(s) /\ DOMAIN t = 1 .. Len(t)
      /\ DOMAIN (s \o t) = 1 .. Len(s) + Len(t)
  BY <1>1
<1>3. /\ \A i \in 1 .. Len(s) : (s \o t)[i] = s[i]
      /\ \A i \in 1 .. Len(t) : (s \o t)[Len(s) + i] = t[i]
  BY <1>1
<1>4. \A i \in DOMAIN s : s[i] \in H
  BY DEF Once
<1>5. \A i \in DOMAIN t : t[i] \in J
  BY DEF Once
<1>6. \A h \in H \cup J : \E i \in DOMAIN (s \o t) : (s \o t)[i] = h
  <2>1. ASSUME NEW h \in H PROVE \E i \in DOMAIN (s \o t) : (s \o t)[i] = h
    <3>1. PICK i \in DOMAIN s : s[i] = h
      BY DEF Once
    <3> QED
      BY <1>2, <1>3, <3>1
  <2>2. ASSUME NEW h \in J PROVE \E i \in DOMAIN (s \o t) : (s \o t)[i] = h
    <3>1. PICK i \in DOMAIN t : t[i] = h
      BY DEF Once
    <3>2. Len(s) + i \in DOMAIN (s \o t)
      BY <1>2
    <3> QED
      BY <1>2, <1>3, <3>1, <3>2
  <2> QED
    BY <2>1, <2>2
<1>7. ASSUME NEW i \in DOMAIN (s \o t), NEW j \in DOMAIN (s \o t), (s \o t)[i][1] = (s \o t)[j][1]
      PROVE  i = j
  <2> DEFINE u == s \o t
             m == Len(s)
  <2>1. \A k \in DOMAIN u : \/ k \in DOMAIN s /\ u[k] = s[k]
                            \/ \E l \in DOMAIN t : k = m + l /\ u[k] = t[l]
    <3> SUFFICES ASSUME NEW k \in DOMAIN u, k \notin DOMAIN s
                 PROVE  \E l \in DOMAIN t : k = m + l /\ u[k] = t[l]
      BY <1>2, <1>3
    <3>1. k - m \in DOMAIN t /\ k = m + (k - m)
      BY <1>2
    <3> QED
      BY <1>2, <1>3, <3>1
  <2>2. \A k \in DOMAIN s : s[k][1] \in NamesIn(H)
    BY <1>4 DEF NamesIn
  <2>3. \A k \in DOMAIN t : t[k][1] \in NamesIn(J)
    BY <1>5 DEF NamesIn
  <2> HIDE DEF u, m
  <2>4. u[i][1] = u[j][1]
    BY <1>7 DEF u
  <2>5. i \in DOMAIN u /\ j \in DOMAIN u
    BY DEF u
  <2>6. CASE i \in DOMAIN s /\ u[i] = s[i]
    <3>1. CASE j \in DOMAIN s /\ u[j] = s[j]
      BY <2>4, <2>6, <3>1 DEF Once
    <3>2. CASE \E l \in DOMAIN t : j = m + l /\ u[j] = t[l]
      BY <2>2, <2>3, <2>4, <2>6, <3>2
    <3> QED
      BY <2>1, <2>5, <3>1, <3>2
  <2>7. CASE \E l \in DOMAIN t : i = m + l /\ u[i] = t[l]
    <3>1. CASE j \in DOMAIN s /\ u[j] = s[j]
      BY <2>2, <2>3, <2>4, <2>7, <3>1
    <3>2. CASE \E l \in DOMAIN t : j = m + l /\ u[j] = t[l]
      <4>1. PICK k \in DOMAIN t, l \in DOMAIN t : i = m + k /\ u[i] = t[k] /\ j = m + l /\ u[j] = t[l]
        BY <2>7, <3>2
      <4>2. t[k][1] = t[l][1]
        BY <2>4, <4>1
      <4>3. k = l
        BY <4>2 DEF Once
      <4> QED
        BY <4>1, <4>3
    <3> QED
      BY <2>1, <2>5, <3>1, <3>2
  <2> QED
    BY <2>1, <2>5, <2>6, <2>7
<1> QED
  BY <1>2, <1>6, <1>7 DEF Once

LEMMA NamesOfLabelled == ASSUME NEW S, NEW w PROVE NamesIn(Labelled(S, w)) = S
<1>1. ASSUME NEW n \in S PROVE n \in NamesIn(Labelled(S, w))
  <2>1. PICK h : h = <<n, w>>
    OBVIOUS
  <2>2. h \in Labelled(S, w) /\ h[1] = n
    BY <2>1 DEF Labelled
  <2> QED
    BY <2>2 DEF NamesIn
<1>2. ASSUME NEW n \in NamesIn(Labelled(S, w)) PROVE n \in S
  BY <1>2 DEF NamesIn, Labelled
<1> QED
  BY <1>1, <1>2

LEMMA NamesOfBoth == ASSUME NEW H, NEW J PROVE NamesIn(H \cup J) = NamesIn(H) \cup NamesIn(J)
BY DEF NamesIn

\* Which headers a name goes out with.
LEMMA WhoseAre ==
  ASSUME NEW s, NEW H, Once(s, H), NEW n
  PROVE  OfWhom(s, n) = {h[2] : h \in {x \in H : x[1] = n}}
<1>1. {s[i] : i \in DOMAIN s} = H
  BY DEF Once
<1> QED
  BY <1>1 DEF OfWhom

LEMMA AllOnce ==
  ASSUME Exchanged, IsSent
  PROVE  HeadersOnce
<1> DEFINE p      == Resolved(provider)
           passed == PassedOn(carried.headers)
           added  == Added(provider, passed)
<1>1. provider \in Providers /\ call = CalledAt(provider)
  BY MatchingIsOfThem DEF Exchanged, AsSent, Usable
<1> SUFFICES ASSUME AuthHeader(p) \cap (p.extra \cup PassedNames) = {}
             PROVE  /\ IsInjective(Names(call.headers))
                    /\ \A n \in passed : OfWhom(call.headers, n) = {"client"}
                    /\ \A n \in p.extra \ {"version"} : OfWhom(call.headers, n) # {}
  BY DEF HeadersOnce
<1> DEFINE A == AuthHeader(p)
           C == CodexDefaults(p, passed \cup added)
           E == p.extra \ Skipped(p, passed \cup added)
<1>2. call.headers = ((From(A, "key") \o From(C, "codex")) \o From(E, "provider"))
                     \o From(passed, "client") \o From(added, "router")
  <2>1. call.headers = Headers(p, passed, added)
    BY <1>1 DEF CalledAt, CallTo, PassedNow, ++
  <2> QED
    BY <2>1, Zenon DEF Headers, ProviderHeaders
<1>3. /\ passed \subseteq PassedNames /\ added \subseteq PassedNames \ passed
      /\ C \subseteq PassedNames \ (p.extra \cup passed \cup added)
      /\ E \subseteq p.extra \ (passed \cup added)
      /\ A \cap (p.extra \cup PassedNames) = {}
      /\ p.extra \ {"version"} \subseteq E \cup passed \cup added
  <2>1. passed \subseteq PassedNames
    BY DEF PassedOn
  <2>2. added \subseteq PassedNames \ passed
    BY DEF Added, Generated, PassedNames
  <2>3. C \subseteq PassedNames \ (p.extra \cup passed \cup added)
    BY DEF CodexDefaults, PassedNames
  <2>4. E \subseteq p.extra \ (passed \cup added) /\ p.extra \ {"version"} \subseteq E \cup passed \cup added
    BY DEF Skipped
  <2> QED
    BY <2>1, <2>2, <2>3, <2>4
<1>4. IsFiniteSet(A) /\ IsFiniteSet(C) /\ IsFiniteSet(E) /\ IsFiniteSet(passed) /\ IsFiniteSet(added)
  <2>1. IsFiniteSet(PassedNames)
    <3>1. IsFiniteSet({}) /\ \A S, x : IsFiniteSet(S) => IsFiniteSet(S \cup {x})
      BY FS_EmptySet, FS_AddElement
    <3>2. PassedNames = {} \cup {"user-agent"} \cup {"originator"} \cup {"openai-beta"} \cup {"anthropic-version"}
                           \cup {"x-app"} \cup {"x-client-request-id"}
      BY DEF PassedNames
    <3> QED
      BY <3>1, <3>2
  <2>2. IsFiniteSet(p.extra)
    <3>1. IsFiniteSet(provider.extra)
      BY <1>1, ProvidersAssumption
    <3>2. p.extra = provider.extra \/ p.extra = provider.extra \cup {"chatgpt-account-id"}
      BY <1>1, ProvidersAssumption DEF Resolved
    <3> QED
      BY <3>1, <3>2, FS_AddElement
  <2>3. IsFiniteSet(A)
    <3>1. A = {} \/ \E x : A = {x}
      BY DEF AuthHeader
    <3>2. IsFiniteSet({}) /\ \A x : IsFiniteSet({x})
      BY FS_EmptySet, FS_Singleton
    <3> HIDE DEF A
    <3> QED
      BY <3>1, <3>2
  <2> HIDE DEF A, C, E, passed, added, p
  <2>4. \A S : S \subseteq PassedNames \/ S \subseteq p.extra => IsFiniteSet(S)
    BY <2>1, <2>2, FS_Subset
  <2> QED
    BY <1>3, <2>3, <2>4
<1> DEFINE HA == Labelled(A, "key")
           HC == Labelled(C, "codex")
           HE == Labelled(E, "provider")
           HP == Labelled(passed, "client")
           HR == Labelled(added, "router")
           H  == (((HA \cup HC) \cup HE) \cup HP) \cup HR
<1> HIDE DEF A, C, E, passed, added, p
<1>5. Once(call.headers, H)
  <2>1. /\ Once(From(A, "key"), HA) /\ Once(From(C, "codex"), HC) /\ Once(From(E, "provider"), HE)
        /\ Once(From(passed, "client"), HP) /\ Once(From(added, "router"), HR)
    BY <1>4, FromIs
  <2>2. /\ NamesIn(HA) = A /\ NamesIn(HC) = C /\ NamesIn(HE) = E /\ NamesIn(HP) = passed /\ NamesIn(HR) = added
    BY NamesOfLabelled
  <2> HIDE DEF HA, HC, HE, HP, HR
  <2>3. /\ NamesIn(HA \cup HC) = A \cup C /\ NamesIn((HA \cup HC) \cup HE) = (A \cup C) \cup E
        /\ NamesIn(((HA \cup HC) \cup HE) \cup HP) = ((A \cup C) \cup E) \cup passed
    <3>1. NamesIn(HA \cup HC) = A \cup C
      BY <2>2, NamesOfBoth
    <3>2. NamesIn((HA \cup HC) \cup HE) = (A \cup C) \cup E
      <4>1. PICK K : K = HA \cup HC
        OBVIOUS
      <4>2. NamesIn(K \cup HE) = NamesIn(K) \cup NamesIn(HE)
        BY NamesOfBoth
      <4> QED
        BY <2>2, <3>1, <4>1, <4>2
    <3>3. NamesIn(((HA \cup HC) \cup HE) \cup HP) = ((A \cup C) \cup E) \cup passed
      <4>1. PICK K : K = (HA \cup HC) \cup HE
        OBVIOUS
      <4>2. NamesIn(K \cup HP) = NamesIn(K) \cup NamesIn(HP)
        BY NamesOfBoth
      <4> QED
        BY <2>2, <3>2, <4>1, <4>2
    <3> QED
      BY <3>1, <3>2, <3>3
  <2>4. Once(From(A, "key") \o From(C, "codex"), HA \cup HC)
    BY <1>3, <2>1, <2>2, OnceJoined
  <2>5. Once((From(A, "key") \o From(C, "codex")) \o From(E, "provider"), (HA \cup HC) \cup HE)
    BY <1>3, <2>1, <2>2, <2>3, <2>4, OnceJoined
  <2>6. Once(((From(A, "key") \o From(C, "codex")) \o From(E, "provider")) \o From(passed, "client"),
             ((HA \cup HC) \cup HE) \cup HP)
    BY <1>3, <2>1, <2>2, <2>3, <2>5, OnceJoined
  <2>7. Once((((From(A, "key") \o From(C, "codex")) \o From(E, "provider")) \o From(passed, "client"))
             \o From(added, "router"), H)
    BY <1>3, <2>1, <2>2, <2>3, <2>6, OnceJoined
  <2> QED
    BY <1>2, <2>7
<1>6. IsInjective(Names(call.headers))
  BY <1>5 DEF IsInjective, Names, MapSeq, Once
<1>7. ASSUME NEW n \in passed PROVE OfWhom(call.headers, n) = {"client"}
  <2>1. PICK h : h = <<n, "client">>
    OBVIOUS
  <2>2. h \in H /\ h[1] = n /\ h[2] = "client"
    BY <2>1 DEF Labelled
  <2>3. \A x \in H : x[1] = n => x \in HP
    BY <1>3 DEF Labelled
  <2>4. \A x \in HP : x[2] = "client"
    BY DEF Labelled
  <2> HIDE DEF H, HP
  <2>5. OfWhom(call.headers, n) = {x[2] : x \in {y \in H : y[1] = n}}
    BY <1>5, WhoseAre
  <2> QED
    BY <2>2, <2>3, <2>4, <2>5
<1>8. ASSUME NEW n \in p.extra \ {"version"} PROVE OfWhom(call.headers, n) # {}
  <2>1. n \in E \cup passed \cup added
    BY <1>3
  <2>2. \A S, w : n \in S => \E h \in Labelled(S, w) : h[1] = n
    <3> SUFFICES ASSUME NEW S, NEW w, n \in S PROVE \E h \in Labelled(S, w) : h[1] = n
      OBVIOUS
    <3>1. PICK h : h = <<n, w>>
      OBVIOUS
    <3>2. h \in Labelled(S, w) /\ h[1] = n
      BY <3>1 DEF Labelled
    <3> QED
      BY <3>2
  <2>3. \E h \in H : h[1] = n
    BY <2>1, <2>2
  <2> HIDE DEF H
  <2>4. OfWhom(call.headers, n) = {x[2] : x \in {y \in H : y[1] = n}}
    BY <1>5, WhoseAre
  <2> QED
    BY <2>3, <2>4
<1> QED
  BY <1>6, <1>7, <1>8
-------------------------------------------------------------------------------
(***************************************************************************)
(* What a search engine is asked for                                       *)
(***************************************************************************)
LEMMA FlattenRange ==
  ASSUME NEW s, NEW N \in Nat, Len(s) = N, DOMAIN s = 1 .. N, NEW D, \A i \in 1 .. N : s[i] \in Seq(D)
  PROVE  \A x : x \in Range(FlattenSeq(s)) <=> \E i \in 1 .. N : x \in Range(s[i])
<1>1. CASE N = 0
  <2>1. FlattenSeq(s) = s
    BY <1>1 DEF FlattenSeq
  <2> QED
    BY <1>1, <2>1 DEF Range
<1>2. CASE N > 0
  <2> DEFINE Is(f) == f = [i \in 1 .. N |-> IF i = 1 THEN s[i] ELSE f[i - 1] \o s[i]]
             g == [i \in 1 .. N |-> [y \in Seq(D) |-> y \o s[i]]]
             w == CHOOSE f : Is(f)
  <2>1. \E h \in Steps1(N, Seq(D)) : \A i \in 1 .. N : \A y \in Seq(D) : h[i][y] = y \o s[i]
    <3>1. \A i \in 1 .. N : \A y \in Seq(D) : y \o s[i] \in Seq(D)
      OBVIOUS
    <3>2. g \in Steps1(N, Seq(D))
      BY <3>1 DEF Steps1
    <3>3. \A i \in 1 .. N : \A y \in Seq(D) : g[i][y] = y \o s[i]
      OBVIOUS
    <3> HIDE DEF g
    <3> QED
      BY <3>2, <3>3
  <2>2. PICK h \in Steps1(N, Seq(D)) : \A i \in 1 .. N : \A y \in Seq(D) : h[i][y] = y \o s[i]
    BY <2>1
  <2>3. PICK e : e = <<>>
    OBVIOUS
  <2>4. e \in Seq(D) /\ \A y \in Seq(D) : e \o y = y
    BY <2>3
  <2>5. PICK u : Stepped(N, Seq(D), e, h, u)
    BY <2>2, <2>4, StepByStep
  <2>6. u \in [0 .. N -> Seq(D)] /\ u[0] = e /\ \A i \in 1 .. N : u[i] = u[i - 1] \o s[i]
    <3>1. u \in [0 .. N -> Seq(D)] /\ u[0] = e /\ \A i \in 1 .. N : u[i] = h[i][u[i - 1]]
      BY <2>5 DEF Stepped
    <3>2. \A i \in 1 .. N : u[i - 1] \in Seq(D)
      BY <3>1
    <3> QED
      BY <2>2, <3>1, <3>2
  <2> DEFINE v == [i \in 1 .. N |-> u[i]]
  <2>7. Is(v)
    <3>1. \A i \in 1 .. N : v[i] = IF i = 1 THEN s[i] ELSE v[i - 1] \o s[i]
      <4>1. \A i \in 1 .. N : v[i] = u[i]
        OBVIOUS
      <4> HIDE DEF v
      <4>2. u[1] = s[1]
        <5>1. 1 \in 1 .. N /\ 1 - 1 = 0
          BY <1>2
        <5>2. u[1] = u[0] \o s[1]
          BY <2>6, <5>1
        <5> QED
          BY <2>4, <2>6, <5>1, <5>2
      <4>3. \A i \in 1 .. N : i # 1 => i - 1 \in 1 .. N
        OBVIOUS
      <4> QED
        BY <2>6, <4>1, <4>2, <4>3
    <3>2. v = [i \in 1 .. N |-> v[i]]
      OBVIOUS
    <3> HIDE DEF v
    <3> QED
      BY <3>1, <3>2
  <2> HIDE DEF v, Is, g
  <2>8. Is(w)
    BY <2>7
  <2>9. FlattenSeq(s) = w[N]
    BY <1>2 DEF FlattenSeq, Is
  <2> HIDE DEF w
  <2>10. \A i \in 1 .. N : w[i] = IF i = 1 THEN s[i] ELSE w[i - 1] \o s[i]
    BY <2>8, Zenon DEF Is
  <2> DEFINE Has1(i) == w[i] \in Seq(D) /\ \A x : x \in Range(w[i]) <=> \E j \in 1 .. i : x \in Range(s[j])
             T == {i \in 0 .. N : i = 0 \/ Has1(i)}
  <2>11. \A p, q \in Seq(D) : \A x : x \in Range(p \o q) <=> x \in Range(p) \/ x \in Range(q)
    <3> SUFFICES ASSUME NEW p \in Seq(D), NEW q \in Seq(D)
                 PROVE  \A x : x \in Range(p \o q) <=> x \in Range(p) \/ x \in Range(q)
      OBVIOUS
    <3>1. /\ DOMAIN p = 1 .. Len(p) /\ DOMAIN q = 1 .. Len(q) /\ DOMAIN (p \o q) = 1 .. Len(p) + Len(q)
          /\ Len(p) \in Nat /\ Len(q) \in Nat
          /\ \A i \in 1 .. Len(p) : (p \o q)[i] = p[i]
          /\ \A i \in 1 .. Len(q) : (p \o q)[Len(p) + i] = q[i]
      OBVIOUS
    <3>2. ASSUME NEW x \in Range(p \o q) PROVE x \in Range(p) \/ x \in Range(q)
      <4>1. PICK i \in 1 .. Len(p) + Len(q) : (p \o q)[i] = x
        BY <3>1, <3>2 DEF Range
      <4>2. CASE i \in 1 .. Len(p)
        BY <3>1, <4>1, <4>2 DEF Range
      <4>3. CASE i \notin 1 .. Len(p)
        <5>1. i - Len(p) \in 1 .. Len(q) /\ i = Len(p) + (i - Len(p))
          BY <3>1, <4>3
        <5> QED
          BY <3>1, <4>1, <5>1 DEF Range
      <4> QED
        BY <4>2, <4>3
    <3>3. ASSUME NEW x \in Range(p) PROVE x \in Range(p \o q)
      BY <3>1, <3>3 DEF Range
    <3>4. ASSUME NEW x \in Range(q) PROVE x \in Range(p \o q)
      <4>1. PICK i \in 1 .. Len(q) : q[i] = x
        BY <3>1, <3>4 DEF Range
      <4>2. Len(p) + i \in 1 .. Len(p) + Len(q)
        BY <3>1
      <4> QED
        BY <3>1, <4>1, <4>2 DEF Range
    <3> QED
      BY <3>2, <3>3, <3>4
  <2>12. ASSUME NEW i \in 1 .. N, i - 1 \in T PROVE i \in T
    <3>1. CASE i = 1
      <4>1. w[i] = s[1] /\ s[1] \in Seq(D) /\ 1 .. i = {1}
        BY <2>10, <3>1
      <4> QED
        BY <3>1, <4>1
    <3>2. CASE i # 1
      <4>1. Has1(i - 1) /\ i - 1 # 0
        BY <2>12, <3>2
      <4>2. w[i] = w[i - 1] \o s[i] /\ s[i] \in Seq(D)
        BY <2>10, <3>2
      <4>3. w[i] \in Seq(D) /\ \A x : x \in Range(w[i]) <=> x \in Range(w[i - 1]) \/ x \in Range(s[i])
        BY <2>11, <4>1, <4>2
      <4>4. 1 .. i = (1 .. i - 1) \cup {i}
        OBVIOUS
      <4>5. \A x : x \in Range(w[i]) <=> \E j \in 1 .. i : x \in Range(s[j])
        BY <4>1, <4>3, <4>4
      <4> QED
        BY <4>3, <4>5
    <3> QED
      BY <3>1, <3>2
  <2>13. N \in T
    <3>1. 0 \in T
      OBVIOUS
    <3> HIDE DEF T
    <3>2. 0 .. N \subseteq T
      BY <2>12, <3>1, UpTo
    <3> QED
      BY <3>2
  <2> QED
    BY <1>2, <2>9, <2>13
<1> QED
  BY <1>1, <1>2

\* The domains of the filters that keep theirs, or leave theirs out.
DomainsOf(filters, minus) == {f.domain : f \in {x \in Range(filters) : x.minus = minus}}

LEMMA FiltersAre ==
  ASSUME NEW fs, Len(fs) \in Nat, DOMAIN fs = 1 .. Len(fs), \A i \in DOMAIN fs : fs[i].minus \in BOOLEAN
  PROVE  /\ Range(Kept(fs)) = DomainsOf(fs, FALSE)
         /\ Range(LeftOut(fs)) = DomainsOf(fs, TRUE)
<1> DEFINE N == Len(fs)
           D == {fs[i].domain : i \in 1 .. N}
<1>1. ASSUME NEW minus \in BOOLEAN, NEW s, s = [i \in DOMAIN fs |-> IF fs[i].minus = minus THEN <<fs[i].domain>> ELSE <<>>]
      PROVE  Range(FlattenSeq(s)) = DomainsOf(fs, minus)
  <2>1. DOMAIN s = 1 .. N /\ \A i \in 1 .. N : s[i] = IF fs[i].minus = minus THEN <<fs[i].domain>> ELSE <<>>
    BY <1>1
  <2>2. ASSUME NEW i \in 1 .. N
        PROVE  s[i] \in Seq(D) /\ \A x : x \in Range(s[i]) <=> fs[i].minus = minus /\ x = fs[i].domain
    <3>1. CASE fs[i].minus = minus
      <4>1. PICK t : t = <<fs[i].domain>>
        OBVIOUS
      <4>2. DOMAIN t = {1} /\ t[1] = fs[i].domain /\ t \in Seq(D)
        BY <4>1
      <4> QED
        BY <2>1, <3>1, <4>1, <4>2 DEF Range
    <3>2. CASE fs[i].minus # minus
      <4>1. PICK t : t = <<>>
        OBVIOUS
      <4>2. DOMAIN t = {} /\ t \in Seq(D)
        BY <4>1
      <4> QED
        BY <2>1, <3>2, <4>1, <4>2 DEF Range
    <3> QED
      BY <3>1, <3>2
  <2>3. Len(s) = N
    <3>1. s \in [1 .. N -> Seq(D)]
      <4>1. s = [i \in 1 .. N |-> s[i]]
        BY <1>1, <2>1
      <4> QED
        BY <2>2, <4>1
    <3> HIDE DEF D
    <3>2. \A S : \A f \in [1 .. N -> S] : Len(f) = N
      OBVIOUS
    <3> QED
      BY <3>1, <3>2
  <2> HIDE DEF D, N
  <2>4. \A x : x \in Range(FlattenSeq(s)) <=> \E i \in 1 .. N : x \in Range(s[i])
    <3>1. N \in Nat
      BY DEF N
    <3> QED
      BY <2>1, <2>2, <2>3, <3>1, FlattenRange
  <2>5. \A x : x \in DomainsOf(fs, minus) <=> \E i \in 1 .. N : fs[i].minus = minus /\ x = fs[i].domain
    BY DEF DomainsOf, Range, N
  <2>6. \A x : x \in Range(FlattenSeq(s)) <=> x \in DomainsOf(fs, minus)
    <3>1. \A i \in 1 .. N : \A x : x \in Range(s[i]) <=> fs[i].minus = minus /\ x = fs[i].domain
      BY <2>2
    <3> SUFFICES ASSUME NEW x PROVE x \in Range(FlattenSeq(s)) <=> x \in DomainsOf(fs, minus)
      OBVIOUS
    <3>2. x \in Range(FlattenSeq(s)) <=> \E i \in 1 .. N : x \in Range(s[i])
      BY <2>4
    <3>3. x \in DomainsOf(fs, minus) <=> \E i \in 1 .. N : fs[i].minus = minus /\ x = fs[i].domain
      BY <2>5
    <3>4. \A i \in 1 .. N : x \in Range(s[i]) <=> fs[i].minus = minus /\ x = fs[i].domain
      BY <3>1
    <3> QED
      BY <3>2, <3>3, <3>4
  <2> QED
    BY <2>6, Zenon DEF Range, DomainsOf
<1>2. PICK s : s = [i \in DOMAIN fs |-> IF fs[i].minus = FALSE THEN <<fs[i].domain>> ELSE <<>>]
  OBVIOUS
<1>3. PICK t : t = [i \in DOMAIN fs |-> IF fs[i].minus = TRUE THEN <<fs[i].domain>> ELSE <<>>]
  OBVIOUS
<1>4. Kept(fs) = FlattenSeq(s)
  <2>1. s = [i \in DOMAIN fs |-> IF fs[i].minus THEN <<>> ELSE <<fs[i].domain>>]
    BY <1>2
  <2> QED
    BY <2>1, Zenon DEF Kept, FlatMap, MapSeq
<1>5. LeftOut(fs) = FlattenSeq(t)
  <2>1. t = [i \in DOMAIN fs |-> IF fs[i].minus THEN <<fs[i].domain>> ELSE <<>>]
    BY <1>3
  <2> QED
    BY <2>1, Zenon DEF LeftOut, FlatMap, MapSeq
<1> QED
  BY <1>1, <1>2, <1>3, <1>4, <1>5

\* What normalize_request makes of a search: what the client has asked is in it as it was.
LEMMA SearchIsNormal ==
  ASSUME Exchanged, IsSent, endpoint = "search"
  PROVE  /\ Has(asked, "query") /\ normal.query = asked.query
         /\ Limit(normal) \in 1 .. 100
         /\ LET wanted == Get(asked, "max_results", Get(asked, "top_k", 5)) IN
            wanted \in 1 .. 100 => Limit(normal) = wanted
         /\ IsNews(normal) <=> Get(asked, "search_type", Get(asked, "provider", "web")) = "news"
         /\ Filters(normal) = Get(asked, "domain_filter", <<>>)
         /\ IsSearch(asked)
<1> DEFINE more == [model |-> Named("search", "web"), provider |-> "web",
                    search_type |-> Get(asked, "provider", "web")]
<1>1. normal = NormalizeRequest("search", asked) /\ normal # Error
  BY DEF Exchanged, AsSent, Bad
<1>2. normal = Shaped("search", asked) /\ Shaped("search", asked) # Error
  BY <1>1, Zenon DEF NormalizeRequest, Bad
<1>3. Shaped("search", asked) = IF ~Has(asked, "query") THEN Error ELSE Defaults("search", asked)
  <2>1. "search" \in DOMAIN Required /\ Required["search"] = "query"
    BY DEF Required
  <2> QED
    BY <2>1 DEF Shaped
<1>4. Has(asked, "query") /\ normal = asked ++ more
  BY <1>2, <1>3 DEF Defaults
<1>5. /\ \A k : Has(more, k) <=> k \in {"model", "provider", "search_type"}
      /\ more.search_type = Get(asked, "provider", "web")
  BY DEF Has
<1> HIDE DEF more
<1>6. /\ \A k : Has(normal, k) <=> Has(asked, k) \/ Has(more, k)
      /\ \A k : Has(asked, k) => normal[k] = asked[k]
      /\ \A k : ~Has(asked, k) /\ Has(more, k) => normal[k] = more[k]
  BY <1>4, OverIs
<1>7. \A k, else : k \notin {"model", "provider", "search_type"} => Get(normal, k, else) = Get(asked, k, else)
  BY <1>5, <1>6 DEF Get
<1>8. normal.query = asked.query
  BY <1>4, <1>6
<1>9. Filters(normal) = Get(asked, "domain_filter", <<>>)
  BY <1>7 DEF Filters
<1>10. IsNews(normal) <=> Get(asked, "search_type", Get(asked, "provider", "web")) = "news"
  BY <1>5, <1>6 DEF IsNews, SearchType, Get
<1>11. IsSearch(asked)
  <2>1. PICK r \in Requests : r = [client |-> endpoint, body |-> asked] ++ carried
    BY DEF Exchanged, Staged
  <2>2. r.client = "search" /\ r.body = asked
    <3> DEFINE f == [client |-> endpoint, body |-> asked]
    <3>1. Has(f, "client") /\ f.client = "search" /\ Has(f, "body") /\ f.body = asked
      BY DEF Has
    <3> HIDE DEF f
    <3> QED
      BY <2>1, <3>1, OverIs DEF f
  <2> QED
    BY <2>1, <2>2, RequestsAssumption
<1>12. Get(asked, "max_results", Get(asked, "top_k", 5)) \in Nat
  BY <1>11 DEF IsSearch, Get, Has
<1>13. Limit(normal) = LET w == Get(asked, "max_results", Get(asked, "top_k", 5))
                       IN  IF w < 1 THEN 1 ELSE IF w > 100 THEN 100 ELSE w
  BY <1>7 DEF Limit
<1>14. /\ Limit(normal) \in 1 .. 100
       /\ LET wanted == Get(asked, "max_results", Get(asked, "top_k", 5)) IN
          wanted \in 1 .. 100 => Limit(normal) = wanted
  <2> DEFINE w == Get(asked, "max_results", Get(asked, "top_k", 5))
  <2>1. w \in Nat /\ Limit(normal) = IF w < 1 THEN 1 ELSE IF w > 100 THEN 100 ELSE w
    BY <1>12, <1>13
  <2> HIDE DEF w
  <2>2. Limit(normal) \in 1 .. 100 /\ (w \in 1 .. 100 => Limit(normal) = w)
    BY <2>1
  <2> QED
    BY <2>2 DEF w
<1> QED
  BY <1>4, <1>8, <1>9, <1>10, <1>11, <1>14, Zenon

\* What a key comes to in a body, if it is there at all.
LEMMA UnderIs ==
  ASSUME NEW k, NEW payload, NEW n
  PROVE  \A j : Has(Under(k, payload, n), j) <=> Has(payload, n) /\ j = k
<1>1. PICK e : e = <<>>
  OBVIOUS
<1>2. DOMAIN e = {}
  BY <1>1
<1> QED
  BY <1>1, <1>2 DEF Under, When, Has

LEMMA ListIs ==
  ASSUME NEW k, NEW vs
  PROVE  /\ \A j : Has(List(k, vs), j) <=> vs # <<>> /\ j = k
         /\ vs # <<>> => List(k, vs)[k] = vs
<1>1. PICK e : e = <<>>
  OBVIOUS
<1>2. DOMAIN e = {}
  BY <1>1
<1> QED
  BY <1>1, <1>2 DEF List, When, Has

\* In the bodies f and g, the keys of f go before those of g.
LEMMA JoinIs ==
  ASSUME NEW f, NEW g
  PROVE  /\ \A k : Has(f ++ g, k) <=> Has(f, k) \/ Has(g, k)
         /\ \A k : Has(f, k) => (f ++ g)[k] = f[k]
         /\ \A k : ~Has(f, k) /\ Has(g, k) => (f ++ g)[k] = g[k]
BY OverIs

LimitKeys  == {"num", "count", "max_results", "numResults"}
KeepKeys   == {"includeDomains", "include_domains"}
LeaveKeys  == {"excludeDomains", "exclude_domains"}
ValuesOf(b, keys) == {b[k] : k \in DOMAIN b \cap keys}

\* What is asked of an engine of a payload.
LEMMA QueryIs ==
  ASSUME NEW engine \in Engines, NEW payload
  PROVE  LET b == SearchQuery(engine, payload) IN
         /\ payload.query \in ValuesOf(b, {"q", "query"})
         /\ ValuesOf(b, LimitKeys) = {Limit(payload)}
         /\ engine = "exa-search" => (Get(b, "category", "") = "news" <=> IsNews(payload))
         /\ engine = "tavily-search" => (b.topic = "news" <=> IsNews(payload))
         /\ engine \in {"exa-search", "tavily-search"} =>
              /\ ValuesOf(b, KeepKeys) =
                   IF Kept(Filters(payload)) = <<>> THEN {} ELSE {Kept(Filters(payload))}
              /\ ValuesOf(b, LeaveKeys) =
                   IF LeftOut(Filters(payload)) = <<>> THEN {} ELSE {LeftOut(Filters(payload))}
<1> USE DEF ValuesOf, LimitKeys, KeepKeys, LeaveKeys
<1> DEFINE b == SearchQuery(engine, payload)
           U(k, n) == Under(k, payload, n)
<1>1. \A k, n : \A j : Has(U(k, n), j) <=> Has(payload, n) /\ j = k
  BY UnderIs
<1>2. CASE engine = "serper-search"
  <2> DEFINE f == [q |-> payload.query, num |-> Limit(payload)]
  <2>1. b = (f ++ U("gl", "country")) ++ U("hl", "language")
    BY <1>2 DEF SearchQuery, SerperQuery
  <2>2. /\ \A k : Has(f, k) <=> k \in {"q", "num"}
        /\ f.q = payload.query /\ f.num = Limit(payload)
    BY DEF Has
  <2> HIDE DEF f, U, b
  <2>3. /\ \A k \in {"q", "num"} : Has(b, k) /\ b[k] = f[k]
        /\ \A k : Has(b, k) => k \in {"q", "num", "gl", "hl"}
    BY <1>1, <2>1, <2>2, JoinIs
  <2> HIDE DEF f
  <2>4. ValuesOf(b, {"q", "query"}) = {f.q} /\ ValuesOf(b, LimitKeys) = {f.num}
    BY <2>3 DEF Has
  <2> QED
    BY <1>2, <2>2, <2>4 DEF b
<1>3. CASE engine = "brave-search"
  <2> DEFINE f == [q |-> payload.query, count |-> Limit(payload)]
  <2>1. b = (f ++ U("country", "country")) ++ U("search_lang", "language")
    BY <1>3 DEF SearchQuery, BraveQuery
  <2>2. /\ \A k : Has(f, k) <=> k \in {"q", "count"}
        /\ f.q = payload.query /\ f.count = Limit(payload)
    BY DEF Has
  <2> HIDE DEF f, U, b
  <2>3. /\ \A k \in {"q", "count"} : Has(b, k) /\ b[k] = f[k]
        /\ \A k : Has(b, k) => k \in {"q", "count", "country", "search_lang"}
    BY <1>1, <2>1, <2>2, JoinIs
  <2>4. ValuesOf(b, {"q", "query"}) = {f.q} /\ ValuesOf(b, LimitKeys) = {f.count}
    BY <2>3 DEF Has
  <2> QED
    BY <1>3, <2>2, <2>4 DEF b
<1>4. CASE engine = "perplexity-search"
  <2> DEFINE f == [query |-> payload.query, max_results |-> Limit(payload)]
             d == List("search_domain_filter", Filters(payload))
  <2>1. b = ((f ++ U("country", "country")) ++ U("search_language_filter", "language")) ++ d
    BY <1>4 DEF SearchQuery, PerplexityQuery
  <2>2. /\ \A k : Has(f, k) <=> k \in {"query", "max_results"}
        /\ f.query = payload.query /\ f.max_results = Limit(payload)
    BY DEF Has
  <2>3. \A k : Has(d, k) => k = "search_domain_filter"
    BY ListIs
  <2> HIDE DEF f, U, b, d
  <2>4. /\ \A k \in {"query", "max_results"} : Has(b, k) /\ b[k] = f[k]
        /\ \A k : Has(b, k) => k \in {"query", "max_results", "country", "search_language_filter", "search_domain_filter"}
    BY <1>1, <2>1, <2>2, <2>3, JoinIs
  <2>5. ValuesOf(b, {"q", "query"}) = {f.query} /\ ValuesOf(b, LimitKeys) = {f.max_results}
    BY <2>4 DEF Has
  <2> QED
    BY <1>4, <2>2, <2>5 DEF b
<1>5. CASE engine = "exa-search"
  <2> DEFINE kept == Kept(Filters(payload))
             left == LeftOut(Filters(payload))
             f == [query |-> payload.query, numResults |-> Limit(payload)]
             d == List("includeDomains", kept)
             e == List("excludeDomains", left)
             n == When(IsNews(payload), [category |-> "news"])
  <2>1. b = ((f ++ d) ++ e) ++ n
    BY <1>5 DEF SearchQuery, ExaQuery
  <2>2. /\ \A k : Has(f, k) <=> k \in {"query", "numResults"}
        /\ f.query = payload.query /\ f.numResults = Limit(payload)
    BY DEF Has
  <2>3. /\ \A k : Has(d, k) <=> kept # <<>> /\ k = "includeDomains"
        /\ kept # <<>> => d.includeDomains = kept
        /\ \A k : Has(e, k) <=> left # <<>> /\ k = "excludeDomains"
        /\ left # <<>> => e.excludeDomains = left
    BY ListIs
  <2>4. /\ \A k : Has(n, k) <=> IsNews(payload) /\ k = "category"
        /\ IsNews(payload) => n.category = "news"
    <3>1. PICK x : x = <<>>
      OBVIOUS
    <3>2. DOMAIN x = {}
      BY <3>1
    <3> QED
      BY <3>1, <3>2 DEF When, Has
  <2> HIDE DEF f, d, e, n, b, kept, left
  <2>5. /\ \A k \in {"query", "numResults"} : Has(b, k) /\ b[k] = f[k]
        /\ Has(b, "includeDomains") <=> kept # <<>>
        /\ Has(b, "includeDomains") => b.includeDomains = kept
        /\ Has(b, "excludeDomains") <=> left # <<>>
        /\ Has(b, "excludeDomains") => b.excludeDomains = left
        /\ Has(b, "category") <=> IsNews(payload)
        /\ Has(b, "category") => b.category = "news"
        /\ \A k : Has(b, k) => k \in {"query", "numResults", "includeDomains", "excludeDomains", "category"}
    BY <2>1, <2>2, <2>3, <2>4, JoinIs
  <2>6. ValuesOf(b, {"q", "query"}) = {f.query} /\ ValuesOf(b, LimitKeys) = {f.numResults}
    BY <2>5 DEF Has
  <2>7. ValuesOf(b, KeepKeys) = IF kept = <<>> THEN {} ELSE {kept}
    BY <2>5 DEF Has
  <2>8. ValuesOf(b, LeaveKeys) = IF left = <<>> THEN {} ELSE {left}
    BY <2>5 DEF Has
  <2>9. Get(b, "category", "") = "news" <=> IsNews(payload)
    BY <2>5 DEF Get
  <2> QED
    BY <1>5, <2>2, <2>6, <2>7, <2>8, <2>9 DEF b, kept, left
<1>6. CASE engine = "tavily-search"
  <2> DEFINE kept == Kept(Filters(payload))
             left == LeftOut(Filters(payload))
             topic == IF IsNews(payload) THEN "news" ELSE "general"
             f == [query |-> payload.query, max_results |-> Limit(payload), topic |-> topic]
             d == List("include_domains", kept)
             e == List("exclude_domains", left)
  <2>1. b = ((f ++ d) ++ e) ++ U("country", "country")
    BY <1>6 DEF SearchQuery, TavilyQuery
  <2>2. /\ \A k : Has(f, k) <=> k \in {"query", "max_results", "topic"}
        /\ f.query = payload.query /\ f.max_results = Limit(payload) /\ f.topic = topic
    BY DEF Has
  <2>3. /\ \A k : Has(d, k) <=> kept # <<>> /\ k = "include_domains"
        /\ kept # <<>> => d.include_domains = kept
        /\ \A k : Has(e, k) <=> left # <<>> /\ k = "exclude_domains"
        /\ left # <<>> => e.exclude_domains = left
    BY ListIs
  <2> HIDE DEF f, d, e, b, U, kept, left
  <2>4. /\ \A k \in {"query", "max_results", "topic"} : Has(b, k) /\ b[k] = f[k]
        /\ Has(b, "include_domains") <=> kept # <<>>
        /\ Has(b, "include_domains") => b.include_domains = kept
        /\ Has(b, "exclude_domains") <=> left # <<>>
        /\ Has(b, "exclude_domains") => b.exclude_domains = left
        /\ \A k : Has(b, k) => k \in {"query", "max_results", "topic", "include_domains", "exclude_domains", "country"}
    BY <1>1, <2>1, <2>2, <2>3, JoinIs
  <2>5. ValuesOf(b, {"q", "query"}) = {f.query} /\ ValuesOf(b, LimitKeys) = {f.max_results}
    BY <2>4 DEF Has
  <2>6. ValuesOf(b, KeepKeys) = IF kept = <<>> THEN {} ELSE {kept}
    BY <2>4 DEF Has
  <2>7. ValuesOf(b, LeaveKeys) = IF left = <<>> THEN {} ELSE {left}
    BY <2>4 DEF Has
  <2>8. b.topic = "news" <=> IsNews(payload)
    BY <2>2, <2>4
  <2> QED
    BY <1>6, <2>2, <2>5, <2>6, <2>7, <2>8 DEF b, kept, left
<1> QED
  BY <1>2, <1>3, <1>4, <1>5, <1>6 DEF Engines

LEMMA AllSearched ==
  ASSUME Exchanged, IsSent, endpoint = "search", provider.name \in Engines, FromProvider(provider) = "openai"
  PROVE  SearchedAsAsked
<1> DEFINE body    == call.body
           filters == Get(asked, "domain_filter", <<>>)
           b       == SearchQuery(provider.name, normal)
<1>1. provider \in Providers /\ call = CalledAt(provider) /\ SentTo(provider) = normal
  BY MatchingIsOfThem, SearchIsAsIs DEF Exchanged, AsSent, Usable
<1>2. Resolved(provider).name = provider.name
  BY <1>1, ProvidersAssumption DEF Resolved
<1>3. UpstreamOf(provider) = "search"
  BY DEF UpstreamOf, UpstreamEndpoint, ToMessagesEndpoint, Family
<1>4. body = b
  <2>1. \E u : call.body = SearchRequest(Resolved(provider), normal, u).body
    BY <1>1, <1>3 DEF CalledAt, CallTo, ++, SearchRequest
  <2> QED
    BY <1>2, <2>1 DEF SearchRequest
<1>5. /\ normal.query = asked.query
      /\ Limit(normal) \in 1 .. 100
      /\ LET wanted == Get(asked, "max_results", Get(asked, "top_k", 5)) IN
         wanted \in 1 .. 100 => Limit(normal) = wanted
      /\ IsNews(normal) <=> Get(asked, "search_type", Get(asked, "provider", "web")) = "news"
      /\ Filters(normal) = filters
      /\ IsSearch(asked)
  BY SearchIsNormal
<1>6. Range(Kept(filters)) = DomainsOf(filters, FALSE) /\ Range(LeftOut(filters)) = DomainsOf(filters, TRUE)
  <2>1. filters = Filters(asked)
    BY DEF Filters
  <2> HIDE DEF filters
  <2>2. Len(filters) \in Nat /\ DOMAIN filters = 1 .. Len(filters) /\ \A i \in DOMAIN filters : filters[i].minus \in BOOLEAN
    BY <1>5, <2>1 DEF IsSearch
  <2> QED
    BY <2>2, FiltersAre
<1>7. /\ normal.query \in ValuesOf(b, {"q", "query"})
      /\ ValuesOf(b, LimitKeys) = {Limit(normal)}
      /\ provider.name = "exa-search" => (Get(b, "category", "") = "news" <=> IsNews(normal))
      /\ provider.name = "tavily-search" => (b.topic = "news" <=> IsNews(normal))
      /\ provider.name \in {"exa-search", "tavily-search"} =>
           /\ ValuesOf(b, KeepKeys) = IF Kept(filters) = <<>> THEN {} ELSE {Kept(filters)}
           /\ ValuesOf(b, LeaveKeys) = IF LeftOut(filters) = <<>> THEN {} ELSE {LeftOut(filters)}
  BY <1>5, QueryIs
<1> HIDE DEF b, filters
<1>8. \A s, keys : ValuesOf(b, keys) = (IF s = <<>> THEN {} ELSE {s}) =>
        UNION {Range(b[k]) : k \in DOMAIN b \cap keys} = Range(s)
  <2> SUFFICES ASSUME NEW s, NEW keys, ValuesOf(b, keys) = IF s = <<>> THEN {} ELSE {s}
               PROVE  UNION {Range(b[k]) : k \in DOMAIN b \cap keys} = Range(s)
    OBVIOUS
  <2>1. CASE s = <<>>
    <3>1. Range(s) = {}
      BY <2>1 DEF Range
    <3>2. DOMAIN b \cap keys = {}
      BY <2>1 DEF ValuesOf
    <3> QED
      BY <3>1, <3>2
  <2>2. CASE s # <<>>
    <3>1. \A k \in DOMAIN b \cap keys : b[k] = s
      BY <2>2 DEF ValuesOf
    <3>2. \E k \in DOMAIN b \cap keys : b[k] = s
      BY <2>2 DEF ValuesOf
    <3> QED
      BY <3>1, <3>2
  <2> QED
    BY <2>1, <2>2
<1>9. provider.name \in {"exa-search", "tavily-search"} =>
        /\ UNION {Range(body[k]) : k \in DOMAIN body \cap KeepKeys} = DomainsOf(filters, FALSE)
        /\ UNION {Range(body[k]) : k \in DOMAIN body \cap LeaveKeys} = DomainsOf(filters, TRUE)
  <2> SUFFICES ASSUME provider.name \in {"exa-search", "tavily-search"}
               PROVE  /\ UNION {Range(b[k]) : k \in DOMAIN b \cap KeepKeys} = DomainsOf(filters, FALSE)
                      /\ UNION {Range(b[k]) : k \in DOMAIN b \cap LeaveKeys} = DomainsOf(filters, TRUE)
    BY <1>4
  <2>1. PICK s : s = Kept(filters)
    OBVIOUS
  <2>2. PICK t : t = LeftOut(filters)
    OBVIOUS
  <2>3. UNION {Range(b[k]) : k \in DOMAIN b \cap KeepKeys} = Range(s)
    BY <1>7, <1>8, <2>1
  <2>4. UNION {Range(b[k]) : k \in DOMAIN b \cap LeaveKeys} = Range(t)
    BY <1>7, <1>8, <2>2
  <2> QED
    BY <1>6, <2>1, <2>2, <2>3, <2>4
<1> HIDE DEF body
<1>10. /\ asked.query \in ValuesOf(body, {"q", "query"})
       /\ \A n \in ValuesOf(body, LimitKeys) : n = Limit(normal)
       /\ provider.name = "exa-search" => (Get(body, "category", "") = "news" <=> IsNews(normal))
       /\ provider.name = "tavily-search" => (body.topic = "news" <=> IsNews(normal))
  BY <1>4, <1>5, <1>7
<1> QED
  BY <1>5, <1>9, <1>10
     DEF SearchedAsAsked, ValuesOf, LimitKeys, KeepKeys, LeaveKeys, DomainsOf, body, filters

-------------------------------------------------------------------------------
(***************************************************************************)
(* How a request is to be answered                                         *)
(***************************************************************************)
\* Of the keys of K, the body b has those that c has, as c has them.
Keeps(b, c, K) == \A k \in K : (Has(b, k) <=> Has(c, k)) /\ (Has(c, k) => b[k] = c[k])

ToolKeys == {"tools", "tool_choice"}

LEMMA KeepsAreAlike ==
  ASSUME NEW b, NEW c, NEW K, Keeps(b, c, K)
  PROVE  \A k \in K : \A else : Get(b, k, else) = Get(c, k, else)
BY DEF Keeps, Get

\* f has none of the keys.
LEMMA OverKeeps ==
  ASSUME NEW f, NEW b, NEW K, \A k \in K : ~Has(f, k)
  PROVE  Keeps(f ++ b, b, K)
BY OverIs DEF Keeps

LEMMA KeepsOn == 
  ASSUME NEW b, NEW c, NEW d, NEW K, Keeps(b, c, K), Keeps(c, d, K) PROVE Keeps(b, d, K)
BY DEF Keeps

\* To make a request normal touches none of these keys.
LEMMA NormalKeeps ==
  ASSUME Exchanged, IsSent, endpoint \in Family
  PROVE  Keeps(normal, asked, ToolKeys \cup {"metadata"})
<1> DEFINE K == ToolKeys \cup {"metadata"}
<1>1. normal = Shaped(endpoint, asked) /\ Shaped(endpoint, asked) # Error
  <2>1. normal = NormalizeRequest(endpoint, asked) /\ normal # Error
    BY DEF Exchanged, AsSent, Bad
  <2> QED
    BY <2>1, Zenon DEF NormalizeRequest, Bad
<1>2. Keeps(asked, asked, K)
  BY DEF Keeps
<1>3. \A c, v : Keeps(asked ++ When(c, [messages |-> v]), asked, K)
  <2> SUFFICES ASSUME NEW c, NEW v PROVE Keeps(asked ++ When(c, [messages |-> v]), asked, K)
    OBVIOUS
  <2>1. \A k \in K : ~Has(When(c, [messages |-> v]), k)
    <3>1. PICK e : e = <<>>
      OBVIOUS
    <3>2. DOMAIN e = {}
      BY <3>1
    <3> QED
      BY <3>1, <3>2 DEF When, Has, ToolKeys
  <2> QED
    BY <2>1, OverIs DEF Keeps
<1>4. CASE endpoint = "completions"
  <2>1. Has(asked, "messages") => normal = asked
    BY <1>1, <1>4 DEF Shaped, Required
  <2>2. ~Has(asked, "messages") => \E v : normal = Without(asked, {"prompt"}) ++ [messages |-> v]
    <3>1. \A v : v = Shaped("completions", asked) /\ ~Has(asked, "messages") /\ Has(asked, "prompt") =>
            v = Without(asked, {"prompt"}) ++ [messages |-> <<UserSays(Str(FlattenSeq(asked.prompt)))>>]
      BY DEF Shaped, Required
    <3>2. ~Has(asked, "messages") /\ ~Has(asked, "prompt") => Shaped("completions", asked) = Error
      BY DEF Shaped, Required
    <3> QED
      BY <1>1, <1>4, <3>1, <3>2
  <2>3. ASSUME NEW v, normal = Without(asked, {"prompt"}) ++ [messages |-> v] PROVE Keeps(normal, asked, K)
    <3>1. Keeps(Without(asked, {"prompt"}), asked, K)
      BY DEF Keeps, Without, Has, ToolKeys
    <3>2. \A k \in K : ~Has([messages |-> v], k)
      BY DEF Has, ToolKeys
    <3> QED
      BY <2>3, <3>1, <3>2, OverIs DEF Keeps
  <2> QED
    BY <1>2, <2>1, <2>2, <2>3
<1>5. CASE endpoint = "messages"
  <2>1. PICK w : w = Get(asked, "input", Arr(<<>>)).items
    OBVIOUS
  <2>2. normal = (asked ++ When(Has(asked, "input"), [messages |-> w])) ++ [stream |-> FALSE]
    BY <1>1, <1>5, <2>1 DEF Shaped, Required
  <2>3. \A k \in K : ~Has([stream |-> FALSE], k)
    BY DEF Has, ToolKeys
  <2>4. PICK b : b = asked ++ When(Has(asked, "input"), [messages |-> w])
    OBVIOUS
  <2>5. Keeps(b, asked, K)
    BY <1>3, <2>4
  <2> QED
    BY <2>2, <2>3, <2>4, <2>5, OverIs DEF Keeps
<1>6. CASE endpoint = "responses"
  <2>1. PICK w : w = MessagesOf(Get(asked, "input", Null))
    OBVIOUS
  <2>2. normal = asked ++ When(Has(asked, "input"), [messages |-> w])
    BY <1>1, <1>6, <2>1 DEF Shaped, Required
  <2> QED
    BY <1>3, <2>2
<1>7. CASE endpoint \in {"ollama", "chat"}
  <2>1. normal = asked
    BY <1>1, <1>7 DEF Shaped, Required
  <2> QED
    BY <1>2, <2>1
<1> QED
  BY <1>4, <1>5, <1>6, <1>7 DEF Family

\* What the body b for a provider of that format says of the switches of the normal request.
Switched(b, format) ==
  /\ format # "gemini" => Get(b, "stream", FALSE) = Get(normal, "stream", FALSE)
  /\ Has(b, "tools") /\ Choice(normal) = "none" /\ format # "ollama" => Choice(b) = "none"
  /\ Has(normal, "tools") /\ Choice(normal) # "none"
     /\ (DetectSource(endpoint, normal) = "openai" => normal.tools = "openai") => Has(b, "tools")

LEMMA BodyIsSwitched ==
  ASSUME endpoint \in Family, Translates, ~Bad(BodyFor(provider))
  PROVE  Switched(BodyFor(provider), FromProvider(provider))
<1> DEFINE source == DetectSource(endpoint, normal)
           target == FromProvider(provider)
           body   == BodyFor(provider)
<1>1. \/ source = target \/ target = "openai"
      \/ source = "openai" /\ target \in {"claude", "gemini", "ollama", "responses"}
      \/ source = "claude" /\ target = "responses"
  BY DEF Translates, Speaks, FromProvider, DetectSource
<1>2. CASE source = target \/ target = "openai"
  <2>1. body = normal
    BY <1>2 DEF BodyFor, TranslateRequest, FromOpenAI
  <2> QED
    BY <2>1 DEF Switched
<1>3. PICK e : e = <<>>
  OBVIOUS
<1>4. DOMAIN e = {}
  BY <1>3
<1>5. CASE source = "openai" /\ target = "claude"
  <2>1. body = ToClaude(normal)
    BY <1>5 DEF BodyFor, TranslateRequest, FromOpenAI
  <2> DEFINE f(v) == [messages |-> v, stream |-> Get(normal, "stream", FALSE)]
             s(c, v) == When(c, [system |-> v])
             t == When(OpenTools(normal) /\ Choice(normal) # "none", [tools |-> "claude"])
             u == When(Has(normal, "tool_choice") /\ Choice(normal) # "none", [tool_choice |-> Choice(normal)])
  <2>2. \E v, c, w : body = ((f(v) ++ s(c, w)) ++ t) ++ u
    BY <2>1, Zenon DEF ToClaude, Bad
  <2>3. PICK v, c, w : body = ((f(v) ++ s(c, w)) ++ t) ++ u
    BY <2>2
  <2>4. /\ \A k : Has(f(v), k) <=> k \in {"messages", "stream"}
        /\ f(v).stream = Get(normal, "stream", FALSE)
    BY DEF Has
  <2>5. \A k : Has(s(c, w), k) => k = "system"
    BY <1>3, <1>4 DEF When, Has
  <2>6. \A k : Has(t, k) <=> OpenTools(normal) /\ Choice(normal) # "none" /\ k = "tools"
    BY <1>3, <1>4 DEF When, Has
  <2>7. \A k : Has(u, k) => k = "tool_choice"
    BY <1>3, <1>4 DEF When, Has
  <2> HIDE DEF body, f, s, t, u
  <2>8. PICK g : g = f(v) ++ s(c, w)
    OBVIOUS
  <2>9. PICK h : h = g ++ t
    OBVIOUS
  <2>10. body = h ++ u
    BY <2>3, <2>8, <2>9
  <2>11. Has(body, "stream") /\ body.stream = Get(normal, "stream", FALSE)
    <3>1. Has(g, "stream") /\ g.stream = Get(normal, "stream", FALSE)
      BY <2>4, <2>8, OverIs
    <3>2. Has(h, "stream") /\ h.stream = Get(normal, "stream", FALSE)
      BY <2>9, <3>1, OverIs
    <3> QED
      BY <2>10, <3>2, OverIs
  <2>12. Has(body, "tools") <=> OpenTools(normal) /\ Choice(normal) # "none"
    BY <2>4, <2>5, <2>6, <2>7, <2>8, <2>9, <2>10, OverIs
  <2> QED
    BY <1>5, <2>11, <2>12 DEF Switched, OpenTools, Get, body
<1>6. CASE source = "openai" /\ target = "gemini"
  <2>1. body = ToGemini(normal)
    BY <1>6 DEF BodyFor, TranslateRequest, FromOpenAI
  <2> DEFINE f(v) == [contents |-> v]
             s(c, v) == When(c, [systemInstruction |-> v])
             t == When(OpenTools(normal), [tools |-> "gemini"])
             u == When(Has(normal, "tool_choice"), [tool_choice |-> Choice(normal)])
  <2>2. \E v, c, w : body = ((f(v) ++ s(c, w)) ++ t) ++ u
    BY <2>1, Zenon DEF ToGemini, Bad
  <2>3. PICK v, c, w : body = ((f(v) ++ s(c, w)) ++ t) ++ u
    BY <2>2
  <2>4. /\ \A k : Has(f(v), k) => k = "contents"
        /\ \A k : Has(s(c, w), k) => k = "systemInstruction"
        /\ \A k : Has(t, k) <=> OpenTools(normal) /\ k = "tools"
        /\ \A k : Has(u, k) <=> Has(normal, "tool_choice") /\ k = "tool_choice"
        /\ Has(normal, "tool_choice") => u.tool_choice = Choice(normal)
    BY <1>3, <1>4 DEF When, Has
  <2> HIDE DEF body, f, s, t, u
  <2>5. PICK g : g = f(v) ++ s(c, w)
    OBVIOUS
  <2>6. PICK h : h = g ++ t
    OBVIOUS
  <2>7. body = h ++ u
    BY <2>3, <2>5, <2>6
  <2>8. ~Has(h, "tool_choice")
    BY <2>4, <2>5, <2>6, OverIs
  <2>9. Has(body, "tool_choice") <=> Has(normal, "tool_choice")
    BY <2>4, <2>7, <2>8, OverIs
  <2>10. Has(normal, "tool_choice") => body.tool_choice = Choice(normal)
    BY <2>4, <2>7, <2>8, OverIs
  <2>11. Choice(body) = Choice(normal)
    BY <2>9, <2>10 DEF Choice, Get
  <2>12. OpenTools(normal) => Has(body, "tools")
    BY <2>4, <2>6, <2>7, OverIs
  <2> QED
    BY <1>6, <2>11, <2>12 DEF Switched, OpenTools, body
<1>7. CASE source = "openai" /\ target = "ollama"
  <2>1. body = ToOllama(normal)
    BY <1>7 DEF BodyFor, TranslateRequest, FromOpenAI
  <2> DEFINE f == [stream |-> Get(normal, "stream", FALSE)]
             g == Only(normal, {"messages", "tools"})
  <2>2. body = f ++ g
    BY <2>1 DEF ToOllama
  <2>3. Has(f, "stream") /\ f.stream = Get(normal, "stream", FALSE) /\ (Has(g, "tools") <=> Has(normal, "tools"))
    BY DEF Has, Only
  <2> HIDE DEF body, f, g
  <2>4. /\ Has(body, "stream") /\ body.stream = Get(normal, "stream", FALSE)
        /\ Has(normal, "tools") => Has(body, "tools")
    BY <2>2, <2>3, OverIs
  <2> QED
    BY <1>7, <2>4 DEF Switched, Get, body
<1>8. CASE target = "responses" /\ source \in {"openai", "claude"}
  <2> DEFINE f(v) == [stream |-> Get(normal, "stream", FALSE), input |-> v]
             o(K) == Only(normal, K)
             s(c, v) == When(c, [instructions |-> v])
  <2>1. \/ \E v, c, w : body = (f(v) ++ o(Copied \cup {"instructions"})) ++ s(c, w)
        \/ \E v, c, w : body = (f(v) ++ s(c, w)) ++ o(Copied)
    <3>1. CASE source = "openai"
      <4>1. body = ToResponses(normal)
        BY <1>8, <3>1 DEF BodyFor, TranslateRequest, FromOpenAI
      <4> QED
        BY <4>1, Zenon DEF ToResponses
    <3>2. CASE source = "claude"
      <4>1. body = ClaudeToResponses(normal)
        BY <1>8, <3>2 DEF BodyFor, TranslateRequest
      <4> QED
        BY <4>1, Zenon DEF ClaudeToResponses
    <3> QED
      BY <1>8, <3>1, <3>2
  <2>2. /\ \A v : Has(f(v), "stream") /\ f(v).stream = Get(normal, "stream", FALSE)
        /\ \A v : \A k \in ToolKeys : ~Has(f(v), k)
        /\ \A c, w : \A k : Has(s(c, w), k) => k = "instructions"
    BY <1>3, <1>4 DEF Has, When, ToolKeys
  <2>3. \A K : ToolKeys \subseteq K => Keeps(o(K), normal, ToolKeys)
    BY DEF Keeps, Only, Has, ToolKeys
  <2>4. ToolKeys \subseteq Copied
    BY DEF ToolKeys, Copied
  <2> HIDE DEF body, f, s, o
  <2>5. Has(body, "stream") /\ body.stream = Get(normal, "stream", FALSE) /\ Keeps(body, normal, ToolKeys)
    <3>1. ASSUME NEW v, NEW c, NEW w, NEW K, ToolKeys \subseteq K, body = (f(v) ++ o(K)) ++ s(c, w)
          PROVE  Has(body, "stream") /\ body.stream = Get(normal, "stream", FALSE) /\ Keeps(body, normal, ToolKeys)
      <4>1. PICK g : g = f(v) ++ o(K)
        OBVIOUS
      <4>2. body = g ++ s(c, w)
        BY <3>1, <4>1
      <4>3. Has(g, "stream") /\ g.stream = Get(normal, "stream", FALSE)
        <5>1. PICK x, y : x = f(v) /\ y = o(K)
          OBVIOUS
        <5>2. g = x ++ y
          BY <4>1, <5>1
        <5>3. Has(x, "stream") /\ x.stream = Get(normal, "stream", FALSE)
          BY <2>2, <5>1
        <5> QED
          BY <5>2, <5>3, OverIs
      <4>4. Keeps(g, normal, ToolKeys)
        BY <2>2, <2>3, <3>1, <4>1, OverIs DEF Keeps
      <4>5. Has(body, "stream") /\ body.stream = Get(normal, "stream", FALSE)
        BY <4>2, <4>3, OverIs
      <4>6. \A k \in ToolKeys : ~Has(s(c, w), k)
        BY <2>2 DEF ToolKeys
      <4> QED
        BY <4>2, <4>4, <4>5, <4>6, OverIs DEF Keeps
    <3>2. ASSUME NEW v, NEW c, NEW w, NEW K, ToolKeys \subseteq K, body = (f(v) ++ s(c, w)) ++ o(K)
          PROVE  Has(body, "stream") /\ body.stream = Get(normal, "stream", FALSE) /\ Keeps(body, normal, ToolKeys)
      <4>1. PICK g : g = f(v) ++ s(c, w)
        OBVIOUS
      <4>2. body = g ++ o(K)
        BY <3>2, <4>1
      <4>3. Has(g, "stream") /\ g.stream = Get(normal, "stream", FALSE)
        <5>1. PICK x, y : x = f(v) /\ y = s(c, w)
          OBVIOUS
        <5>2. g = x ++ y
          BY <4>1, <5>1
        <5>3. Has(x, "stream") /\ x.stream = Get(normal, "stream", FALSE)
          BY <2>2, <5>1
        <5> QED
          BY <5>2, <5>3, OverIs
      <4>4. \A k \in ToolKeys : ~Has(g, k)
        BY <2>2, <4>1, OverIs DEF ToolKeys
      <4>5. Has(body, "stream") /\ body.stream = Get(normal, "stream", FALSE)
        BY <4>2, <4>3, OverIs
      <4> QED
        BY <2>3, <3>2, <4>2, <4>4, <4>5, OverIs DEF Keeps
    <3> QED
      BY <2>1, <2>4, <3>1, <3>2
  <2>6. Choice(body) = Choice(normal) /\ (Has(body, "tools") <=> Has(normal, "tools"))
    BY <2>5 DEF Keeps, Choice, Get, ToolKeys
  <2> QED
    BY <2>5, <2>6 DEF Switched, Get, body
<1> QED
  BY <1>1, <1>2, <1>5, <1>6, <1>7, <1>8

\* What becomes of a body on its way: only Codex's is told to stream, and the user of a body for
\* Claude is who it was.
LEMMA SentKeeps ==
  ASSUME provider \in Providers
  PROVE  LET body == BodyFor(provider)
             b    == SentTo(provider)
             codex == UpstreamOf(provider) = "responses" /\ IsCodexResponses(Resolved(provider))
         IN  /\ Keeps(b, body, ToolKeys)
             /\ codex => Get(b, "stream", FALSE) = TRUE
             /\ ~codex => Get(b, "stream", FALSE) = Get(body, "stream", FALSE)
             /\ ~codex /\ Has(body, "metadata") /\ Has(body.metadata, "user_id") =>
                  b.metadata.user_id = body.metadata.user_id
<1> DEFINE body == BodyFor(provider)
           adapted == Prepared(endpoint, provider, body, normal)
           final == FinalFor(provider)
           named == WithModel(final)
           b == SentTo(provider)
           codex == UpstreamOf(provider) = "responses" /\ IsCodexResponses(Resolved(provider))
           K == ToolKeys \cup {"stream"}
<1>1. IsCodex(provider) => IsCodexResponses(Resolved(provider))
  BY ProvidersAssumption DEF IsCodex, IsCodexResponses, Resolved
<1>2. /\ Keeps(adapted, body, ToolKeys)
      /\ ~codex => adapted = body
  <2>1. CASE UpstreamOf(provider) = "responses" /\ IsCodex(provider)
    <3>1. \E i, x : adapted = ([stream |-> TRUE, store |-> FALSE, input |-> i]
                                   ++ Without(body, {"messages", "max_tokens"})) ++ [instructions |-> x]
      BY <2>1, Zenon DEF Prepared, AdaptForCodex, UpstreamOf
    <3>2. PICK i, x : adapted = ([stream |-> TRUE, store |-> FALSE, input |-> i]
                                 ++ Without(body, {"messages", "max_tokens"})) ++ [instructions |-> x]
      BY <3>1
    <3> DEFINE f == [stream |-> TRUE, store |-> FALSE, input |-> i]
               w == Without(body, {"messages", "max_tokens"})
               n == [instructions |-> x]
    <3>3. /\ \A k \in ToolKeys : ~Has(f, k) /\ ~Has(n, k)
          /\ Keeps(w, body, ToolKeys)
      BY DEF Has, ToolKeys, Keeps, Without
    <3>4. adapted = (f ++ w) ++ n
      BY <3>2
    <3> HIDE DEF f, w, n, adapted, body
    <3>5. PICK g : g = f ++ w
      OBVIOUS
    <3>6. Keeps(g, body, ToolKeys)
      BY <3>3, <3>5, OverIs DEF Keeps
    <3>7. Keeps(adapted, body, ToolKeys)
      BY <3>3, <3>4, <3>5, <3>6, OverIs DEF Keeps
    <3> QED
      BY <1>1, <2>1, <3>7
  <2>2. CASE ~(UpstreamOf(provider) = "responses" /\ IsCodex(provider))
    <3>1. adapted = body
      BY <2>2 DEF Prepared, UpstreamOf
    <3> QED
      BY <3>1 DEF Keeps
  <2> QED
    BY <2>1, <2>2
<1>3. /\ Keeps(final, adapted, K)
      /\ Has(adapted, "metadata") /\ Has(adapted.metadata, "user_id") =>
           Has(final, "metadata") /\ final.metadata.user_id = adapted.metadata.user_id
  <2> HIDE DEF adapted
  <2>1. CASE final = adapted
    BY <2>1 DEF Keeps
  <2>2. CASE final = InjectBody(adapted)
    <3>1. PICK m : m = Get(adapted, "metadata", <<>>) ++ [user_id |-> "router"]
      OBVIOUS
    <3>2. \E c, d : (c = adapted \/ c = [system |-> d] ++ adapted) /\
             final = [metadata |-> Get(c, "metadata", <<>>) ++ [user_id |-> "router"]] ++ c
      BY <2>2, Zenon DEF InjectBody, InjectMetadata
    <3>3. PICK c, d : /\ c = adapted \/ c = [system |-> d] ++ adapted
                      /\ final = [metadata |-> Get(c, "metadata", <<>>) ++ [user_id |-> "router"]] ++ c
      BY <3>2
    <3>4. Keeps(c, adapted, K \cup {"metadata"})
      <4>1. \A k \in K \cup {"metadata"} : ~Has([system |-> d], k)
        BY DEF Has, ToolKeys
      <4> QED
        BY <3>3, <4>1, OverIs DEF Keeps
    <3>5. PICK z : z = Get(c, "metadata", <<>>) ++ [user_id |-> "router"]
      OBVIOUS
    <3>6. final = [metadata |-> z] ++ c
      BY <3>3, <3>5
    <3>7. /\ \A k \in K : ~Has([metadata |-> z], k)
          /\ Has([metadata |-> z], "metadata") /\ [metadata |-> z].metadata = z
      BY DEF Has, ToolKeys
    <3>8. Keeps(final, adapted, K)
      BY <3>4, <3>6, <3>7, OverIs DEF Keeps
    <3>9. Has(final, "metadata") /\ final.metadata = z
      BY <3>6, <3>7, OverIs
    <3>10. Has(adapted, "metadata") /\ Has(adapted.metadata, "user_id") => z.user_id = adapted.metadata.user_id
      BY <3>4, <3>5, OverIs DEF Keeps, Get
    <3> QED
      BY <3>8, <3>9, <3>10
  <2> QED
    BY <2>1, <2>2 DEF FinalFor, adapted
<1>4. Keeps(named, final, K \cup {"metadata"})
  <2> HIDE DEF final
  <2>1. \A v : \A k \in K \cup {"metadata"} : ~Has([model |-> v], k)
    BY DEF Has, ToolKeys
  <2> QED
    BY <2>1, OverIs DEF WithModel, Keeps
<1>5. /\ codex => b = [stream |-> TRUE] ++ named
      /\ ~codex => b = named
  BY DEF SentTo, ForceStream
<1>6. codex => Keeps(b, named, ToolKeys) /\ Get(b, "stream", FALSE) = TRUE
  <2> HIDE DEF named, b
  <2>1. /\ \A k \in ToolKeys : ~Has([stream |-> TRUE], k)
        /\ Has([stream |-> TRUE], "stream") /\ [stream |-> TRUE].stream = TRUE
    BY DEF Has, ToolKeys
  <2> QED
    BY <1>5, <2>1, OverIs DEF Keeps, Get
<1> HIDE DEF body, adapted, final, named, b, codex
<1>7. Keeps(b, body, ToolKeys)
  BY <1>2, <1>3, <1>4, <1>5, <1>6 DEF Keeps
<1>8. ~codex => Get(b, "stream", FALSE) = Get(body, "stream", FALSE)
  BY <1>2, <1>3, <1>4, <1>5 DEF Keeps, Get
<1>9. ~codex /\ Has(body, "metadata") /\ Has(body.metadata, "user_id") => b.metadata.user_id = body.metadata.user_id
  BY <1>2, <1>3, <1>4, <1>5 DEF Keeps
<1> QED
  BY <1>6, <1>7, <1>8, <1>9 DEF body, b, codex

LEMMA AllSwitched ==
  ASSUME Exchanged, IsSent, endpoint \in Family, Translates
  PROVE  SwitchedAsAsked
<1> DEFINE dialect == Speaks(endpoint, provider)
           format  == FromProvider(provider)
           body    == BodyFor(provider)
           codex   == UpstreamOf(provider) = "responses" /\ IsCodexResponses(Resolved(provider))
<1>1. /\ provider \in Providers /\ sent = SentTo(provider) /\ ~Bad(body)
  BY MatchingIsOfThem DEF Exchanged, AsSent, Usable
<1>2. /\ format = "gemini" => dialect = "gemini"
      /\ format = "ollama" => dialect = "ollama"
      /\ dialect = "claude" => format = "claude"
  BY DEF Translates, Speaks
<1>3. Switched(body, format)
  BY <1>1, BodyIsSwitched
<1>4. /\ Keeps(sent, body, ToolKeys)
      /\ codex => Get(sent, "stream", FALSE) = TRUE
      /\ ~codex => Get(sent, "stream", FALSE) = Get(body, "stream", FALSE)
      /\ ~codex /\ Has(body, "metadata") /\ Has(body.metadata, "user_id") =>
           sent.metadata.user_id = body.metadata.user_id
  BY <1>1, SentKeeps
<1>5. Keeps(normal, asked, ToolKeys \cup {"metadata"})
  BY NormalKeeps
<1>6. /\ Choice(normal) = Choice(asked) /\ (Has(normal, "tools") <=> Has(asked, "tools"))
      /\ Has(asked, "tools") => normal.tools = asked.tools
  BY <1>5 DEF Keeps, Choice, Get, ToolKeys
<1>7. Choice(sent) = Choice(body) /\ (Has(sent, "tools") <=> Has(body, "tools"))
  BY <1>4 DEF Keeps, Choice, Get, ToolKeys
<1>8. dialect # "gemini" => (Get(sent, "stream", FALSE) <=> Streams \/ codex)
  <2> HIDE DEF codex, body, dialect, format
  <2> QED
    BY <1>2, <1>3, <1>4 DEF Switched, Streams
<1>9. ASSUME endpoint = "messages", dialect = "claude", Has(asked, "metadata"), Has(asked.metadata, "user_id")
      PROVE  sent.metadata.user_id = asked.metadata.user_id
  <2>1. format = "claude" /\ UpstreamOf(provider) = "messages"
    BY <1>2, <1>9 DEF UpstreamOf, UpstreamEndpoint, ToMessagesEndpoint, Family
  <2>2. body = normal
    <3>1. DetectSource(endpoint, normal) = "claude"
      BY <1>9 DEF DetectSource
    <3> QED
      BY <2>1, <3>1 DEF BodyFor, TranslateRequest
  <2>3. Has(normal, "metadata") /\ normal.metadata = asked.metadata
    BY <1>5, <1>9 DEF Keeps
  <2> QED
    BY <1>4, <1>9, <2>1, <2>2, <2>3
<1>10. /\ Has(sent, "tools") /\ Choice(asked) = "none" /\ dialect # "ollama" => Choice(sent) = "none"
       /\ /\ Has(asked, "tools") /\ Choice(asked) # "none"
          /\ DetectSource(endpoint, normal) = "openai" => asked.tools = "openai"
          => Has(sent, "tools")
  <2> HIDE DEF codex, body, dialect, format
  <2> QED
    BY <1>2, <1>3, <1>6, <1>7 DEF Switched
<1> QED
  BY <1>8, <1>9, <1>10 DEF SwitchedAsAsked, UpstreamOf

-------------------------------------------------------------------------------
(***************************************************************************)
(* Sequences in a row                                                      *)
(***************************************************************************)
\* A sequence, whatever it is of, and a sequence of such.
IsSeqs(s) == IsSeq(s) /\ \A i \in DOMAIN s : IsSeq(s[i])

\* A sequence of whatever it is of, its own elements among them.
LEMMA SeqIs == ASSUME NEW s, NEW D, s \in Seq(D) PROVE IsSeq(s)
<1>1. DOMAIN s = 1 .. Len(s) /\ Len(s) \in Nat /\ s = [i \in 1 .. Len(s) |-> s[i]]
  OBVIOUS
<1>2. \A i \in 1 .. Len(s) : s[i] \in Range(s)
  BY <1>1 DEF Range
<1> HIDE DEF IsSeq
<1>3. s \in Seq(Range(s))
  BY <1>1, <1>2
<1> QED
  BY <1>3 DEF IsSeq

LEMMA SeqIn == ASSUME NEW s, NEW D, IsSeq(s), Range(s) \subseteq D PROVE s \in Seq(D)
<1>1. PICK R : R = Range(s)
  OBVIOUS
<1>2. s \in Seq(R) /\ R \subseteq D
  BY <1>1 DEF IsSeq
<1>3. Len(s) \in Nat /\ s \in [1 .. Len(s) -> D]
  BY <1>2
<1> QED
  BY <1>3

LEMMA SeqHas == ASSUME NEW s, IsSeq(s) PROVE DOMAIN s = 1 .. Len(s) /\ Len(s) \in Nat
BY DEF IsSeq

\* What is made of each element of a sequence is a sequence.
LEMMA EachIs ==
  ASSUME NEW s, IsSeq(s), NEW f, DOMAIN f = DOMAIN s, f = [i \in DOMAIN f |-> f[i]]
  PROVE  IsSeq(f) /\ Len(f) = Len(s)
<1>1. DOMAIN s = 1 .. Len(s) /\ Len(s) \in Nat
  BY SeqHas
<1>2. f \in [1 .. Len(s) -> Range(f)]
  BY <1>1 DEF Range
<1>3. f \in Seq(Range(f)) /\ Len(f) = Len(s)
  BY <1>1, <1>2
<1> QED
  BY <1>3 DEF IsSeq

\* Two sequences that are joined, and which element comes from where.
LEMMA JoinIsSeq ==
  ASSUME NEW s, NEW t, IsSeq(s), IsSeq(t)
  PROVE  /\ IsSeq(s \o t) /\ Len(s \o t) = Len(s) + Len(t)
         /\ \A i \in 1 .. Len(s) : (s \o t)[i] = s[i]
         /\ \A i \in 1 .. Len(t) : (s \o t)[Len(s) + i] = t[i]
<1>1. PICK D : D = Range(s) \cup Range(t)
  OBVIOUS
<1>2. s \in Seq(D) /\ t \in Seq(D)
  BY <1>1, SeqIn
<1>3. s \o t \in Seq(D)
  BY <1>2
<1>4. IsSeq(s \o t)
  BY <1>3, SeqIs
<1> QED
  BY <1>2, <1>4

\* It does not matter which of three are joined first, and nothing joined changes nothing.
LEMMA JoinThree == 
  ASSUME NEW s, NEW t, NEW u, IsSeq(s), IsSeq(t), IsSeq(u)
  PROVE  (s \o t) \o u = s \o (t \o u)
<1>1. PICK D : D = Range(s) \cup Range(t) \cup Range(u)
  OBVIOUS
<1>2. s \in Seq(D) /\ t \in Seq(D) /\ u \in Seq(D)
  BY <1>1, SeqIn
<1> QED
  BY <1>2

LEMMA JoinNone == ASSUME NEW s, IsSeq(s) PROVE <<>> \o s = s /\ s \o <<>> = s
BY DEF IsSeq

\* The sequences that are written down.
LEMMA NoneIsSeq == IsSeq(<<>>) /\ IsSeqs(<<>>) /\ Len(<<>>) = 0 /\ DOMAIN <<>> = {}
BY DEF IsSeq, IsSeqs

LEMMA OneIsSeq == ASSUME NEW x PROVE IsSeq(<<x>>) /\ Len(<<x>>) = 1 /\ <<x>>[1] = x
<1>1. <<x>> \in Seq({x})
  OBVIOUS
<1> QED
  BY <1>1, SeqIs

\* w says what the first ones of some sequences come to, one after the other.
Sums(s, w) ==
  /\ w[0] = <<>> /\ FlattenSeq(s) = w[Len(s)]
  /\ \A i \in 0 .. Len(s) : IsSeq(w[i])
  /\ \A i \in 1 .. Len(s) : w[i] = w[i - 1] \o s[i]

\* FlattenSeq adds up: there are the sequences that it has come to, one by one.
LEMMA SumsExist == ASSUME NEW s, IsSeqs(s) PROVE \E w : Sums(s, w)
<1>1. PICK N : N = Len(s)
  OBVIOUS
<1>2. N \in Nat /\ DOMAIN s = 1 .. N /\ \A i \in 1 .. N : IsSeq(s[i])
  BY <1>1, SeqHas DEF IsSeqs
<1>3. PICK D : D = UNION {Range(s[i]) : i \in 1 .. N}
  OBVIOUS
<1>4. \A i \in 1 .. N : s[i] \in Seq(D)
  <2> SUFFICES ASSUME NEW i \in 1 .. N PROVE s[i] \in Seq(D)
    OBVIOUS
  <2>1. Range(s[i]) \subseteq D
    BY <1>3
  <2> QED
    BY <1>2, <2>1, SeqIn
<1>5. PICK e : e = <<>>
  OBVIOUS
<1>6. e \in Seq(D) /\ Len(e) = 0 /\ \A y \in Seq(D) : e \o y = y
  BY <1>5
<1>7. CASE N = 0
  <2>1. FlattenSeq(s) = s /\ s = e
    <3>1. s = e
      <4>1. PICK R : R = Range(s)
        OBVIOUS
      <4>2. s \in Seq(R) /\ Len(s) = 0
        BY <1>1, <1>7, <4>1 DEF IsSeqs, IsSeq
      <4> QED
        BY <1>5, <4>2
    <3> QED
      BY <1>1, <1>7, <3>1 DEF FlattenSeq
  <2>2. PICK w : w = [i \in {0} |-> e]
    OBVIOUS
  <2>3. w[0] = e /\ 0 .. N = {0} /\ 1 .. N = {}
    BY <1>7, <2>2
  <2>4. IsSeq(e)
    BY <1>6, SeqIs
  <2> QED
    BY <1>1, <1>5, <1>7, <2>1, <2>3, <2>4 DEF Sums
<1>8. CASE N > 0
  <2> DEFINE Is(f) == f = [i \in 1 .. N |-> IF i = 1 THEN s[i] ELSE f[i - 1] \o s[i]]
             g == [i \in 1 .. N |-> [y \in Seq(D) |-> y \o s[i]]]
             w == CHOOSE f : Is(f)
  <2>1. \E h \in Steps1(N, Seq(D)) : \A i \in 1 .. N : \A y \in Seq(D) : h[i][y] = y \o s[i]
    <3>1. \A i \in 1 .. N : \A y \in Seq(D) : y \o s[i] \in Seq(D)
      BY <1>4
    <3>2. g \in Steps1(N, Seq(D))
      BY <3>1 DEF Steps1
    <3>3. \A i \in 1 .. N : \A y \in Seq(D) : g[i][y] = y \o s[i]
      OBVIOUS
    <3> HIDE DEF g
    <3> QED
      BY <3>2, <3>3
  <2>2. PICK h \in Steps1(N, Seq(D)) : \A i \in 1 .. N : \A y \in Seq(D) : h[i][y] = y \o s[i]
    BY <2>1
  <2>3. PICK u : Stepped(N, Seq(D), e, h, u)
    BY <1>2, <1>6, <2>2, StepByStep
  <2>4. u \in [0 .. N -> Seq(D)] /\ u[0] = e /\ \A i \in 1 .. N : u[i] = u[i - 1] \o s[i]
    <3>1. u \in [0 .. N -> Seq(D)] /\ u[0] = e /\ \A i \in 1 .. N : u[i] = h[i][u[i - 1]]
      BY <2>3 DEF Stepped
    <3>2. \A i \in 1 .. N : u[i - 1] \in Seq(D)
      BY <1>2, <3>1
    <3> QED
      BY <2>2, <3>1, <3>2
  <2> DEFINE v == [i \in 1 .. N |-> u[i]]
  <2>5. u[1] = s[1]
    <3>1. 1 \in 1 .. N /\ 1 - 1 = 0
      BY <1>2, <1>8
    <3>2. u[1] = u[0] \o s[1]
      BY <2>4, <3>1
    <3> QED
      BY <1>4, <1>6, <2>4, <3>1, <3>2
  <2>6. Is(v)
    <3>1. \A i \in 1 .. N : v[i] = IF i = 1 THEN s[i] ELSE v[i - 1] \o s[i]
      <4>1. \A i \in 1 .. N : v[i] = u[i]
        OBVIOUS
      <4> HIDE DEF v
      <4>2. \A i \in 1 .. N : i # 1 => i - 1 \in 1 .. N
        BY <1>2
      <4> QED
        BY <2>4, <2>5, <4>1, <4>2
    <3>2. v = [i \in 1 .. N |-> v[i]]
      OBVIOUS
    <3> HIDE DEF v
    <3> QED
      BY <3>1, <3>2
  <2> HIDE DEF v, Is, g
  <2>7. Is(w)
    BY <2>6
  <2>8. FlattenSeq(s) = w[N]
    BY <1>1, <1>8 DEF FlattenSeq, Is
  <2> HIDE DEF w
  <2>9. \A i \in 1 .. N : w[i] = IF i = 1 THEN s[i] ELSE w[i - 1] \o s[i]
    BY <2>7, Zenon DEF Is
  <2> DEFINE T == {i \in 0 .. N : i = 0 \/ w[i] = u[i]}
  <2>10. ASSUME NEW i \in 1 .. N, i - 1 \in T PROVE i \in T
    <3>1. CASE i = 1
      BY <2>5, <2>9, <3>1
    <3>2. CASE i # 1
      <4>1. w[i - 1] = u[i - 1]
        BY <1>2, <2>10, <3>2
      <4>2. w[i] = w[i - 1] \o s[i] /\ u[i] = u[i - 1] \o s[i]
        BY <2>4, <2>9, <3>2
      <4>3. w[i] = u[i] /\ i \in 0 .. N
        BY <4>1, <4>2
      <4> QED
        BY <4>3
    <3> QED
      BY <3>1, <3>2
  <2>11. N \in T
    <3>1. 0 \in T
      BY <1>2
    <3> HIDE DEF T
    <3>2. 0 .. N \subseteq T
      BY <1>2, <2>10, <3>1, UpTo
    <3> QED
      BY <1>2, <3>2
  <2>12. FlattenSeq(s) = u[N]
    BY <1>8, <2>8, <2>11
  <2>13. \A i \in 0 .. N : IsSeq(u[i])
    BY <2>4, SeqIs
  <2> QED
    BY <1>1, <1>5, <2>4, <2>12, <2>13 DEF Sums
<1> QED
  BY <1>2, <1>7, <1>8

\* Sequences put in a row are a sequence.
LEMMA FlattenIsSeq == ASSUME NEW s, IsSeqs(s) PROVE IsSeq(FlattenSeq(s))
<1>1. PICK w : Sums(s, w)
  BY SumsExist
<1>2. Len(s) \in 0 .. Len(s)
  BY SeqHas DEF IsSeqs
<1> QED
  BY <1>1, <1>2 DEF Sums

\* To put two rows together before or after they are flattened is the same.
LEMMA JoinIsSeqs == ASSUME NEW s, NEW t, IsSeqs(s), IsSeqs(t) PROVE IsSeqs(s \o t)
<1>1. IsSeq(s) /\ IsSeq(t)
  BY DEF IsSeqs
<1>2. PICK n, m : n = Len(s) /\ m = Len(t)
  OBVIOUS
<1>3. n \in Nat /\ m \in Nat /\ DOMAIN s = 1 .. n /\ DOMAIN t = 1 .. m
  BY <1>1, <1>2, SeqHas
<1>4. IsSeq(s \o t) /\ DOMAIN (s \o t) = 1 .. n + m
  BY <1>1, <1>2, JoinIsSeq, SeqHas
<1>5. ASSUME NEW i \in 1 .. n + m PROVE IsSeq((s \o t)[i])
  <2>1. CASE i <= n
    <3>1. i \in 1 .. n /\ (s \o t)[i] = s[i]
      BY <1>1, <1>2, <1>3, <2>1, JoinIsSeq
    <3> QED
      BY <1>3, <3>1 DEF IsSeqs
  <2>2. CASE i > n
    <3>1. i - n \in 1 .. m /\ i = n + (i - n)
      BY <1>3, <2>2
    <3>2. (s \o t)[i] = t[i - n]
      BY <1>1, <1>2, <3>1, JoinIsSeq
    <3> QED
      BY <1>3, <3>1, <3>2 DEF IsSeqs
  <2> QED
    BY <1>3, <2>1, <2>2
<1> QED
  BY <1>4, <1>5 DEF IsSeqs

LEMMA FlattenJoin ==
  ASSUME NEW s, NEW t, IsSeqs(s), IsSeqs(t)
  PROVE  FlattenSeq(s \o t) = FlattenSeq(s) \o FlattenSeq(t)
<1>1. IsSeq(s) /\ IsSeq(t) /\ IsSeqs(s \o t)
  BY JoinIsSeqs DEF IsSeqs
<1>2. PICK n, m : n = Len(s) /\ m = Len(t)
  OBVIOUS
<1>3. /\ n \in Nat /\ m \in Nat /\ DOMAIN s = 1 .. n /\ DOMAIN t = 1 .. m /\ Len(s \o t) = n + m
      /\ \A i \in 1 .. n : (s \o t)[i] = s[i]
      /\ \A i \in 1 .. m : (s \o t)[n + i] = t[i]
  BY <1>1, <1>2, SeqHas, JoinIsSeq
<1>4. PICK u, v, w : Sums(s, u) /\ Sums(t, v) /\ Sums(s \o t, w)
  BY <1>1, SumsExist
<1>5. PICK r : r = s \o t
  OBVIOUS
<1>6. /\ u[0] = <<>> /\ FlattenSeq(s) = u[n] /\ (\A i \in 0 .. n : IsSeq(u[i]))
      /\ \A i \in 1 .. n : u[i] = u[i - 1] \o s[i]
  BY <1>2, <1>4 DEF Sums
<1>7. /\ v[0] = <<>> /\ FlattenSeq(t) = v[m] /\ (\A i \in 0 .. m : IsSeq(v[i]))
      /\ \A i \in 1 .. m : v[i] = v[i - 1] \o t[i]
  BY <1>2, <1>4 DEF Sums
<1>8. /\ w[0] = <<>> /\ FlattenSeq(s \o t) = w[n + m]
      /\ \A i \in 1 .. n + m : w[i] = w[i - 1] \o r[i]
  BY <1>3, <1>4, <1>5 DEF Sums
<1>9. (\A i \in 1 .. n : r[i] = s[i]) /\ \A i \in 1 .. m : r[n + i] = t[i]
  BY <1>3, <1>5
<1>10. w[n] = u[n]
  <2> DEFINE T == {i \in 0 .. n : w[i] = u[i]}
  <2>1. ASSUME NEW i \in 1 .. n, i - 1 \in T PROVE i \in T
    <3>1. i \in 1 .. n + m /\ i \in 0 .. n
      BY <1>3
    <3>2. w[i] = w[i - 1] \o s[i] /\ u[i] = u[i - 1] \o s[i]
      BY <1>6, <1>8, <1>9, <3>1
    <3>3. w[i - 1] = u[i - 1]
      BY <2>1
    <3> QED
      BY <3>1, <3>2, <3>3
  <2>2. 0 \in T
    BY <1>3, <1>6, <1>8
  <2> HIDE DEF T
  <2>3. 0 .. n \subseteq T
    BY <1>3, <2>1, <2>2, UpTo
  <2>4. n \in T
    BY <1>3, <2>3
  <2> QED
    BY <2>4 DEF T
<1>11. w[n + m] = u[n] \o v[m]
  <2> DEFINE T == {i \in 0 .. m : w[n + i] = u[n] \o v[i]}
  <2>1. IsSeq(u[n])
    BY <1>3, <1>6
  <2>2. ASSUME NEW i \in 1 .. m, i - 1 \in T PROVE i \in T
    <3>1. n + i \in 1 .. n + m /\ (n + i) - 1 = n + (i - 1) /\ i - 1 \in 0 .. m
      BY <1>3
    <3>2. w[n + i] = w[n + (i - 1)] \o t[i]
      BY <1>8, <1>9, <3>1
    <3>3. w[n + (i - 1)] = u[n] \o v[i - 1]
      BY <2>2
    <3>4. IsSeq(v[i - 1]) /\ IsSeq(t[i])
      BY <1>3, <1>7, <3>1 DEF IsSeqs
    <3>5. (u[n] \o v[i - 1]) \o t[i] = u[n] \o (v[i - 1] \o t[i])
      <4>1. PICK a, b, c : a = u[n] /\ b = v[i - 1] /\ c = t[i]
        OBVIOUS
      <4>2. IsSeq(a) /\ IsSeq(b) /\ IsSeq(c)
        BY <2>1, <3>4, <4>1
      <4>3. (a \o b) \o c = a \o (b \o c)
        BY <4>2, JoinThree
      <4> QED
        BY <4>1, <4>3
    <3>6. v[i] = v[i - 1] \o t[i]
      BY <1>7
    <3>7. w[n + i] = u[n] \o v[i] /\ i \in 0 .. m
      BY <3>2, <3>3, <3>5, <3>6
    <3> QED
      BY <3>7
  <2>3. 0 \in T
    <3>1. n + 0 = n /\ 0 \in 0 .. m
      BY <1>3
    <3>2. u[n] \o <<>> = u[n]
      BY <2>1, JoinNone
    <3> QED
      BY <1>7, <1>10, <3>1, <3>2
  <2> HIDE DEF T
  <2>4. 0 .. m \subseteq T
    BY <1>3, <2>2, <2>3, UpTo
  <2>5. m \in T
    BY <1>3, <2>4
  <2> QED
    BY <2>5 DEF T
<1> QED
  BY <1>6, <1>7, <1>8, <1>11

\* What h makes of two sequences that are joined are two that are joined.
KeepsJoins(D, h) ==
  /\ h[<<>>] = <<>>
  /\ \A x \in Seq(D) : IsSeq(h[x])
  /\ \A x, y \in Seq(D) : h[x \o y] = h[x] \o h[y]

\* So what h makes of a row of sequences is what it makes of each, in a row.
LEMMA EachJoined ==
  ASSUME NEW D, NEW h, NEW s \in Seq(Seq(D)), KeepsJoins(D, h)
  PROVE  /\ FlattenSeq(s) \in Seq(D)
         /\ IsSeqs([i \in DOMAIN s |-> h[s[i]]])
         /\ h[FlattenSeq(s)] = FlattenSeq([i \in DOMAIN s |-> h[s[i]]])
<1> USE DEF KeepsJoins
<1>1. PICK N : N = Len(s)
  OBVIOUS
<1>2. PICK f : f = [i \in DOMAIN s |-> h[s[i]]]
  OBVIOUS
<1>3. N \in Nat /\ DOMAIN s = 1 .. N /\ DOMAIN f = 1 .. N /\ \A i \in 1 .. N : s[i] \in Seq(D) /\ f[i] = h[s[i]]
  BY <1>1, <1>2
<1>4. IsSeqs(s)
  BY <1>3, SeqIs DEF IsSeqs
<1>5. IsSeqs(f) /\ Len(f) = N
  <2>1. IsSeq(f) /\ Len(f) = N
    BY <1>1, <1>2, <1>4, EachIs DEF IsSeqs
  <2> QED
    BY <1>3, <2>1 DEF IsSeqs
<1>6. PICK u, v : Sums(s, u) /\ Sums(f, v)
  BY <1>4, <1>5, SumsExist
<1>7. u[0] = <<>> /\ FlattenSeq(s) = u[N] /\ \A i \in 1 .. N : u[i] = u[i - 1] \o s[i]
  BY <1>1, <1>6 DEF Sums
<1>8. v[0] = <<>> /\ FlattenSeq(f) = v[N] /\ \A i \in 1 .. N : v[i] = v[i - 1] \o f[i]
  BY <1>5, <1>6 DEF Sums
<1> DEFINE T == {i \in 0 .. N : u[i] \in Seq(D) /\ h[u[i]] = v[i]}
<1>9. ASSUME NEW i \in 1 .. N, i - 1 \in T PROVE i \in T
  <2>1. PICK a, b, c : a = u[i - 1] /\ b = s[i] /\ c = v[i - 1]
    OBVIOUS
  <2>2. a \in Seq(D) /\ b \in Seq(D) /\ h[a] = c
    BY <1>3, <1>9, <2>1
  <2>3. a \o b \in Seq(D) /\ h[a \o b] = h[a] \o h[b]
    <3>1. a \o b \in Seq(D)
      BY <2>2
    <3>2. h[a \o b] = h[a] \o h[b]
      BY <2>2, Zenon
    <3> QED
      BY <3>1, <3>2
  <2>4. u[i] = a \o b /\ v[i] = c \o h[b]
    BY <1>3, <1>7, <1>8, <2>1
  <2>5. u[i] \in Seq(D) /\ h[u[i]] = v[i] /\ i \in 0 .. N
    BY <2>2, <2>3, <2>4
  <2> QED
    BY <2>5
<1>10. 0 \in T
  <2>1. PICK e : e = <<>>
    OBVIOUS
  <2>2. e \in Seq(D) /\ h[e] = e /\ u[0] = e /\ v[0] = e
    BY <1>7, <1>8, <2>1
  <2> QED
    BY <1>3, <2>2
<1>11. N \in T
  <2> HIDE DEF T
  <2>1. 0 .. N \subseteq T
    BY <1>3, <1>9, <1>10, UpTo
  <2> QED
    BY <1>3, <2>1
<1> QED
  BY <1>2, <1>5, <1>7, <1>8, <1>11

\* What r makes of the elements of a sequence, one after the other.
Through(r, q) == FlattenSeq([i \in DOMAIN q |-> r[q[i]]])

\* A row of one, and of none.
LEMMA FlattenOf == ASSUME NEW s, IsSeq(s), Len(s) = 1 PROVE FlattenSeq(s) = s[1]
BY FlattenOne

LEMMA FlattenNone == FlattenSeq(<<>>) = <<>>
BY DEF FlattenSeq

\* What each element comes to, in a row, is a sequence.
LEMMA ThroughSeq ==
  ASSUME NEW D, NEW r, NEW q \in Seq(D), \A x \in D : IsSeq(r[x])
  PROVE  IsSeqs([i \in DOMAIN q |-> r[q[i]]]) /\ IsSeq(Through(r, q))
<1>1. PICK f : f = [i \in DOMAIN q |-> r[q[i]]]
  OBVIOUS
<1>2. IsSeq(f)
  BY <1>1, SeqIs, EachIs
<1>3. \A i \in DOMAIN f : IsSeq(f[i])
  BY <1>1
<1> QED
  BY <1>1, <1>2, <1>3, FlattenIsSeq DEF IsSeqs, Through

\* It keeps what is one, what is none and what is joined.
LEMMA ThroughOne ==
  ASSUME NEW r, NEW x PROVE Through(r, <<x>>) = r[x]
<1>1. PICK q : q = <<x>>
  OBVIOUS
<1>2. IsSeq(q) /\ Len(q) = 1 /\ q[1] = x /\ DOMAIN q = {1}
  BY <1>1, OneIsSeq, SeqHas
<1>3. PICK f : f = [i \in DOMAIN q |-> r[q[i]]]
  OBVIOUS
<1>4. Len(f) = 1 /\ f[1] = r[x]
  BY <1>2, <1>3, EachIs
<1>5. Through(r, q) = r[x]
  BY <1>3, <1>4, FlattenOne DEF Through
<1> QED
  BY <1>1, <1>5

LEMMA ThroughNone == ASSUME NEW r PROVE Through(r, <<>>) = <<>>
<1>1. PICK e : e = <<>>
  OBVIOUS
<1>2. DOMAIN e = {}
  BY <1>1
<1>3. [i \in DOMAIN e |-> r[e[i]]] = e
  BY <1>1, <1>2
<1>4. Through(r, e) = e
  BY <1>1, <1>3, FlattenNone DEF Through
<1> QED
  BY <1>1, <1>4

LEMMA ThroughJoin ==
  ASSUME NEW D, NEW r, NEW p \in Seq(D), NEW q \in Seq(D), \A x \in D : IsSeq(r[x])
  PROVE  Through(r, p \o q) = Through(r, p) \o Through(r, q)
<1>1. PICK f, g, k : /\ f = [i \in DOMAIN p |-> r[p[i]]]
                     /\ g = [i \in DOMAIN q |-> r[q[i]]]
                     /\ k = [i \in DOMAIN (p \o q) |-> r[(p \o q)[i]]]
  OBVIOUS
<1>2. PICK n, m : n = Len(p) /\ m = Len(q)
  OBVIOUS
<1>3. /\ n \in Nat /\ m \in Nat /\ DOMAIN p = 1 .. n /\ DOMAIN q = 1 .. m /\ DOMAIN (p \o q) = 1 .. n + m
      /\ \A i \in 1 .. n : (p \o q)[i] = p[i]
      /\ \A i \in 1 .. m : (p \o q)[n + i] = q[i]
  BY <1>2
<1>4. IsSeqs(f) /\ IsSeqs(g)
  BY <1>1, ThroughSeq
<1>5. IsSeq(f) /\ IsSeq(g) /\ Len(f) = n /\ Len(g) = m
  BY <1>1, <1>2, SeqIs, EachIs
<1>6. /\ \A i \in 1 .. n : (f \o g)[i] = f[i]
      /\ \A i \in 1 .. m : (f \o g)[n + i] = g[i]
      /\ IsSeq(f \o g) /\ Len(f \o g) = n + m
  BY <1>5, JoinIsSeq, SMTT(30)
<1>7. PICK l : l = f \o g
  OBVIOUS
<1>8. \A i \in 1 .. n + m : k[i] = l[i]
  <2> SUFFICES ASSUME NEW i \in 1 .. n + m PROVE k[i] = l[i]
    OBVIOUS
  <2>1. k[i] = r[(p \o q)[i]]
    BY <1>1, <1>3
  <2>2. CASE i \in 1 .. n
    BY <1>1, <1>3, <1>6, <1>7, <2>1, <2>2
  <2>3. CASE i \notin 1 .. n
    <3>1. PICK j \in 1 .. m : i = n + j
      <4>1. i - n \in 1 .. m /\ i = n + (i - n)
        BY <1>3, <2>3
      <4> QED
        BY <4>1
    <3>2. (p \o q)[i] = q[j] /\ l[i] = g[j] /\ g[j] = r[q[j]]
      BY <1>1, <1>3, <1>6, <1>7, <3>1
    <3> QED
      BY <2>1, <3>2
  <2> QED
    BY <2>2, <2>3
<1>9. k = l
  <2>1. DOMAIN l = 1 .. n + m /\ l = [i \in 1 .. n + m |-> l[i]]
    <3>1. PICK R : R = Range(l)
      OBVIOUS
    <3>2. l \in Seq(R) /\ Len(l) = n + m
      BY <1>6, <1>7, <3>1 DEF IsSeq
    <3> QED
      BY <3>2
  <2>2. DOMAIN k = 1 .. n + m /\ k = [i \in 1 .. n + m |-> k[i]]
    BY <1>1, <1>3
  <2> QED
    BY <1>8, <2>1, <2>2
<1>10. FlattenSeq(f \o g) = FlattenSeq(f) \o FlattenSeq(g)
  BY <1>4, FlattenJoin
<1> QED
  BY <1>1, <1>7, <1>9, <1>10 DEF Through

\* What becomes of each part becomes of the whole.
LEMMA ThroughAll ==
  ASSUME NEW D, NEW r, NEW s \in Seq(Seq(D)), \A x \in D : IsSeq(r[x])
  PROVE  /\ FlattenSeq(s) \in Seq(D)
         /\ IsSeqs([i \in DOMAIN s |-> Through(r, s[i])])
         /\ Through(r, FlattenSeq(s)) = FlattenSeq([i \in DOMAIN s |-> Through(r, s[i])])
<1>1. PICK h : h = [x \in Seq(D) |-> Through(r, x)]
  OBVIOUS
<1>2. \A x \in Seq(D) : h[x] = Through(r, x) /\ IsSeq(h[x])
  BY <1>1, ThroughSeq
<1>3. PICK e : e = <<>>
  OBVIOUS
<1>4. h[<<>>] = <<>>
  <2>1. e \in Seq(D)
    BY <1>3
  <2>2. Through(r, e) = e
    BY <1>3, ThroughNone
  <2> QED
    BY <1>2, <1>3, <2>1, <2>2
<1>5. \A x, y \in Seq(D) : h[x \o y] = h[x] \o h[y]
  <2> SUFFICES ASSUME NEW x \in Seq(D), NEW y \in Seq(D) PROVE h[x \o y] = h[x] \o h[y]
    OBVIOUS
  <2>1. x \o y \in Seq(D)
    OBVIOUS
  <2>2. Through(r, x \o y) = Through(r, x) \o Through(r, y)
    BY ThroughJoin
  <2> QED
    BY <1>2, <2>1, <2>2
<1>6. [i \in DOMAIN s |-> h[s[i]]] = [i \in DOMAIN s |-> Through(r, s[i])]
  <2>1. \A i \in DOMAIN s : h[s[i]] = Through(r, s[i])
    BY <1>2
  <2> QED
    BY <2>1
<1>7. /\ FlattenSeq(s) \in Seq(D)
      /\ IsSeqs([i \in DOMAIN s |-> h[s[i]]])
      /\ h[FlattenSeq(s)] = FlattenSeq([i \in DOMAIN s |-> h[s[i]]])
  <2>1. KeepsJoins(D, h)
    BY <1>2, <1>4, <1>5 DEF KeepsJoins
  <2> QED
    BY <2>1, EachJoined, ZenonT(60)
<1> QED
  BY <1>2, <1>6, <1>7

-------------------------------------------------------------------------------
(***************************************************************************)
(* What is read of texts and items                                         *)
(***************************************************************************)
\* What a reader makes of texts, joined or not.
LEMMA TextIs ==
  ASSUME NEW who, NEW t, IsSeq(t)
  PROVE  /\ IsSeq(ReadText(who, t)) /\ Len(ReadText(who, t)) = Len(t)
         /\ ReadText(who, t) = [i \in DOMAIN t |-> <<who, "text", t[i]>>]
<1>1. ReadText(who, t) = [i \in DOMAIN t |-> <<who, "text", t[i]>>]
  BY Zenon DEF ReadText, MapSeq
<1>2. PICK f : f = [i \in DOMAIN t |-> <<who, "text", t[i]>>]
  OBVIOUS
<1>3. IsSeq(f) /\ Len(f) = Len(t)
  BY <1>2, EachIs
<1> QED
  BY <1>1, <1>2, <1>3

\* Of a text that is empty nothing is read.
LEMMA TextNone == ASSUME NEW who PROVE ReadText(who, <<>>) = <<>>
<1>1. PICK e, f : e = <<>> /\ f = ReadText(who, e)
  OBVIOUS
<1>2. IsSeq(e) /\ Len(e) = 0
  BY <1>1, NoneIsSeq
<1>3. IsSeq(f) /\ Len(f) = 0
  BY <1>1, <1>2, TextIs
<1>4. f = <<>>
  <2>1. PICK R : R = Range(f)
    OBVIOUS
  <2>2. f \in Seq(R)
    BY <1>3, <2>1 DEF IsSeq
  <2> QED
    BY <1>3, <2>2
<1> QED
  BY <1>1, <1>4

\* Two sequences are one if they have the same elements.
LEMMA SameSeq ==
  ASSUME NEW f, NEW g, IsSeq(f), IsSeq(g), Len(f) = Len(g), \A i \in 1 .. Len(f) : f[i] = g[i]
  PROVE  f = g
<1>1. PICK R : R = Range(f) \cup Range(g)
  OBVIOUS
<1>2. f \in Seq(R) /\ g \in Seq(R)
  BY <1>1, SeqIn
<1> QED
  BY <1>2

\* Texts that are joined are read one after the other.
LEMMA TextJoin ==
  ASSUME NEW who, NEW s, NEW t, IsSeq(s), IsSeq(t)
  PROVE  ReadText(who, s \o t) = ReadText(who, s) \o ReadText(who, t)
<1>1. PICK n, m : n = Len(s) /\ m = Len(t)
  OBVIOUS
<1>2. /\ n \in Nat /\ m \in Nat /\ DOMAIN s = 1 .. n /\ DOMAIN t = 1 .. m
      /\ IsSeq(s \o t) /\ Len(s \o t) = n + m /\ DOMAIN (s \o t) = 1 .. n + m
      /\ \A i \in 1 .. n : (s \o t)[i] = s[i]
      /\ \A i \in 1 .. m : (s \o t)[n + i] = t[i]
  BY <1>1, SeqHas, JoinIsSeq
<1>3. PICK u : u = s \o t
  OBVIOUS
<1>4. PICK f, g, k : f = ReadText(who, s) /\ g = ReadText(who, t) /\ k = ReadText(who, u)
  OBVIOUS
<1>5. /\ IsSeq(f) /\ IsSeq(g) /\ IsSeq(k) /\ Len(f) = n /\ Len(g) = m /\ Len(k) = n + m
      /\ \A i \in 1 .. n : f[i] = <<who, "text", s[i]>>
      /\ \A i \in 1 .. m : g[i] = <<who, "text", t[i]>>
      /\ \A i \in 1 .. n + m : k[i] = <<who, "text", u[i]>>
  <2>1. IsSeq(u) /\ DOMAIN u = 1 .. n + m /\ Len(u) = n + m
    BY <1>2, <1>3
  <2>2. IsSeq(f) /\ IsSeq(g) /\ IsSeq(k) /\ Len(f) = n /\ Len(g) = m /\ Len(k) = n + m
    BY <1>1, <1>4, <2>1, TextIs
  <2>3. /\ f = [i \in DOMAIN s |-> <<who, "text", s[i]>>]
        /\ g = [i \in DOMAIN t |-> <<who, "text", t[i]>>]
        /\ k = [i \in DOMAIN u |-> <<who, "text", u[i]>>]
    BY <1>4, <2>1, TextIs
  <2> QED
    BY <1>2, <2>1, <2>2, <2>3
<1>6. PICK l : l = f \o g
  OBVIOUS
<1>7. /\ IsSeq(l) /\ Len(l) = n + m
      /\ \A i \in 1 .. n : l[i] = f[i]
      /\ \A i \in 1 .. m : l[n + i] = g[i]
  BY <1>5, <1>6, JoinIsSeq
<1>8. ASSUME NEW i \in 1 .. n + m PROVE k[i] = l[i]
  <2>1. CASE i \in 1 .. n
    <3>1. u[i] = s[i]
      BY <1>2, <1>3, <2>1
    <3> QED
      BY <1>5, <1>7, <2>1, <3>1
  <2>2. CASE i \notin 1 .. n
    <3>1. PICK j \in 1 .. m : i = n + j
      <4>1. i - n \in 1 .. m /\ i = n + (i - n)
        BY <1>2, <2>2
      <4> QED
        BY <4>1
    <3>2. u[i] = t[j]
      BY <1>2, <1>3, <3>1
    <3> QED
      BY <1>5, <1>7, <3>1, <3>2
  <2> QED
    BY <2>1, <2>2
<1>9. k = l
  BY <1>5, <1>7, <1>8, SameSeq
<1> QED
  BY <1>3, <1>4, <1>6, <1>9

\* Items whose texts are sequences.
AreItems(items) == IsSeq(items) /\ \A i \in DOMAIN items : IsSeq(items[i].text)

\* What is read of items: of each what it says, in a row.
LEMMA ItemIs == ASSUME NEW who, NEW in, NEW x, IsSeq(x.text) PROVE IsSeq(ReadItem(who, in, x))
<1>1. IsSeq(ReadText(who, x.text)) /\ IsSeq(ReadText("tool", x.text))
  BY TextIs
<1>2. \A a : IsSeq(<<a>>) /\ IsSeq(<<a>> \o ReadText("tool", x.text))
  BY <1>1, OneIsSeq, JoinIsSeq
<1>3. PICK n : n = IF in = "gemini" THEN x.name ELSE x.of
  OBVIOUS
<1>4. ReadItem(who, in, x) = 
        IF x.in # in THEN <<>>
        ELSE CASE x.kind = "text" -> ReadText(who, x.text)
               [] x.kind = "image" -> <<<<who, "image", x.text>>>>
               [] x.kind = "call" -> <<<<"assistant", "call", n>>>>
               [] x.kind = "result" -> <<<<"tool", "result", n>>>> \o ReadText("tool", x.text)
               [] OTHER -> <<>>
  BY <1>3, Zenon DEF ReadItem
<1> QED
  BY <1>1, <1>2, <1>4, NoneIsSeq

LEMMA ItemsIs ==
  ASSUME NEW who, NEW in, NEW items, NEW X, items \in Seq(X)
  PROVE  ReadItems(who, in, items) = Through([x \in X |-> ReadItem(who, in, x)], items)
<1>1. PICK r : r = [x \in X |-> ReadItem(who, in, x)]
  OBVIOUS
<1>2. ReadItems(who, in, items) = FlattenSeq([i \in DOMAIN items |-> ReadItem(who, in, items[i])])
  BY Zenon DEF ReadItems, FlatMap, MapSeq
<1>3. [i \in DOMAIN items |-> ReadItem(who, in, items[i])] = [i \in DOMAIN items |-> r[items[i]]]
  <2>1. \A i \in DOMAIN items : ReadItem(who, in, items[i]) = r[items[i]]
    BY <1>1
  <2> QED
    BY <2>1
<1> QED
  BY <1>1, <1>2, <1>3 DEF Through

LEMMA ItemsRead ==
  ASSUME NEW who, NEW in, NEW items, AreItems(items)
  PROVE  /\ IsSeq(ReadItems(who, in, items))
         /\ IsSeqs([i \in DOMAIN items |-> ReadItem(who, in, items[i])])
         /\ ReadItems(who, in, items) = FlattenSeq([i \in DOMAIN items |-> ReadItem(who, in, items[i])])
<1>1. PICK f : f = [i \in DOMAIN items |-> ReadItem(who, in, items[i])]
  OBVIOUS
<1>2. ReadItems(who, in, items) = FlattenSeq(f)
  BY <1>1, Zenon DEF ReadItems, FlatMap, MapSeq
<1>3. IsSeq(f) /\ \A i \in DOMAIN f : IsSeq(f[i])
  BY <1>1, EachIs, ItemIs DEF AreItems
<1> QED
  BY <1>1, <1>2, <1>3, FlattenIsSeq DEF IsSeqs

\* Of none, of one, of some that are joined, and of some in a row.
LEMMA ItemsNone == ASSUME NEW who, NEW in PROVE ReadItems(who, in, <<>>) = <<>>
<1>1. PICK e : e = <<>>
  OBVIOUS
<1>2. e \in Seq({})
  BY <1>1
<1>3. PICK r : r = [x \in {} |-> ReadItem(who, in, x)]
  OBVIOUS
<1>4. ReadItems(who, in, e) = Through(r, e)
  BY <1>2, <1>3, ItemsIs
<1> QED
  BY <1>1, <1>4, ThroughNone

LEMMA ItemsOne == ASSUME NEW who, NEW in, NEW x PROVE ReadItems(who, in, <<x>>) = ReadItem(who, in, x)
<1>1. PICK e : e = <<x>>
  OBVIOUS
<1>2. e \in Seq({x})
  BY <1>1
<1>3. PICK r : r = [y \in {x} |-> ReadItem(who, in, y)]
  OBVIOUS
<1>4. ReadItems(who, in, e) = Through(r, e)
  BY <1>2, <1>3, ItemsIs
<1>5. r[x] = ReadItem(who, in, x)
  BY <1>3
<1> QED
  BY <1>1, <1>4, <1>5, ThroughOne

LEMMA ItemsJoin ==
  ASSUME NEW who, NEW in, NEW p, NEW q, AreItems(p), AreItems(q)
  PROVE  /\ AreItems(p \o q)
         /\ ReadItems(who, in, p \o q) = ReadItems(who, in, p) \o ReadItems(who, in, q)
<1>1. PICK X : X = Range(p) \cup Range(q)
  OBVIOUS
<1>2. p \in Seq(X) /\ q \in Seq(X) /\ \A x \in X : IsSeq(x.text)
  BY <1>1, SeqIn DEF AreItems, Range
<1>3. PICK r : r = [x \in X |-> ReadItem(who, in, x)]
  OBVIOUS
<1>4. \A x \in X : IsSeq(r[x])
  BY <1>2, <1>3, ItemIs
<1>5. PICK l : l = p \o q
  OBVIOUS
<1>6. l \in Seq(X)
  BY <1>2, <1>5
<1>7. /\ ReadItems(who, in, p) = Through(r, p)
      /\ ReadItems(who, in, q) = Through(r, q)
      /\ ReadItems(who, in, l) = Through(r, l)
  BY <1>2, <1>3, <1>6, ItemsIs
<1>8. Through(r, p \o q) = Through(r, p) \o Through(r, q)
  BY <1>2, <1>4, ThroughJoin
<1>9. AreItems(l)
  <2>1. IsSeq(l)
    BY <1>6, SeqIs
  <2>2. \A i \in DOMAIN l : l[i] \in X
    BY <1>6
  <2> QED
    BY <1>2, <2>1, <2>2 DEF AreItems
<1> QED
  BY <1>5, <1>7, <1>8, <1>9

LEMMA ItemsFlatten ==
  ASSUME NEW who, NEW in, NEW s, IsSeq(s), \A i \in DOMAIN s : AreItems(s[i])
  PROVE  /\ AreItems(FlattenSeq(s))
         /\ IsSeqs([i \in DOMAIN s |-> ReadItems(who, in, s[i])])
         /\ ReadItems(who, in, FlattenSeq(s)) = FlattenSeq([i \in DOMAIN s |-> ReadItems(who, in, s[i])])
<1>1. PICK X : X = UNION {Range(s[i]) : i \in DOMAIN s}
  OBVIOUS
<1>2. \A x \in X : IsSeq(x.text)
  BY <1>1 DEF AreItems, Range
<1>3. s \in Seq(Seq(X))
  <2>1. \A i \in DOMAIN s : s[i] \in Seq(X)
    <3> SUFFICES ASSUME NEW i \in DOMAIN s PROVE s[i] \in Seq(X)
      OBVIOUS
    <3>1. Range(s[i]) \subseteq X /\ IsSeq(s[i])
      BY <1>1 DEF AreItems
    <3> QED
      BY <3>1, SeqIn
  <2>2. Range(s) \subseteq Seq(X)
    BY <2>1 DEF Range
  <2> QED
    BY <2>2, SeqIn
<1>4. PICK r : r = [x \in X |-> ReadItem(who, in, x)]
  OBVIOUS
<1>5. \A x \in X : IsSeq(r[x])
  BY <1>2, <1>4, ItemIs
<1>6. PICK l : l = FlattenSeq(s)
  OBVIOUS
<1>7. /\ l \in Seq(X)
      /\ IsSeqs([i \in DOMAIN s |-> Through(r, s[i])])
      /\ Through(r, l) = FlattenSeq([i \in DOMAIN s |-> Through(r, s[i])])
  BY <1>3, <1>5, <1>6, ThroughAll, ZenonT(60)
<1>8. ReadItems(who, in, l) = Through(r, l)
  BY <1>4, <1>7, ItemsIs
<1>9. [i \in DOMAIN s |-> ReadItems(who, in, s[i])] = [i \in DOMAIN s |-> Through(r, s[i])]
  <2>1. \A i \in DOMAIN s : s[i] \in Seq(X)
    BY <1>3
  <2>2. \A i \in DOMAIN s : ReadItems(who, in, s[i]) = Through(r, s[i])
    BY <1>4, <2>1, ItemsIs
  <2> QED
    BY <2>2
<1>10. AreItems(l)
  <2>1. IsSeq(l) /\ \A i \in DOMAIN l : l[i] \in X
    BY <1>7, SeqIs
  <2> QED
    BY <1>2, <2>1 DEF AreItems
<1> QED
  BY <1>6, <1>7, <1>8, <1>9, <1>10

\* Texts in a row are read one after the other.
LEMMA TextFlatten ==
  ASSUME NEW who, NEW s, IsSeqs(s)
  PROVE  /\ IsSeq(FlattenSeq(s))
         /\ IsSeqs([i \in DOMAIN s |-> ReadText(who, s[i])])
         /\ ReadText(who, FlattenSeq(s)) = FlattenSeq([i \in DOMAIN s |-> ReadText(who, s[i])])
<1>1. PICK X : X = UNION {Range(s[i]) : i \in DOMAIN s}
  OBVIOUS
<1>2. \A i \in DOMAIN s : s[i] \in Seq(X)
  <2> SUFFICES ASSUME NEW i \in DOMAIN s PROVE s[i] \in Seq(X)
    OBVIOUS
  <2>1. Range(s[i]) \subseteq X /\ IsSeq(s[i])
    BY <1>1 DEF IsSeqs
  <2> QED
    BY <2>1, SeqIn
<1>3. s \in Seq(Seq(X))
  <2>1. Range(s) \subseteq Seq(X)
    BY <1>2 DEF Range
  <2> QED
    BY <2>1, SeqIn DEF IsSeqs
<1>4. PICK h : h = [x \in Seq(X) |-> ReadText(who, x)]
  OBVIOUS
<1>5. KeepsJoins(X, h)
  <2>1. \A x \in Seq(X) : h[x] = ReadText(who, x) /\ IsSeq(x)
    BY <1>4, SeqIs
  <2>2. h[<<>>] = <<>>
    <3>1. <<>> \in Seq(X)
      OBVIOUS
    <3> QED
      BY <2>1, <3>1, TextNone
  <2>3. \A x \in Seq(X) : IsSeq(h[x])
    BY <2>1, TextIs
  <2>4. \A x, y \in Seq(X) : h[x \o y] = h[x] \o h[y]
    <3> SUFFICES ASSUME NEW x \in Seq(X), NEW y \in Seq(X) PROVE h[x \o y] = h[x] \o h[y]
      OBVIOUS
    <3>1. x \o y \in Seq(X)
      OBVIOUS
    <3>2. ReadText(who, x \o y) = ReadText(who, x) \o ReadText(who, y)
      BY <2>1, TextJoin
    <3> QED
      BY <2>1, <3>1, <3>2
  <2> QED
    BY <2>2, <2>3, <2>4 DEF KeepsJoins
<1>6. PICK l : l = FlattenSeq(s)
  OBVIOUS
<1>7. /\ l \in Seq(X)
      /\ IsSeqs([i \in DOMAIN s |-> h[s[i]]])
      /\ h[l] = FlattenSeq([i \in DOMAIN s |-> h[s[i]]])
  <2>1. /\ FlattenSeq(s) \in Seq(X)
        /\ IsSeqs([i \in DOMAIN s |-> h[s[i]]])
        /\ h[FlattenSeq(s)] = FlattenSeq([i \in DOMAIN s |-> h[s[i]]])
    BY <1>3, <1>5, EachJoined, ZenonT(60)
  <2> QED
    BY <1>6, <2>1
<1>8. [i \in DOMAIN s |-> h[s[i]]] = [i \in DOMAIN s |-> ReadText(who, s[i])]
  <2>1. \A i \in DOMAIN s : h[s[i]] = ReadText(who, s[i])
    BY <1>2, <1>4
  <2> QED
    BY <2>1
<1>9. h[l] = ReadText(who, l) /\ IsSeq(l)
  BY <1>4, <1>7, SeqIs
<1> QED
  BY <1>6, <1>7, <1>8, <1>9

\* An item of a dialect, of one of some kinds.
Fits(x, in, kinds) ==
  {"kind", "in", "text"} \subseteq DOMAIN x /\ x.in = in /\ x.kind \in kinds /\ IsSeq(x.text)

\* Content that is as it should be is read by its form.
LEMMA ContentIs ==
  ASSUME NEW who, NEW in, NEW c, NEW kinds, IsContent(c, in, kinds)
  PROVE  /\ IsSeq(ReadContent(who, in, c))
         /\ c.form \in {"string", "array", "null"}
         /\ c.form = "string" => IsSeq(c.text) /\ ReadContent(who, in, c) = ReadText(who, c.text)
         /\ c.form = "array"  => /\ AreItems(c.items) /\ ReadContent(who, in, c) = ReadItems(who, in, c.items)
                                 /\ \A i \in DOMAIN c.items : Fits(c.items[i], in, kinds)
         /\ c.form = "null"   => ReadContent(who, in, c) = <<>>
<1>1. /\ c.form \in {"string", "array", "null"}
      /\ c.form = "string" => IsSeq(c.text)
      /\ c.form = "array" => /\ AreItems(c.items)
                             /\ \A i \in DOMAIN c.items : Fits(c.items[i], in, kinds)
  <2>1. \A i \in DOMAIN c.items : c.items[i] \in Range(c.items)
    BY DEF Range
  <2> QED
    BY <2>1 DEF IsContent, AreItems, Fits
<1>2. /\ c.form = "string" => ReadContent(who, in, c) = ReadText(who, c.text)
      /\ c.form = "array" => ReadContent(who, in, c) = ReadItems(who, in, c.items)
      /\ c.form = "null" => ReadContent(who, in, c) = <<>>
  BY DEF ReadContent
<1>3. IsSeq(ReadContent(who, in, c))
  <2>1. CASE c.form = "string"
    BY <1>1, <1>2, <2>1, TextIs
  <2>2. CASE c.form = "array"
    BY <1>1, <1>2, <2>2, ItemsRead
  <2>3. CASE c.form = "null"
    BY <1>2, <2>3, NoneIsSeq
  <2> QED
    BY <1>1, <2>1, <2>2, <2>3
<1> QED
  BY <1>1, <1>2, <1>3

\* The texts among some items.
TextIn(x) == IF x.kind = "text" THEN x.text ELSE <<>>

\* The texts among some items, in one, are a text.
LEMMA TextsAre ==
  ASSUME NEW items, AreItems(items)
  PROVE  /\ IsSeqs([i \in DOMAIN items |-> TextIn(items[i])])
         /\ Texts(items) = FlattenSeq([i \in DOMAIN items |-> TextIn(items[i])])
         /\ IsSeq(Texts(items))
<1>1. PICK f : f = [i \in DOMAIN items |-> TextIn(items[i])]
  OBVIOUS
<1>2. IsSeqs(f)
  <2>1. IsSeq(f)
    BY <1>1, EachIs DEF AreItems
  <2>2. \A i \in DOMAIN f : IsSeq(f[i])
    BY <1>1, NoneIsSeq DEF AreItems, TextIn
  <2> QED
    BY <2>1, <2>2 DEF IsSeqs
<1>3. Texts(items) = FlattenSeq(f)
  BY <1>1, Zenon DEF Texts, FlatMap, MapSeq, TextIn
<1> QED
  BY <1>1, <1>2, <1>3, FlattenIsSeq

LEMMA TextOfIs ==
  ASSUME NEW in, NEW c, NEW kinds, IsContent(c, in, kinds)
  PROVE  IsSeq(TextOf(c))
<1>1. PICK who : who = "user"
  OBVIOUS
<1>2. /\ c.form \in {"string", "array", "null"}
      /\ c.form = "string" => IsSeq(c.text)
      /\ c.form = "array"  => AreItems(c.items)
  BY ContentIs
<1>3. /\ c.form = "string" => TextOf(c) = c.text
      /\ c.form = "array" => TextOf(c) = Texts(c.items)
      /\ c.form = "null" => TextOf(c) = <<>>
  BY DEF TextOf
<1> QED
  BY <1>2, <1>3, TextsAre, NoneIsSeq

\* Content of texts alone is read as its text is.
LEMMA TextOfRead ==
  ASSUME NEW who, NEW in, NEW c, IsContent(c, in, {"text"})
  PROVE  ReadContent(who, in, c) = ReadText(who, TextOf(c))
<1>1. CASE c.form = "string"
  BY <1>1, ContentIs DEF TextOf
<1>2. CASE c.form = "null"
  <2>1. TextOf(c) = <<>>
    BY <1>2 DEF TextOf
  <2>2. ReadContent(who, in, c) = <<>>
    BY <1>2, ContentIs
  <2> QED
    BY <2>1, <2>2, TextNone
<1>3. CASE c.form = "array"
  <2>1. PICK items : items = c.items
    OBVIOUS
  <2>2. /\ AreItems(items) /\ ReadContent(who, in, c) = ReadItems(who, in, items)
        /\ \A i \in DOMAIN items : items[i].in = in /\ items[i].kind = "text"
    <3>1. PICK kinds : kinds = {"text"}
      OBVIOUS
    <3>2. IsContent(c, in, kinds)
      BY <3>1
    <3>3. /\ AreItems(c.items) /\ ReadContent(who, in, c) = ReadItems(who, in, c.items)
          /\ \A i \in DOMAIN c.items : c.items[i].in = in /\ c.items[i].kind \in kinds
      BY <1>3, <3>2, ContentIs DEF Fits
    <3> QED
      BY <2>1, <3>1, <3>3
  <2>3. TextOf(c) = Texts(items)
    BY <1>3, <2>1 DEF TextOf
  <2>4. PICK f : f = [i \in DOMAIN items |-> TextIn(items[i])]
    OBVIOUS
  <2>5. IsSeqs(f) /\ Texts(items) = FlattenSeq(f)
    BY <2>2, <2>4, TextsAre
  <2>6. ReadText(who, FlattenSeq(f)) = FlattenSeq([i \in DOMAIN f |-> ReadText(who, f[i])])
    BY <2>5, TextFlatten
  <2>7. ReadItems(who, in, items) = FlattenSeq([i \in DOMAIN items |-> ReadItem(who, in, items[i])])
    BY <2>2, ItemsRead
  <2>8. [i \in DOMAIN f |-> ReadText(who, f[i])] = [i \in DOMAIN items |-> ReadItem(who, in, items[i])]
    <3>1. \A i \in DOMAIN items : ReadItem(who, in, items[i]) = ReadText(who, f[i])
      <4> SUFFICES ASSUME NEW i \in DOMAIN items PROVE ReadItem(who, in, items[i]) = ReadText(who, f[i])
        OBVIOUS
      <4>1. f[i] = items[i].text
        BY <2>2, <2>4 DEF TextIn
      <4>2. ReadItem(who, in, items[i]) = ReadText(who, items[i].text)
        BY <2>2 DEF ReadItem
      <4> QED
        BY <4>1, <4>2
    <3>2. DOMAIN f = DOMAIN items
      BY <2>4
    <3> QED
      BY <3>1, <3>2
  <2> QED
    BY <2>2, <2>3, <2>5, <2>6, <2>7, <2>8
<1> QED
  BY <1>1, <1>2, <1>3, ContentIs

\* A text as an item, and an item that is moved to another dialect.
LEMMA ItemTextIs ==
  ASSUME NEW who, NEW in, NEW t, IsSeq(t)
  PROVE  /\ AreItems(<<Item("text", in, t)>>)
         /\ ReadItems(who, in, <<Item("text", in, t)>>) = ReadText(who, t)
<1>1. PICK x : x = Item("text", in, t)
  OBVIOUS
<1>2. x.kind = "text" /\ x.in = in /\ x.text = t
  BY <1>1 DEF Item
<1>3. ReadItem(who, in, x) = ReadText(who, t)
  BY <1>2 DEF ReadItem
<1>4. PICK s : s = <<x>>
  OBVIOUS
<1>5. IsSeq(s) /\ DOMAIN s = {1} /\ s[1] = x
  <2>1. IsSeq(s) /\ Len(s) = 1 /\ s[1] = x
    BY <1>4, OneIsSeq
  <2> QED
    BY <2>1, SeqHas
<1>6. AreItems(s)
  BY <1>2, <1>5 DEF AreItems
<1>7. ReadItems(who, in, s) = ReadItem(who, in, x)
  BY <1>4, ItemsOne
<1> QED
  BY <1>1, <1>3, <1>4, <1>6, <1>7

\* An item that is moved to another dialect says there what it has said.
LEMMA MovedIs ==
  ASSUME NEW who, NEW in, NEW x, {"kind", "in", "text"} \subseteq DOMAIN x, x.kind \in {"text", "image"},
         NEW y, y = [x EXCEPT !.in = in]
  PROVE  y.text = x.text /\ y.kind = x.kind /\ y.in = in /\ ReadItem(who, in, y) = ReadItem(who, x.in, x)
<1>1. y.text = x.text /\ y.kind = x.kind /\ y.in = in
  OBVIOUS
<1> QED
  BY <1>1 DEF ReadItem

\* Items that say the same one by one say the same together.
LEMMA EachReads ==
  ASSUME NEW who, NEW in, NEW to, NEW items, NEW moved, AreItems(items),
         DOMAIN moved = DOMAIN items, moved = [i \in DOMAIN moved |-> moved[i]],
         \A i \in DOMAIN items : /\ IsSeq(moved[i].text)
                                 /\ ReadItem(who, to, moved[i]) = ReadItem(who, in, items[i])
  PROVE  AreItems(moved) /\ ReadItems(who, to, moved) = ReadItems(who, in, items)
<1>1. AreItems(moved)
  BY EachIs DEF AreItems
<1>2. ReadItems(who, to, moved) = FlattenSeq([i \in DOMAIN moved |-> ReadItem(who, to, moved[i])])
  BY <1>1, ItemsRead
<1>3. ReadItems(who, in, items) = FlattenSeq([i \in DOMAIN items |-> ReadItem(who, in, items[i])])
  BY ItemsRead
<1>4. [i \in DOMAIN moved |-> ReadItem(who, to, moved[i])] = [i \in DOMAIN items |-> ReadItem(who, in, items[i])]
  OBVIOUS
<1> QED
  BY <1>1, <1>2, <1>3, <1>4

\* The blocks for Claude say what the content has said.
LEMMA ClaudeBlocksRead ==
  ASSUME NEW who, NEW c, NEW kinds, kinds \subseteq {"text", "image"}, IsContent(c, "openai", kinds)
  PROVE  /\ AreItems(ClaudeBlocks(c))
         /\ ReadItems(who, "claude", ClaudeBlocks(c)) = ReadContent(who, "openai", c)
<1>1. CASE c.form = "string"
  <2>1. ClaudeBlocks(c) = <<Item("text", "claude", c.text)>>
    BY <1>1 DEF ClaudeBlocks
  <2>2. IsSeq(c.text) /\ ReadContent(who, "openai", c) = ReadText(who, c.text)
    BY <1>1, ContentIs
  <2> QED
    BY <2>1, <2>2, ItemTextIs
<1>2. CASE c.form = "null"
  <2>1. ClaudeBlocks(c) = <<>> /\ ReadContent(who, "openai", c) = <<>>
    BY <1>2, ContentIs DEF ClaudeBlocks
  <2>2. AreItems(<<>>)
    BY NoneIsSeq DEF AreItems
  <2> QED
    BY <2>1, <2>2, ItemsNone
<1>3. CASE c.form = "array"
  <2>1. PICK items, in : items = c.items /\ in = "openai"
    OBVIOUS
  <2>2. /\ AreItems(items) /\ ReadContent(who, in, c) = ReadItems(who, in, items)
        /\ \A i \in DOMAIN items : Fits(items[i], in, kinds)
    BY <1>3, <2>1, ContentIs
  <2>3. PICK moved : moved = [i \in DOMAIN items |-> [items[i] EXCEPT !.in = "claude"]]
    OBVIOUS
  <2>4. ClaudeBlocks(c) = moved
    <3>1. ClaudeBlocks(c) = [i \in DOMAIN items |-> IF items[i].kind \in {"text", "image"}
                                                    THEN [items[i] EXCEPT !.in = "claude"] ELSE items[i]]
      BY <1>3, <2>1, Zenon DEF ClaudeBlocks, MapSeq
    <3>2. \A i \in DOMAIN items : items[i].kind \in {"text", "image"}
      BY <2>2 DEF Fits
    <3> QED
      BY <2>3, <3>1, <3>2
  <2>5. ASSUME NEW i \in DOMAIN items
        PROVE  IsSeq(moved[i].text) /\ ReadItem(who, "claude", moved[i]) = ReadItem(who, in, items[i])
    <3>1. PICK x, y : x = items[i] /\ y = [x EXCEPT !.in = "claude"]
      OBVIOUS
    <3>2. {"kind", "in", "text"} \subseteq DOMAIN x /\ x.kind \in {"text", "image"} /\ x.in = in /\ IsSeq(x.text)
      BY <2>2, <3>1 DEF Fits
    <3>3. y.text = x.text /\ ReadItem(who, "claude", y) = ReadItem(who, x.in, x)
      BY <3>1, <3>2, MovedIs
    <3>4. moved[i] = y
      BY <2>3, <3>1
    <3> QED
      BY <3>1, <3>2, <3>3, <3>4
  <2>6. DOMAIN moved = DOMAIN items /\ moved = [i \in DOMAIN moved |-> moved[i]]
    BY <2>3
  <2>7. AreItems(moved) /\ ReadItems(who, "claude", moved) = ReadItems(who, in, items)
    BY <2>2, <2>5, <2>6, EachReads
  <2> QED
    BY <2>1, <2>2, <2>4, <2>7
<1> QED
  BY <1>1, <1>2, <1>3, ContentIs

\* So do Gemini's parts.
LEMMA GeminiTextRead ==
  ASSUME NEW who, NEW t, IsSeq(t)
  PROVE  AreItems(GeminiText(t)) /\ ReadItems(who, "gemini", GeminiText(t)) = ReadText(who, t)
<1>1. CASE t = <<>>
  <2>1. GeminiText(t) = <<>>
    BY <1>1 DEF GeminiText
  <2>2. AreItems(<<>>)
    BY NoneIsSeq DEF AreItems
  <2> QED
    BY <1>1, <2>1, <2>2, ItemsNone, TextNone
<1>2. CASE t # <<>>
  <2>1. GeminiText(t) = <<Item("text", "gemini", t)>>
    BY <1>2 DEF GeminiText
  <2> QED
    BY <2>1, ItemTextIs
<1> QED
  BY <1>1, <1>2

LEMMA GeminiPartsRead ==
  ASSUME NEW who, NEW c, IsContent(c, "openai", {"text", "image"})
  PROVE  /\ AreItems(GeminiParts(c))
         /\ ReadItems(who, "gemini", GeminiParts(c)) = ReadContent(who, "openai", c)
<1>1. PICK kinds, in : kinds = {"text", "image"} /\ in = "openai"
  OBVIOUS
<1>2. CASE c.form = "string"
  <2>1. GeminiParts(c) = <<Item("text", "gemini", c.text)>>
    BY <1>2 DEF GeminiParts, TextOf
  <2>2. IsSeq(c.text) /\ ReadContent(who, "openai", c) = ReadText(who, c.text)
    BY <1>2, ContentIs
  <2> QED
    BY <2>1, <2>2, ItemTextIs
<1>3. CASE c.form = "null"
  <2>1. PICK e : e = <<>>
    OBVIOUS
  <2>2. GeminiParts(c) = <<Item("text", "gemini", e)>>
    BY <1>3, <2>1 DEF GeminiParts, TextOf
  <2>3. IsSeq(e) /\ ReadText(who, e) = e
    BY <2>1, NoneIsSeq, TextNone
  <2>4. ReadContent(who, "openai", c) = e
    BY <1>3, <2>1, ContentIs
  <2> QED
    BY <2>2, <2>3, <2>4, ItemTextIs
<1>4. CASE c.form = "array"
  <2>1. PICK items : items = c.items
    OBVIOUS
  <2>2. /\ AreItems(items) /\ ReadContent(who, in, c) = ReadItems(who, in, items)
        /\ \A i \in DOMAIN items : Fits(items[i], in, kinds)
    <3>1. IsContent(c, in, kinds)
      BY <1>1
    <3> QED
      BY <1>1, <1>4, <2>1, <3>1, ContentIs
  <2>3. PICK s : s = [i \in DOMAIN items |-> <<[items[i] EXCEPT !.in = "gemini"]>>]
    OBVIOUS
  <2>4. GeminiParts(c) = FlattenSeq(s)
    <3>1. GeminiParts(c) = FlattenSeq([i \in DOMAIN items |->
            IF items[i].kind \in {"text", "image"} THEN <<[items[i] EXCEPT !.in = "gemini"]>> ELSE <<>>])
      BY <1>4, <2>1, Zenon DEF GeminiParts, FlatMap, MapSeq, When
    <3>2. [i \in DOMAIN items |->
             IF items[i].kind \in {"text", "image"} THEN <<[items[i] EXCEPT !.in = "gemini"]>> ELSE <<>>] = s
      <4>1. \A i \in DOMAIN items : items[i].kind \in {"text", "image"}
        BY <1>1, <2>2 DEF Fits
      <4> QED
        BY <2>3, <4>1
    <3> QED
      BY <3>1, <3>2
  <2>5. ASSUME NEW i \in DOMAIN items
        PROVE  AreItems(s[i]) /\ ReadItems(who, "gemini", s[i]) = ReadItem(who, in, items[i])
    <3>1. PICK x, y : x = items[i] /\ y = [x EXCEPT !.in = "gemini"]
      OBVIOUS
    <3>2. {"kind", "in", "text"} \subseteq DOMAIN x /\ x.kind \in {"text", "image"} /\ x.in = in /\ IsSeq(x.text)
      BY <1>1, <2>2, <3>1 DEF Fits
    <3>3. y.text = x.text /\ ReadItem(who, "gemini", y) = ReadItem(who, x.in, x)
      BY <3>1, <3>2, MovedIs
    <3>4. PICK o : o = <<y>>
      OBVIOUS
    <3>5. s[i] = o
      BY <2>3, <3>1, <3>4
    <3>6. IsSeq(o) /\ DOMAIN o = {1} /\ o[1] = y
      <4>1. IsSeq(o) /\ Len(o) = 1 /\ o[1] = y
        BY <3>4, OneIsSeq
      <4> QED
        BY <4>1, SeqHas
    <3>7. AreItems(o)
      BY <3>2, <3>3, <3>6 DEF AreItems
    <3>8. ReadItems(who, "gemini", o) = ReadItem(who, "gemini", y)
      BY <3>4, ItemsOne
    <3> QED
      BY <3>1, <3>2, <3>3, <3>5, <3>7, <3>8
  <2>6. IsSeq(s) /\ DOMAIN s = DOMAIN items
    BY <2>2, <2>3, EachIs DEF AreItems
  <2>7. /\ AreItems(FlattenSeq(s))
        /\ ReadItems(who, "gemini", FlattenSeq(s)) = FlattenSeq([i \in DOMAIN s |-> ReadItems(who, "gemini", s[i])])
    BY <2>5, <2>6, ItemsFlatten
  <2>8. ReadItems(who, in, items) = FlattenSeq([i \in DOMAIN items |-> ReadItem(who, in, items[i])])
    BY <2>2, ItemsRead
  <2>9. [i \in DOMAIN s |-> ReadItems(who, "gemini", s[i])] = [i \in DOMAIN items |-> ReadItem(who, in, items[i])]
    BY <2>5, <2>6
  <2> QED
    BY <1>1, <2>2, <2>4, <2>7, <2>8, <2>9
<1> QED
  BY <1>1, <1>2, <1>3, <1>4, ContentIs

\* A sequence is what its elements come to, each taken alone.
LEMMA FlattenAlone ==
  ASSUME NEW f, IsSeq(f)
  PROVE  IsSeqs([i \in DOMAIN f |-> <<f[i]>>]) /\ FlattenSeq([i \in DOMAIN f |-> <<f[i]>>]) = f
<1>1. PICK s : s = [i \in DOMAIN f |-> <<f[i]>>]
  OBVIOUS
<1>2. PICK N : N = Len(f)
  OBVIOUS
<1>3. N \in Nat /\ DOMAIN f = 1 .. N /\ DOMAIN s = 1 .. N /\ \A i \in 1 .. N : s[i] = <<f[i]>>
  BY <1>1, <1>2, SeqHas
<1>4. IsSeq(s) /\ Len(s) = N
  BY <1>1, <1>2, EachIs
<1>5. IsSeqs(s)
  BY <1>3, <1>4, OneIsSeq DEF IsSeqs
<1>6. PICK w : Sums(s, w)
  BY <1>5, SumsExist
<1>7. /\ w[0] = <<>> /\ FlattenSeq(s) = w[N] /\ \A i \in 0 .. N : IsSeq(w[i])
      /\ \A i \in 1 .. N : w[i] = w[i - 1] \o <<f[i]>>
  BY <1>3, <1>4, <1>6 DEF Sums
<1> DEFINE T == {i \in 0 .. N : Len(w[i]) = i /\ \A j \in 1 .. i : w[i][j] = f[j]}
<1>8. ASSUME NEW i \in 1 .. N, i - 1 \in T PROVE i \in T
  <2>1. PICK a, b, k : a = w[i - 1] /\ b = <<f[i]>> /\ k = i - 1
    OBVIOUS
  <2>2. IsSeq(a) /\ Len(a) = k /\ (\A j \in 1 .. k : a[j] = f[j]) /\ k \in Nat /\ i = k + 1
    <3>1. i - 1 \in 0 .. N
      BY <1>3
    <3> QED
      BY <1>7, <1>8, <2>1, <3>1
  <2>3. IsSeq(b) /\ Len(b) = 1 /\ b[1] = f[i]
    BY <2>1, OneIsSeq
  <2>4. Len(a \o b) = k + 1 /\ (\A j \in 1 .. k : (a \o b)[j] = a[j]) /\ (a \o b)[k + 1] = b[1]
    <3>1. PICK c, n, m : c = a \o b /\ n = Len(a) /\ m = Len(b)
      OBVIOUS
    <3>2. /\ Len(c) = n + m /\ (\A j \in 1 .. n : c[j] = a[j])
          /\ \A j \in 1 .. m : c[n + j] = b[j]
      <4>1. IsSeq(a) /\ IsSeq(b)
        BY <2>2, <2>3
      <4>2. /\ Len(a \o b) = Len(a) + Len(b)
            /\ \A j \in 1 .. Len(a) : (a \o b)[j] = a[j]
            /\ \A j \in 1 .. Len(b) : (a \o b)[Len(a) + j] = b[j]
        BY <4>1, JoinIsSeq
      <4> QED
        BY <3>1, <4>2
    <3>3. m = 1 /\ n = k /\ 1 \in 1 .. 1
      BY <2>2, <2>3, <3>1
    <3> QED
      BY <3>1, <3>2, <3>3
  <2>5. w[i] = a \o b
    BY <1>7, <2>1
  <2>6. \A j \in 1 .. i : w[i][j] = f[j]
    <3> SUFFICES ASSUME NEW j \in 1 .. i PROVE w[i][j] = f[j]
      OBVIOUS
    <3>1. j \in 1 .. k \/ j = k + 1
      BY <2>2
    <3> QED
      BY <2>2, <2>3, <2>4, <2>5, <3>1
  <2>7. Len(w[i]) = i /\ i \in 0 .. N
    BY <1>3, <2>2, <2>4, <2>5
  <2> QED
    BY <2>6, <2>7
<1>9. 0 \in T
  <2>1. Len(w[0]) = 0
    BY <1>7, NoneIsSeq
  <2> QED
    BY <1>3, <2>1
<1>10. N \in T
  <2> HIDE DEF T
  <2>1. 0 .. N \subseteq T
    BY <1>3, <1>8, <1>9, UpTo
  <2> QED
    BY <1>3, <2>1
<1>11. w[N] = f
  <2>1. IsSeq(w[N])
    BY <1>3, <1>7
  <2>2. Len(w[N]) = N /\ \A j \in 1 .. N : w[N][j] = f[j]
    BY <1>10
  <2> QED
    BY <1>2, <2>1, <2>2, SameSeq
<1> QED
  BY <1>1, <1>5, <1>7, <1>11

\* The calls of a message, and the items that stand for them.
Calling(named, calls) == [i \in DOMAIN calls |-> <<"assistant", "call", Called(named, calls[i])>>]

\* Calls, and the items that are made of them.
LEMMA CallingIs ==
  ASSUME NEW named, NEW calls, IsSeq(calls)
  PROVE  IsSeq(Calling(named, calls)) /\ (calls = <<>> => Calling(named, calls) = <<>>)
<1>1. PICK f : f = Calling(named, calls)
  OBVIOUS
<1>2. f = [i \in DOMAIN calls |-> <<"assistant", "call", Called(named, calls[i])>>]
  BY <1>1 DEF Calling
<1>3. IsSeq(f) /\ Len(f) = Len(calls)
  BY <1>2, EachIs
<1>4. calls = <<>> => f = <<>>
  <2> SUFFICES ASSUME calls = <<>> PROVE f = <<>>
    OBVIOUS
  <2>1. PICK e : e = <<>>
    OBVIOUS
  <2>2. IsSeq(e) /\ Len(e) = 0 /\ Len(f) = 0
    BY <1>3, <2>1, NoneIsSeq
  <2> QED
    BY <1>3, <2>1, <2>2, SameSeq
<1> QED
  BY <1>1, <1>3, <1>4

LEMMA CallsRead ==
  ASSUME NEW in, NEW named, in = "gemini" => named = TRUE, in # "gemini" => named = FALSE, NEW calls, IsSeq(calls), NEW items,
         items = [i \in DOMAIN calls |-> CallItem("call", in, <<>>, IF named THEN "" ELSE calls[i].id,
                                                  calls[i].name)]
  PROVE  /\ AreItems(items) /\ Len(items) = Len(calls)
         /\ ReadItems("assistant", in, items) = Calling(named, calls)
<1>1. PICK who, e : who = "assistant" /\ e = <<>>
  OBVIOUS
<1>2. DOMAIN items = DOMAIN calls /\ items = [i \in DOMAIN items |-> items[i]]
  OBVIOUS
<1>3. IsSeq(items) /\ Len(items) = Len(calls)
  BY <1>2, EachIs
<1>4. ASSUME NEW i \in DOMAIN calls
      PROVE  /\ items[i].text = e
             /\ ReadItem(who, in, items[i]) = <<<<"assistant", "call", Called(named, calls[i])>>>>
  <2>1. PICK x, o, n : x = items[i] /\ o = (IF named THEN "" ELSE calls[i].id) /\ n = calls[i].name
    OBVIOUS
  <2>2. x = CallItem("call", in, e, o, n)
    BY <1>1, <2>1
  <2>3. x.kind = "call" /\ x.in = in /\ x.text = e /\ x.of = o /\ x.name = n
    <3>1. PICK g, h : g = [kind |-> "call", in |-> in, text |-> e] /\ h = [of |-> o, name |-> n]
      OBVIOUS
    <3>2. x = g ++ h
      BY <2>2, <3>1 DEF CallItem, Item
    <3>3. x = [k \in DOMAIN g \cup DOMAIN h |-> IF k \in DOMAIN g THEN g[k] ELSE h[k]]
      BY <3>2 DEF ++
    <3> QED
      BY <3>1, <3>3
  <2>4. ReadItem(who, in, x) = <<<<"assistant", "call", IF in = "gemini" THEN n ELSE o>>>>
    BY <2>3 DEF ReadItem
  <2>5. (IF in = "gemini" THEN n ELSE o) = Called(named, calls[i])
    BY <2>1 DEF Called
  <2> QED
    BY <2>1, <2>3, <2>4, <2>5
<1>5. AreItems(items)
  <2>1. IsSeq(e)
    BY <1>1, NoneIsSeq
  <2> QED
    BY <1>2, <1>3, <1>4, <2>1 DEF AreItems
<1>6. PICK f : f = Calling(named, calls)
  OBVIOUS
<1>7. IsSeq(f) /\ f = [i \in DOMAIN calls |-> <<"assistant", "call", Called(named, calls[i])>>]
  <2>1. IsSeq(Calling(named, calls))
    BY CallingIs
  <2> QED
    BY <1>6, <2>1 DEF Calling
<1>8. FlattenSeq([i \in DOMAIN f |-> <<f[i]>>]) = f
  BY <1>7, FlattenAlone
<1>9. ReadItems(who, in, items) = FlattenSeq([i \in DOMAIN items |-> ReadItem(who, in, items[i])])
  <2>1. PICK its : its = items
    OBVIOUS
  <2>2. AreItems(its)
    BY <1>5, <2>1
  <2>3. ReadItems(who, in, its) = FlattenSeq([i \in DOMAIN its |-> ReadItem(who, in, its[i])])
    BY <2>2, ItemsRead
  <2> QED
    BY <2>1, <2>3, Zenon
<1>10. [i \in DOMAIN items |-> ReadItem(who, in, items[i])] = [i \in DOMAIN f |-> <<f[i]>>]
  <2>1. \A i \in DOMAIN items : ReadItem(who, in, items[i]) = <<f[i]>>
    BY <1>2, <1>4, <1>7
  <2> QED
    BY <1>2, <1>7, <2>1
<1> QED
  BY <1>1, <1>3, <1>5, <1>6, <1>8, <1>9, <1>10

\* What was called is told by its id or by its name.
CalledOf(named, m) == IF named THEN Get(m, "name", "unknown") ELSE m.of

\* What a message of a chat says.
LEMMA ChatTurnIs ==
  ASSUME NEW d, NEW named, NEW m, IsChatMessage(d, m)
  PROVE  LET said == ReadContent(m.role, "openai", m.content) IN
         /\ IsSeq(ReadChatTurn(named, m)) /\ IsSeq(said)
         /\ m.role \in {"system", "user"} => ReadChatTurn(named, m) = said
         /\ m.role = "assistant" => ReadChatTurn(named, m) = said \o Calling(named, CallsOf(m))
         /\ m.role = "tool" => ReadChatTurn(named, m) =
              <<<<"tool", "result", CalledOf(named, m)>>>> \o said
<1>1. PICK said, calls, n : /\ said = ReadContent(m.role, "openai", m.content)
                            /\ calls = Calling(named, CallsOf(m))
                            /\ n = CalledOf(named, m)
  OBVIOUS
<1>2. PICK first, e : first = (IF m.role = "tool" THEN <<<<"tool", "result", n>>>> ELSE <<>>) /\ e = <<>>
  OBVIOUS
<1>3. ReadChatTurn(named, m) = (first \o said) \o calls
  <2>1. Calling(named, CallsOf(m)) = MapSeq(CallsOf(m), LAMBDA c : <<"assistant", "call", Called(named, c)>>)
    BY Zenon DEF Calling, MapSeq
  <2> QED
    BY <1>1, <1>2, <2>1, Zenon DEF ReadChatTurn, CalledOf
<1>4. PICK kinds, in : in = "openai" /\ kinds = IF <<d, m.role>> \in TextsOnly THEN {"text"} ELSE {"text", "image"}
  OBVIOUS
<1>5. /\ m.role \in {"system", "user", "assistant", "tool"} /\ IsContent(m.content, in, kinds)
      /\ IsSeq(CallsOf(m)) /\ (m.role # "assistant" => CallsOf(m) = <<>>)
  BY <1>4 DEF IsChatMessage
<1>6. IsSeq(said)
  BY <1>1, <1>4, <1>5, ContentIs
<1>7. IsSeq(calls) /\ (m.role # "assistant" => calls = e)
  BY <1>1, <1>2, <1>5, CallingIs
<1>8. IsSeq(first) /\ (m.role # "tool" => first = e) /\ (m.role = "tool" => first = <<<<"tool", "result", n>>>>)
  BY <1>2, OneIsSeq, NoneIsSeq
<1>9. IsSeq(first \o said) /\ IsSeq((first \o said) \o calls)
  <2>1. IsSeq(first \o said)
    BY <1>6, <1>8, JoinIsSeq
  <2> QED
    BY <1>7, <2>1, JoinIsSeq
<1>10. m.role # "tool" => first \o said = said
  BY <1>2, <1>6, <1>8, JoinNone
<1>11. m.role # "assistant" => (first \o said) \o calls = first \o said
  BY <1>2, <1>7, <1>9, JoinNone
<1> QED
  BY <1>1, <1>3, <1>5, <1>6, <1>8, <1>9, <1>10, <1>11

\* A message of the system's says its content only.
LEMMA SystemTurnIs ==
  ASSUME NEW d, NEW named, NEW m, IsChatMessage(d, m), IsSystem(m)
  PROVE  ReadChatTurn(named, m) = ReadContent("system", "openai", m.content)
<1>1. m.role = "system"
  BY DEF IsSystem
<1>2. PICK said : said = ReadContent(m.role, "openai", m.content)
  OBVIOUS
<1>3. m.role \in {"system", "user"} => ReadChatTurn(named, m) = said
  BY <1>2, ChatTurnIs, Zenon
<1> QED
  BY <1>1, <1>2, <1>3

\* The messages of a chat, in the parts in which they are read.
AreChat(d, messages) == IsSeq(messages) /\ \A i \in DOMAIN messages : IsChatMessage(d, messages[i])

OfSystems(named, messages) ==
  [i \in DOMAIN messages |-> IF IsSystem(messages[i]) THEN ReadChatTurn(named, messages[i]) ELSE <<>>]
OfOthers(named, messages) ==
  [i \in DOMAIN messages |-> IF IsSystem(messages[i]) THEN <<>> ELSE ReadChatTurn(named, messages[i])]

\* A chat is read in two parts: the system's messages, and the others.
LEMMA ChatIsTwo ==
  ASSUME NEW d, NEW named, NEW messages, AreChat(d, messages)
  PROVE  LET s == OfSystems(named, messages)
             o == OfOthers(named, messages)
         IN  /\ IsSeqs(s) /\ IsSeqs(o)
             /\ ReadChat(messages, named) = FlattenSeq(s) \o FlattenSeq(o)
             /\ IsSeq(ReadChat(messages, named))
<1>1. PICK s, o : s = OfSystems(named, messages) /\ o = OfOthers(named, messages)
  OBVIOUS
<1>2. ReadChat(messages, named) = FlattenSeq(s) \o FlattenSeq(o)
  <2>1. FlattenSeq(s) = FlatMap(messages, LAMBDA m : When(IsSystem(m), ReadChatTurn(named, m)))
    BY <1>1, Zenon DEF OfSystems, FlatMap, MapSeq, When
  <2>2. o = [i \in DOMAIN messages |-> IF ~IsSystem(messages[i]) THEN ReadChatTurn(named, messages[i]) ELSE <<>>]
    BY <1>1, Zenon DEF OfOthers
  <2>3. FlattenSeq(o) = FlatMap(messages, LAMBDA m : When(~IsSystem(m), ReadChatTurn(named, m)))
    BY <2>2, Zenon DEF FlatMap, MapSeq, When
  <2> QED
    BY <2>1, <2>3, Zenon DEF ReadChat
<1>3. \A i \in DOMAIN messages : IsSeq(ReadChatTurn(named, messages[i]))
  BY ChatTurnIs DEF AreChat
<1>4. IsSeqs(s)
  <2>1. IsSeq(s)
    BY <1>1, EachIs DEF AreChat, OfSystems
  <2>2. \A i \in DOMAIN s : IsSeq(s[i])
    BY <1>1, <1>3, NoneIsSeq DEF OfSystems
  <2> QED
    BY <2>1, <2>2 DEF IsSeqs
<1>5. IsSeqs(o)
  <2>1. IsSeq(o)
    BY <1>1, EachIs DEF AreChat, OfOthers
  <2>2. \A i \in DOMAIN o : IsSeq(o[i])
    BY <1>1, <1>3, NoneIsSeq DEF OfOthers
  <2> QED
    BY <2>1, <2>2 DEF IsSeqs
<1>6. IsSeq(FlattenSeq(s) \o FlattenSeq(o))
  <2>1. IsSeq(FlattenSeq(s)) /\ IsSeq(FlattenSeq(o))
    BY <1>4, <1>5, FlattenIsSeq
  <2> QED
    BY <2>1, JoinIsSeq
<1> QED
  BY <1>1, <1>2, <1>4, <1>5, <1>6

-------------------------------------------------------------------------------
(***************************************************************************)
(* What is made for Claude                                                 *)
(***************************************************************************)
\* Claude's body of a chat.
LEMMA ClaudeBodyIs ==
  ASSUME NEW b, NEW messages, messages = Get(b, "messages", <<>>), messages # <<>>, NEW turns, NEW system,
         turns = FlattenSeq([i \in DOMAIN messages |-> ClaudeTurn(messages[i])]),
         system = FlattenSeq([i \in DOMAIN messages |->
                    IF IsSystem(messages[i]) THEN ClaudeBlocks(messages[i].content) ELSE <<>>])
  PROVE  /\ Get(ToClaude(b), "messages", <<>>) = turns
         /\ Get(ToClaude(b), "system", Null) = IF system # <<>> THEN Arr(system) ELSE Null
<1> DEFINE f == [messages |-> turns, stream |-> Get(b, "stream", FALSE)]
           s == When(system # <<>>, [system |-> Arr(system)])
           t == When(OpenTools(b) /\ Choice(b) # "none", [tools |-> "claude"])
           u == When(Has(b, "tool_choice") /\ Choice(b) # "none", [tool_choice |-> Choice(b)])
           body == ToClaude(b)
<1>1. body = ((f ++ s) ++ t) ++ u
  <2>1. turns = FlatMap(messages, ClaudeTurn) /\ system = OfSystem(messages, ClaudeBlocks)
    BY Zenon DEF FlatMap, MapSeq, OfSystem, When
  <2> QED
    BY <2>1, Zenon DEF ToClaude
<1>2. PICK e : e = <<>>
  OBVIOUS
<1>3. DOMAIN e = {}
  BY <1>2
<1>4. /\ Has(f, "messages") /\ f.messages = turns /\ ~Has(f, "system")
      /\ Has(s, "system") <=> system # <<>>
      /\ system # <<>> => s.system = Arr(system)
      /\ ~Has(t, "system") /\ ~Has(u, "system")
  BY <1>2, <1>3 DEF When, Has
<1> HIDE DEF f, s, t, u, body
<1>5. PICK g : g = f ++ s
  OBVIOUS
<1>6. PICK h : h = g ++ t
  OBVIOUS
<1>7. body = h ++ u
  BY <1>1, <1>5, <1>6
<1>8. Has(g, "messages") /\ g.messages = turns /\ (Has(g, "system") <=> system # <<>>)
      /\ (system # <<>> => g.system = Arr(system))
  BY <1>4, <1>5, OverIs
<1>9. Has(h, "messages") /\ h.messages = turns /\ (Has(h, "system") <=> system # <<>>)
      /\ (system # <<>> => h.system = Arr(system))
  BY <1>4, <1>6, <1>8, OverIs
<1>10. Has(body, "messages") /\ body.messages = turns /\ (Has(body, "system") <=> system # <<>>)
      /\ (system # <<>> => body.system = Arr(system))
  BY <1>4, <1>7, <1>9, OverIs
<1> QED
  BY <1>10 DEF Get, body

\* What is made of one message for Claude says what the message says.
LEMMA ClaudeTurnRead ==
  ASSUME NEW m, IsChatMessage("claude", m)
  PROVE  /\ IsSystem(m) => ClaudeTurn(m) = <<>>
         /\ ~IsSystem(m) => \E role, blocks :
              /\ ClaudeTurn(m) = Turn(role, blocks) /\ AreItems(blocks)
              /\ ReadItems(role, "claude", blocks) = ReadChatTurn(FALSE, m)
<1>1. IsSystem(m) => ClaudeTurn(m) = <<>>
  BY DEF IsSystem, ClaudeTurn
<1>2. m.role \in {"system", "user", "assistant", "tool"}
  BY DEF IsChatMessage
<1>3. PICK d, in, kinds, named : /\ d = "claude" /\ in = "openai" /\ named = FALSE
                          /\ kinds = IF <<d, m.role>> \in TextsOnly THEN {"text"} ELSE {"text", "image"}
  OBVIOUS
<1>4. IsContent(m.content, in, kinds) /\ kinds \subseteq {"text", "image"} /\ IsChatMessage(d, m)
  BY <1>3 DEF IsChatMessage
<1>5. PICK said : said = ReadContent(m.role, in, m.content)
  OBVIOUS
<1>6. /\ IsSeq(said)
      /\ m.role = "user" => ReadChatTurn(named, m) = said
      /\ m.role = "assistant" => ReadChatTurn(named, m) = said \o Calling(named, CallsOf(m))
      /\ m.role = "tool" => ReadChatTurn(named, m) = <<<<"tool", "result", m.of>>>> \o said
  <2>1. m.role = "tool" => ReadChatTurn(named, m) = <<<<"tool", "result", CalledOf(named, m)>>>> \o said
    BY <1>3, <1>4, <1>5, ChatTurnIs
  <2>2. CalledOf(named, m) = m.of
    BY <1>3 DEF CalledOf
  <2> QED
    BY <1>3, <1>4, <1>5, <2>1, <2>2, ChatTurnIs
<1>7. CASE m.role = "user"
  <2>1. ClaudeTurn(m) = Turn("user", ClaudeBlocks(m.content))
    BY <1>7 DEF ClaudeTurn
  <2>2. PICK who, c : who = m.role /\ c = m.content
    OBVIOUS
  <2>3. AreItems(ClaudeBlocks(c)) /\ ReadItems(who, "claude", ClaudeBlocks(c)) = ReadContent(who, "openai", c)
    BY <1>3, <1>4, <2>2, ClaudeBlocksRead
  <2> QED
    BY <1>1, <1>3, <1>5, <1>6, <1>7, <2>1, <2>2, <2>3
<1>8. CASE m.role = "tool"
  <2>1. PICK t, x : t = TextOf(m.content) /\ x = CallItem("result", "claude", t, m.of, "")
    OBVIOUS
  <2>2. ClaudeTurn(m) = Turn("user", <<x>>)
    BY <1>8, <2>1 DEF ClaudeTurn
  <2>3. x.kind = "result" /\ x.in = "claude" /\ x.text = t /\ x.of = m.of
    <3>1. PICK g, h : g = [kind |-> "result", in |-> "claude", text |-> t] /\ h = [of |-> m.of, name |-> ""]
      OBVIOUS
    <3>2. x = g ++ h
      BY <2>1, <3>1 DEF CallItem, Item
    <3>3. x = [k \in DOMAIN g \cup DOMAIN h |-> IF k \in DOMAIN g THEN g[k] ELSE h[k]]
      BY <3>2 DEF ++
    <3> QED
      BY <3>1, <3>3
  <2>4. kinds = {"text"}
    BY <1>3, <1>8 DEF TextsOnly
  <2>5. said = ReadText("tool", t) /\ IsSeq(t)
    <3>1. IsContent(m.content, in, {"text"})
      BY <1>4, <2>4
    <3> QED
      BY <1>5, <1>8, <2>1, <3>1, TextOfRead, TextOfIs
  <2>6. ReadItem("user", "claude", x) = <<<<"tool", "result", m.of>>>> \o said
    BY <2>3, <2>5 DEF ReadItem
  <2>7. PICK o : o = <<x>>
    OBVIOUS
  <2>8. AreItems(o) /\ ReadItems("user", "claude", o) = ReadItem("user", "claude", x)
    <3>1. IsSeq(o) /\ Len(o) = 1 /\ o[1] = x
      BY <2>7, OneIsSeq
    <3>2. DOMAIN o = {1}
      BY <3>1, SeqHas
    <3> QED
      BY <2>3, <2>5, <2>7, <3>1, <3>2, ItemsOne DEF AreItems
  <2>9. ReadItems("user", "claude", o) = ReadChatTurn(named, m)
    BY <1>6, <1>8, <2>6, <2>8
  <2> QED
    BY <1>1, <1>3, <1>8, <2>2, <2>7, <2>8, <2>9
<1>9. CASE m.role = "assistant"
  <2>1. PICK calls : calls = CallsOf(m)
    OBVIOUS
  <2>2. IsSeq(calls) /\ m.content.form # "array"
    BY <1>9, <2>1 DEF IsChatMessage, StringOnly
  <2>3. PICK told : told = [i \in DOMAIN calls |-> CallItem("call", "claude", <<>>, calls[i].id, calls[i].name)]
    OBVIOUS
  <2>4. AreItems(told) /\ ReadItems("assistant", "claude", told) = Calling(named, calls)
    <3>1. PICK from : from = "claude"
      OBVIOUS
    <3>2. told = [i \in DOMAIN calls |-> CallItem("call", from, <<>>, IF named THEN "" ELSE calls[i].id,
                                                  calls[i].name)]
      BY <1>3, <2>3, <3>1
    <3>3. from # "gemini" /\ named = FALSE
      BY <1>3, <3>1
    <3>4. AreItems(told) /\ ReadItems("assistant", from, told) = Calling(named, calls)
      BY <2>2, <3>2, <3>3, CallsRead
    <3> QED
      BY <3>1, <3>4
  <2>5. PICK text : text = IF m.content.form = "string" /\ m.content.text # <<>>
                           THEN <<Item("text", "claude", m.content.text)>> ELSE <<>>
    OBVIOUS
  <2>6. AreItems(text) /\ ReadItems("assistant", "claude", text) = said
    <3>1. AreItems(<<>>) /\ ReadItems("assistant", "claude", <<>>) = <<>>
      BY NoneIsSeq, ItemsNone DEF AreItems
    <3>2. /\ m.content.form \in {"string", "null"}
          /\ m.content.form = "string" => IsSeq(m.content.text) /\ said = ReadText("assistant", m.content.text)
          /\ m.content.form = "null" => said = <<>>
      BY <1>4, <1>5, <1>9, <2>2, ContentIs
    <3>3. CASE m.content.form = "null"
      BY <2>5, <3>1, <3>2, <3>3
    <3>4. CASE m.content.form = "string" /\ m.content.text = <<>>
      BY <2>5, <3>1, <3>2, <3>4, TextNone
    <3>5. CASE m.content.form = "string" /\ m.content.text # <<>>
      <4>1. text = <<Item("text", "claude", m.content.text)>>
        BY <2>5, <3>5
      <4> QED
        BY <3>2, <3>5, <4>1, ItemTextIs
    <3> QED
      BY <3>2, <3>3, <3>4, <3>5
  <2>7. AssistantBlocks(m) = text \o told
    <3>1. told = MapSeq(CallsOf(m), LAMBDA c : CallItem("call", "claude", <<>>, c.id, c.name))
      BY <2>1, <2>3, Zenon DEF MapSeq
    <3> QED
      BY <2>5, <3>1, Zenon DEF AssistantBlocks
  <2>8. PICK all : all = text \o told
    OBVIOUS
  <2>9. AreItems(all) /\ ReadItems("assistant", "claude", all) = ReadChatTurn(named, m)
    <3>1. PICK who, to : who = "assistant" /\ to = "claude"
      OBVIOUS
    <3>2. AreItems(text) /\ AreItems(told)
      BY <2>4, <2>6
    <3>3. /\ AreItems(text \o told)
          /\ ReadItems(who, to, text \o told) = ReadItems(who, to, text) \o ReadItems(who, to, told)
      BY <3>2, ItemsJoin
    <3> QED
      BY <1>6, <1>9, <2>1, <2>4, <2>6, <2>8, <3>1, <3>3
  <2>10. CASE all # <<>>
    <3>1. ClaudeTurn(m) = Turn("assistant", all)
      BY <1>9, <2>7, <2>8, <2>10 DEF ClaudeTurn
    <3> QED
      BY <1>1, <1>3, <1>9, <2>9, <3>1 DEF IsSystem
  <2>11. CASE all = <<>>
    <3>1. PICK e : e = <<>>
      OBVIOUS
    <3>2. ClaudeTurn(m) = Turn("assistant", <<Item("text", "claude", e)>>)
      BY <1>9, <2>7, <2>8, <2>11, <3>1 DEF ClaudeTurn
    <3>3. AreItems(<<Item("text", "claude", e)>>)
          /\ ReadItems("assistant", "claude", <<Item("text", "claude", e)>>) = e
      BY <3>1, NoneIsSeq, ItemTextIs, TextNone
    <3>4. ReadChatTurn(named, m) = e
      BY <2>9, <2>11, <3>1, ItemsNone
    <3> QED
      BY <1>1, <1>3, <1>9, <3>2, <3>3, <3>4 DEF IsSystem
  <2> QED
    BY <2>10, <2>11
<1> QED
  BY <1>1, <1>2, <1>7, <1>8, <1>9 DEF IsSystem

\* Content in a dialect, or none.
IsWords(c) ==
  /\ c.form \in {"string", "array", "null"}
  /\ c.form = "string" => IsSeq(c.text)
  /\ c.form = "array" => AreItems(c.items)

\* What a body for Claude says after the system.
ClaudeSaid(body) ==
  LET messages == Get(body, "messages", <<>>)
  IN  FlattenSeq([i \in DOMAIN messages |-> ReadContent(messages[i].role, "claude", messages[i].content)])

\* A conversation with Claude is read in two parts, too.
LEMMA ClaudeIsTwo ==
  ASSUME NEW body
  PROVE  ReadClaude(body) = ReadContent("system", "claude", Get(body, "system", Null)) \o ClaudeSaid(body)
BY Zenon DEF ReadClaude, ClaudeSaid, FlatMap, MapSeq

\* One turn is read as its blocks are.
LEMMA TurnIs ==
  ASSUME NEW role, NEW blocks, AreItems(blocks), NEW t, t = [role |-> role, content |-> Arr(blocks)]
  PROVE  /\ ReadContent(t.role, "claude", t.content) = ReadItems(role, "claude", blocks)
         /\ IsSeq(ReadContent(t.role, "claude", t.content))
<1>1. t.role = role /\ t.content.form = "array" /\ t.content.items = blocks
  BY DEF Arr
<1>2. ReadContent(t.role, "claude", t.content) = ReadItems(role, "claude", blocks)
  BY <1>1 DEF ReadContent
<1> QED
  BY <1>2, ItemsRead

\* A chat that is translated for Claude says what it has said (openai_to_claude::translate_request).
LEMMA ToClaudeRead ==
  ASSUME NEW b, NEW messages, messages = Get(b, "messages", <<>>), messages # <<>>, AreChat("claude", messages)
  PROVE  /\ ReadClaude(ToClaude(b)) = ReadChat(messages, FALSE)
         /\ IsWords(Get(ToClaude(b), "system", Null)) /\ IsSeq(ClaudeSaid(ToClaude(b)))
<1>1. PICK body, d, named : body = ToClaude(b) /\ d = "claude" /\ named = FALSE
  OBVIOUS
<1>2. PICK q, z : /\ q = [i \in DOMAIN messages |-> ClaudeTurn(messages[i])]
                  /\ z = [i \in DOMAIN messages |->
                            IF IsSystem(messages[i]) THEN ClaudeBlocks(messages[i].content) ELSE <<>>]
  OBVIOUS
<1>3. PICK turns, system : turns = FlattenSeq(q) /\ system = FlattenSeq(z)
  OBVIOUS
<1>4. /\ Get(body, "messages", <<>>) = turns
      /\ Get(body, "system", Null) = IF system # <<>> THEN Arr(system) ELSE Null
  BY <1>1, <1>2, <1>3, ClaudeBodyIs
<1>5. PICK s, o : s = OfSystems(named, messages) /\ o = OfOthers(named, messages)
  OBVIOUS
<1>6. IsSeqs(s) /\ IsSeqs(o) /\ ReadChat(messages, named) = FlattenSeq(s) \o FlattenSeq(o)
  BY <1>1, <1>5, ChatIsTwo
<1>7. /\ IsSeq(messages)
      /\ \A i \in DOMAIN messages : IsChatMessage(d, messages[i])
  BY <1>1 DEF AreChat
<1>8. PICK none : none = <<>>
  OBVIOUS
<1>9. AreItems(none) /\ \A who, in : ReadItems(who, in, none) = none
  BY <1>8, NoneIsSeq, ItemsNone DEF AreItems
<1>10. /\ AreItems(system)
       /\ ReadItems("system", "claude", system) = FlattenSeq(s)
  <2>1. ASSUME NEW i \in DOMAIN messages
        PROVE  AreItems(z[i]) /\ ReadItems("system", "claude", z[i]) = s[i]
    <3>1. PICK m : m = messages[i]
      OBVIOUS
    <3>2. IsChatMessage(d, m)
      BY <1>7, <3>1
    <3>3. CASE IsSystem(m)
      <4>1. PICK kinds, in, c : kinds = {"text", "image"} /\ in = "openai" /\ c = m.content
        OBVIOUS
      <4>2. m.role = "system" /\ IsContent(c, in, kinds)
        BY <1>1, <3>2, <3>3, <4>1 DEF IsSystem, IsChatMessage, TextsOnly
      <4>3. ReadChatTurn(named, m) = ReadContent("system", in, c)
        BY <3>2, <3>3, <4>1, SystemTurnIs
      <4>4. AreItems(ClaudeBlocks(c)) /\ ReadItems("system", "claude", ClaudeBlocks(c)) = ReadContent("system", in, c)
        BY <4>1, <4>2, ClaudeBlocksRead
      <4>5. z[i] = ClaudeBlocks(c) /\ s[i] = ReadChatTurn(named, m)
        BY <1>2, <1>5, <3>1, <3>3, <4>1 DEF OfSystems
      <4> QED
        BY <4>3, <4>4, <4>5
    <3>4. CASE ~IsSystem(m)
      <4>1. z[i] = none /\ s[i] = none
        BY <1>2, <1>5, <1>8, <3>1, <3>4 DEF OfSystems
      <4> QED
        BY <1>9, <4>1
    <3> QED
      BY <3>3, <3>4
  <2>2. IsSeq(z) /\ DOMAIN z = DOMAIN messages
    BY <1>2, <1>7, EachIs
  <2>3. /\ AreItems(FlattenSeq(z))
        /\ ReadItems("system", "claude", FlattenSeq(z)) =
             FlattenSeq([i \in DOMAIN z |-> ReadItems("system", "claude", z[i])])
    BY <2>1, <2>2, ItemsFlatten
  <2>4. [i \in DOMAIN z |-> ReadItems("system", "claude", z[i])] = s
    <3>1. s = [i \in DOMAIN messages |-> s[i]]
      BY <1>5 DEF OfSystems
    <3> QED
      BY <2>1, <2>2, <3>1
  <2> QED
    BY <1>3, <2>3, <2>4
<1>11. PICK c : c = Get(body, "system", Null)
  OBVIOUS
<1>12. IsWords(c) /\ ReadContent("system", "claude", c) = FlattenSeq(s)
  <2>1. CASE system # <<>>
    <3>1. c.form = "array" /\ c.items = system
      BY <1>4, <1>11, <2>1 DEF Arr
    <3> QED
      BY <1>10, <3>1 DEF IsWords, ReadContent
  <2>2. CASE system = <<>>
    <3>1. c.form = "null"
      BY <1>4, <1>11, <2>2 DEF Null
    <3>2. ReadContent("system", "claude", c) = none
      BY <1>8, <3>1 DEF ReadContent
    <3>3. FlattenSeq(s) = none
      BY <1>8, <1>9, <1>10, <2>2
    <3> QED
      BY <3>1, <3>2, <3>3 DEF IsWords
  <2> QED
    BY <2>1, <2>2
<1>13. ASSUME NEW i \in DOMAIN messages
       PROVE  \/ q[i] = none /\ o[i] = none
              \/ \E role, blocks : /\ q[i] = <<[role |-> role, content |-> Arr(blocks)]>> /\ AreItems(blocks)
                                   /\ o[i] = ReadItems(role, "claude", blocks)
  <2>1. PICK m : m = messages[i]
    OBVIOUS
  <2>2. IsChatMessage(d, m) /\ q[i] = ClaudeTurn(m)
    BY <1>2, <1>7, <2>1
  <2>3. CASE IsSystem(m)
    <3>1. ClaudeTurn(m) = none
      BY <1>1, <1>8, <2>2, <2>3, ClaudeTurnRead
    <3>2. o[i] = none
      BY <1>5, <1>8, <2>1, <2>3 DEF OfOthers
    <3> QED
      BY <2>2, <3>1, <3>2
  <2>4. CASE ~IsSystem(m)
    <3>1. PICK role, blocks : /\ ClaudeTurn(m) = Turn(role, blocks) /\ AreItems(blocks)
                              /\ ReadItems(role, "claude", blocks) = ReadChatTurn(named, m)
      BY <1>1, <2>2, <2>4, ClaudeTurnRead
    <3>2. o[i] = ReadChatTurn(named, m)
      BY <1>5, <2>1, <2>4 DEF OfOthers
    <3>3. q[i] = <<[role |-> role, content |-> Arr(blocks)]>>
      BY <2>2, <3>1 DEF Turn
    <3>4. o[i] = ReadItems(role, "claude", blocks)
      BY <3>1, <3>2
    <3> QED
      BY <3>1, <3>3, <3>4
  <2> QED
    BY <2>3, <2>4
<1>14. PICK D : D = UNION {Range(q[i]) : i \in DOMAIN messages}
  OBVIOUS
<1>15. IsSeq(q) /\ DOMAIN q = DOMAIN messages
  BY <1>2, <1>7, EachIs
<1>16. q \in Seq(Seq(D))
  <2>1. ASSUME NEW i \in DOMAIN messages PROVE q[i] \in Seq(D)
    <3>1. Range(q[i]) \subseteq D
      BY <1>14
    <3>2. IsSeq(q[i])
      BY <1>8, <1>13, NoneIsSeq, OneIsSeq
    <3> QED
      BY <3>1, <3>2, SeqIn
  <2>2. Range(q) \subseteq Seq(D)
    BY <1>15, <2>1 DEF Range
  <2> QED
    BY <1>15, <2>2, SeqIn
<1>17. PICK r : r = [t \in D |-> ReadContent(t.role, "claude", t.content)]
  OBVIOUS
<1>18. \A t \in D : IsSeq(r[t])
  <2> SUFFICES ASSUME NEW t \in D PROVE IsSeq(r[t])
    OBVIOUS
  <2>1. PICK i \in DOMAIN messages : t \in Range(q[i])
    BY <1>14
  <2>2. q[i] # none
    BY <1>8, <2>1 DEF Range
  <2>3. PICK role, blocks : q[i] = <<[role |-> role, content |-> Arr(blocks)]>> /\ AreItems(blocks)
    BY <1>13, <2>2
  <2>4. t = [role |-> role, content |-> Arr(blocks)]
    <3>1. PICK x : x = [role |-> role, content |-> Arr(blocks)]
      OBVIOUS
    <3>2. q[i] = <<x>>
      BY <2>3, <3>1
    <3>3. DOMAIN q[i] = {1} /\ q[i][1] = x
      BY <3>2
    <3>4. t = x
      BY <2>1, <3>3 DEF Range
    <3> QED
      BY <3>1, <3>4
  <2>5. IsSeq(ReadContent(t.role, "claude", t.content))
    BY <2>3, <2>4, TurnIs
  <2> QED
    BY <1>17, <2>5
<1>19. ASSUME NEW i \in DOMAIN messages PROVE Through(r, q[i]) = o[i]
  <2>1. CASE q[i] = none /\ o[i] = none
    BY <1>8, <2>1, ThroughNone
  <2>2. ASSUME NEW role, NEW blocks, q[i] = <<[role |-> role, content |-> Arr(blocks)]>>, AreItems(blocks),
               o[i] = ReadItems(role, "claude", blocks)
        PROVE  Through(r, q[i]) = o[i]
    <3>1. PICK t : t = [role |-> role, content |-> Arr(blocks)]
      OBVIOUS
    <3>2. PICK w : w = q[i]
      OBVIOUS
    <3>3. w = <<t>>
      BY <2>2, <3>1, <3>2
    <3>4. t \in D
      <4>1. i \in DOMAIN q
        BY <1>15
      <4>2. q[i] \in Seq(D)
        BY <1>16, <4>1
      <4>3. w \in Seq(D)
        BY <3>2, <4>2
      <4>4. 1 \in 1 .. Len(w) /\ w[1] = t
        BY <3>3
      <4>5. w[1] \in D
        BY <4>3, <4>4
      <4> QED
        BY <4>4, <4>5
    <3>5. Through(r, <<t>>) = r[t]
      BY ThroughOne
    <3>6. ReadContent(t.role, "claude", t.content) = ReadItems(role, "claude", blocks)
      BY <2>2, <3>1, TurnIs
    <3>7. r[t] = ReadContent(t.role, "claude", t.content)
      BY <1>17, <3>4
    <3>8. Through(r, w) = ReadItems(role, "claude", blocks)
      BY <3>3, <3>5, <3>6, <3>7
    <3> QED
      BY <2>2, <3>2, <3>8
  <2> QED
    BY <1>13, <2>1, <2>2
<1>20. turns \in Seq(D) /\ Through(r, turns) = FlattenSeq(o)
  <2>1. /\ FlattenSeq(q) \in Seq(D)
        /\ Through(r, FlattenSeq(q)) = FlattenSeq([i \in DOMAIN q |-> Through(r, q[i])])
    BY <1>16, <1>18, ThroughAll, ZenonT(60)
  <2>2. [i \in DOMAIN q |-> Through(r, q[i])] = o
    <3>1. o = [i \in DOMAIN messages |-> o[i]]
      BY <1>5 DEF OfOthers
    <3> QED
      BY <1>15, <1>19, <3>1
  <2> QED
    BY <1>3, <2>1, <2>2
<1>21. ClaudeSaid(body) = Through(r, turns)
  <2>1. ClaudeSaid(body) = FlattenSeq([i \in DOMAIN turns |-> ReadContent(turns[i].role, "claude", turns[i].content)])
    BY <1>4, Zenon DEF ClaudeSaid
  <2>2. \A i \in DOMAIN turns : ReadContent(turns[i].role, "claude", turns[i].content) = r[turns[i]]
    <3>1. \A i \in DOMAIN turns : turns[i] \in D
      BY <1>20
    <3> QED
      BY <1>17, <3>1
  <2>3. [i \in DOMAIN turns |-> ReadContent(turns[i].role, "claude", turns[i].content)]
        = [i \in DOMAIN turns |-> r[turns[i]]]
    BY <2>2
  <2> QED
    BY <2>1, <2>3 DEF Through
<1>22. IsSeq(ClaudeSaid(body))
  BY <1>6, <1>20, <1>21, FlattenIsSeq
<1>23. ReadClaude(body) = FlattenSeq(s) \o FlattenSeq(o)
  BY <1>11, <1>12, <1>20, <1>21, ClaudeIsTwo
<1> QED
  BY <1>1, <1>6, <1>11, <1>12, <1>22, <1>23

-------------------------------------------------------------------------------
(***************************************************************************)
(* What is made for Gemini                                                 *)
(***************************************************************************)
\* Gemini's contents, and what they say.
Speaker(role) == IF role = "model" THEN "assistant" ELSE role
Says(t)       == ReadItems(Speaker(t.role), "gemini", t.parts)

AreTurns(contents) ==
  IsSeq(contents) /\ \A i \in DOMAIN contents :
    contents[i] = Said(contents[i].role, contents[i].parts) /\ AreItems(contents[i].parts)

GeminiSaid(contents) == FlattenSeq([i \in DOMAIN contents |-> Says(contents[i])])

\* What contents say: of each turn what it says, in a row.
LEMMA GeminiSaidIs ==
  ASSUME NEW X, NEW p \in Seq(X), NEW r, r = [t \in X |-> Says(t)]
  PROVE  GeminiSaid(p) = Through(r, p)
<1>1. \A i \in DOMAIN p : Says(p[i]) = r[p[i]]
  <2>1. \A i \in DOMAIN p : p[i] \in X
    OBVIOUS
  <2> QED
    BY <2>1
<1>2. [i \in DOMAIN p |-> Says(p[i])] = [i \in DOMAIN p |-> r[p[i]]]
  BY <1>1
<1> QED
  BY <1>2 DEF GeminiSaid, Through

LEMMA GeminiJoin ==
  ASSUME NEW p, NEW q, AreTurns(p), AreTurns(q)
  PROVE  /\ AreTurns(p \o q) /\ GeminiSaid(p \o q) = GeminiSaid(p) \o GeminiSaid(q)
         /\ IsSeq(GeminiSaid(p))
<1>1. PICK X : X = Range(p) \cup Range(q)
  OBVIOUS
<1>2. p \in Seq(X) /\ q \in Seq(X) /\ \A t \in X : t = Said(t.role, t.parts) /\ AreItems(t.parts)
  BY <1>1, SeqIn DEF AreTurns, Range
<1>3. PICK r : r = [t \in X |-> Says(t)]
  OBVIOUS
<1>4. \A t \in X : IsSeq(r[t])
  BY <1>2, <1>3, ItemsRead DEF Says
<1>5. PICK l : l = p \o q
  OBVIOUS
<1>6. l \in Seq(X)
  BY <1>2, <1>5
<1>7. GeminiSaid(p) = Through(r, p) /\ GeminiSaid(q) = Through(r, q) /\ GeminiSaid(l) = Through(r, l)
  BY <1>2, <1>3, <1>6, GeminiSaidIs
<1>8. Through(r, p \o q) = Through(r, p) \o Through(r, q)
  BY <1>2, <1>4, ThroughJoin
<1>9. AreTurns(l)
  <2>1. IsSeq(l)
    BY <1>6, SeqIs
  <2>2. \A i \in DOMAIN l : l[i] \in X
    BY <1>6
  <2> QED
    BY <1>2, <2>1, <2>2 DEF AreTurns
<1>10. IsSeq(Through(r, p))
  BY <1>2, <1>4, ThroughSeq
<1> QED
  BY <1>5, <1>7, <1>8, <1>9, <1>10

\* Of no turn, and of one.
LEMMA GeminiNone == AreTurns(<<>>) /\ GeminiSaid(<<>>) = <<>>
<1>1. PICK e : e = <<>>
  OBVIOUS
<1>2. e \in Seq({}) /\ IsSeq(e) /\ DOMAIN e = {}
  BY <1>1, NoneIsSeq
<1>3. PICK r : r = [t \in {} |-> Says(t)]
  OBVIOUS
<1>4. GeminiSaid(e) = Through(r, e)
  BY <1>2, <1>3, GeminiSaidIs
<1> QED
  BY <1>1, <1>2, <1>4, ThroughNone DEF AreTurns

LEMMA GeminiOne ==
  ASSUME NEW role, NEW parts, AreItems(parts), NEW t, t = Said(role, parts)
  PROVE  /\ AreTurns(<<t>>)
         /\ GeminiSaid(<<t>>) = ReadItems(Speaker(role), "gemini", parts)
<1>1. t.role = role /\ t.parts = parts
  BY DEF Said
<1>2. PICK p, r : p = <<t>> /\ r = [x \in {t} |-> Says(x)]
  OBVIOUS
<1>3. p \in Seq({t}) /\ r[t] = Says(t)
  BY <1>2
<1>4. GeminiSaid(p) = Through(r, p)
  BY <1>2, <1>3, GeminiSaidIs
<1>5. GeminiSaid(p) = Says(t)
  BY <1>2, <1>3, <1>4, ThroughOne
<1>6. IsSeq(p) /\ DOMAIN p = {1} /\ p[1] = t
  <2>1. IsSeq(p) /\ Len(p) = 1 /\ p[1] = t
    BY <1>2, OneIsSeq
  <2> QED
    BY <2>1, SeqHas
<1>7. AreTurns(p)
  BY <1>1, <1>6 DEF AreTurns
<1> QED
  BY <1>1, <1>2, <1>5, <1>7 DEF Says

\* g is f and one more.
AddsOne(f, g, x) ==
  Len(g) = Len(f) + 1 /\ (\A i \in 1 .. Len(f) : g[i] = f[i]) /\ g[Len(f) + 1] = x

\* To append is to join.
LEMMA JoinLast ==
  ASSUME NEW f, NEW x, NEW g, IsSeq(f), IsSeq(g), AddsOne(f, g, x)
  PROVE  g = f \o <<x>>
<1>1. PICK k : k = Len(f)
  OBVIOUS
<1>2. Len(g) = k + 1 /\ (\A i \in 1 .. k : g[i] = f[i]) /\ g[k + 1] = x
  BY <1>1 DEF AddsOne
<1>3. PICK y, h : y = <<x>> /\ h = f \o y
  OBVIOUS
<1>4. IsSeq(y) /\ Len(y) = 1 /\ y[1] = x
  BY <1>3, OneIsSeq
<1>5. k \in Nat
  BY <1>1, SeqHas
<1>6. /\ IsSeq(f \o y) /\ Len(f \o y) = Len(f) + Len(y)
      /\ \A i \in 1 .. Len(f) : (f \o y)[i] = f[i]
      /\ \A i \in 1 .. Len(y) : (f \o y)[Len(f) + i] = y[i]
  <2>1. IsSeq(f) /\ IsSeq(y)
    BY <1>4
  <2> QED
    BY <2>1, JoinIsSeq
<1>7. IsSeq(h) /\ Len(h) = k + 1 /\ (\A i \in 1 .. k : h[i] = f[i]) /\ h[k + 1] = x
  <2>1. 1 \in 1 .. 1
    OBVIOUS
  <2> QED
    BY <1>1, <1>3, <1>4, <1>6, <2>1
<1>8. \A i \in 1 .. Len(g) : g[i] = h[i]
  <2>1. \A i \in 1 .. k + 1 : i \in 1 .. k \/ i = k + 1
    BY <1>5
  <2> QED
    BY <1>2, <1>7, <2>1
<1>9. g = h
  BY <1>2, <1>7, <1>8, SameSeq
<1> QED
  BY <1>3, <1>9

\* Another turn, and another part of the last one.
LEMMA GeminiAdds ==
  ASSUME NEW p, AreTurns(p), NEW role, NEW parts, AreItems(parts), NEW c, c = Append(p, Said(role, parts))
  PROVE  /\ AreTurns(c)
         /\ GeminiSaid(c) = GeminiSaid(p) \o ReadItems(Speaker(role), "gemini", parts)
<1>1. PICK t, q : t = Said(role, parts) /\ q = <<t>>
  OBVIOUS
<1>2. c = p \o q
  <2>1. PICK X : X = Range(p) \cup {t}
    OBVIOUS
  <2>2. p \in Seq(X) /\ t \in X
    BY <2>1, SeqIn DEF AreTurns
  <2>3. Append(p, t) = p \o <<t>>
    BY <2>2
  <2> QED
    BY <1>1, <2>3
<1>3. /\ AreTurns(q)
      /\ GeminiSaid(q) = ReadItems(Speaker(role), "gemini", parts)
  BY <1>1, GeminiOne
<1>4. AreTurns(p \o q) /\ GeminiSaid(p \o q) = GeminiSaid(p) \o GeminiSaid(q)
  BY <1>3, GeminiJoin
<1> QED
  BY <1>2, <1>3, <1>4

\* A result that goes into the last turn is said after it.
LEMMA GeminiAmends ==
  ASSUME NEW p, AreTurns(p), p # <<>>, Last(p).role = "function", NEW x, IsSeq(x.text), NEW c,
         c = [p EXCEPT ![Len(p)].parts = Append(@, x)]
  PROVE  /\ AreTurns(c)
         /\ GeminiSaid(c) = GeminiSaid(p) \o ReadItem("function", "gemini", x)
<1>1. PICK n : n = Len(p)
  OBVIOUS
<1>2. PICK R : R = Range(p)
  OBVIOUS
<1>3. p \in Seq(R) /\ n \in Nat /\ DOMAIN p = 1 .. n /\ n # 0
  BY <1>1, <1>2 DEF AreTurns, IsSeq
<1>4. PICK f, t, a : f = [i \in 1 .. n - 1 |-> p[i]] /\ t = p[n] /\ a = t.parts
  OBVIOUS
<1>5. n \in 1 .. n /\ n \in DOMAIN p
  BY <1>3
<1>6. t = Said("function", a) /\ AreItems(a)
  <2>1. Last(p) = t
    BY <1>1, <1>4 DEF Last
  <2> QED
    BY <1>4, <1>5, <2>1 DEF AreTurns
<1>7. PICK b : b = <<x>>
  OBVIOUS
<1>8. AreItems(b) /\ ReadItems("function", "gemini", b) = ReadItem("function", "gemini", x)
  <2>1. IsSeq(b) /\ Len(b) = 1 /\ b[1] = x
    BY <1>7, OneIsSeq
  <2>2. DOMAIN b = {1}
    BY <2>1, SeqHas
  <2> QED
    BY <1>7, <2>1, <2>2, ItemsOne DEF AreItems
<1>9. Append(a, x) = a \o b
  <2>1. PICK X : X = Range(a) \cup {x}
    OBVIOUS
  <2>2. a \in Seq(X) /\ x \in X
    BY <1>6, <2>1, SeqIn DEF AreItems
  <2> QED
    BY <1>7, <2>2, SMTT(30)
<1>10. PICK ab, u : ab = a \o b /\ u = Said("function", ab)
  OBVIOUS
<1>11. AreItems(ab) /\ ReadItems("function", "gemini", ab) =
         ReadItems("function", "gemini", a) \o ReadItem("function", "gemini", x)
  <2>1. PICK who, in : who = "function" /\ in = "gemini"
    OBVIOUS
  <2>2. AreItems(a \o b) /\ ReadItems(who, in, a \o b) = ReadItems(who, in, a) \o ReadItems(who, in, b)
    BY <1>6, <1>8, ItemsJoin
  <2> QED
    BY <1>8, <1>10, <2>1, <2>2
<1>12. [t EXCEPT !.parts = Append(a, x)] = u
  <2>1. t = [role |-> "function", parts |-> a] /\ u = [role |-> "function", parts |-> ab]
    BY <1>6, <1>10 DEF Said
  <2>2. Append(a, x) = ab
    BY <1>9, <1>10
  <2> QED
    BY <2>1, <2>2
<1>13. PICK y, z : y = <<t>> /\ z = <<u>>
  OBVIOUS
<1>14. /\ IsSeq(f) /\ Len(f) = n - 1
       /\ IsSeq(y) /\ Len(y) = 1 /\ y[1] = t
       /\ IsSeq(z) /\ Len(z) = 1 /\ z[1] = u
  <2>1. f \in Seq(R) /\ Len(f) = n - 1
    <3>1. f \in [1 .. n - 1 -> R] /\ n - 1 \in Nat
      BY <1>3, <1>4
    <3> QED
      BY <3>1, SMTT(30)
  <2> QED
    BY <1>13, <2>1, SeqIs, OneIsSeq
<1>15. p = f \o y
  <2>1. PICK k : k = n - 1
    OBVIOUS
  <2>2. IsSeq(p) /\ Len(p) = k + 1 /\ k = Len(f) /\ k + 1 = n
    BY <1>1, <1>3, <1>14, <2>1 DEF AreTurns
  <2>3. (\A i \in 1 .. k : p[i] = f[i]) /\ p[k + 1] = t
    BY <1>4, <2>1, <2>2
  <2>4. p = f \o <<t>>
    <3>1. AddsOne(f, p, t)
      BY <2>2, <2>3 DEF AddsOne
    <3> QED
      BY <1>14, <2>2, <3>1, JoinLast
  <2> QED
    BY <1>13, <2>4
<1>16. c = f \o z
  <2>1. PICK k : k = n - 1
    OBVIOUS
  <2>2. c = [p EXCEPT ![n] = u]
    BY <1>1, <1>4, <1>12
  <2>3. DOMAIN c = DOMAIN p /\ c = [i \in DOMAIN p |-> IF i = n THEN u ELSE p[i]]
    BY <1>5, <2>2
  <2>4. c = [i \in DOMAIN c |-> c[i]]
    BY <2>3
  <2>5. IsSeq(c) /\ Len(c) = n
    BY <1>1, <2>3, <2>4, EachIs DEF AreTurns
  <2>6. Len(c) = k + 1 /\ k = Len(f) /\ k + 1 = n
    BY <1>3, <1>14, <2>1, <2>5
  <2>7. \A i \in 1 .. k : c[i] = f[i]
    <3>1. \A i \in 1 .. k : i \in DOMAIN p /\ i # n /\ f[i] = p[i]
      BY <1>3, <1>4, <2>1
    <3> QED
      BY <2>3, <3>1
  <2>8. c[k + 1] = u
    BY <1>5, <2>3, <2>6
  <2>9. c = f \o <<u>>
    <3>1. AddsOne(f, c, u)
      BY <2>6, <2>7, <2>8 DEF AddsOne
    <3> QED
      BY <1>14, <2>5, <3>1, JoinLast
  <2> QED
    BY <1>13, <2>9
<1>17. Speaker("function") = "function"
  BY DEF Speaker
<1>18. AreTurns(f) /\ GeminiSaid(f) \o GeminiSaid(y) = GeminiSaid(p) /\ IsSeq(GeminiSaid(f))
  <2>1. AreTurns(f)
    <3>1. \A i \in DOMAIN f : i \in DOMAIN p /\ f[i] = p[i]
      BY <1>3, <1>4
    <3> QED
      BY <1>14, <3>1 DEF AreTurns
  <2>2. AreTurns(y)
    BY <1>6, <1>13, GeminiOne
  <2> QED
    BY <1>15, <2>1, <2>2, GeminiJoin
<1>19. /\ GeminiSaid(y) = ReadItems("function", "gemini", a)
       /\ AreTurns(z) /\ GeminiSaid(z) = ReadItems("function", "gemini", ab)
  BY <1>6, <1>10, <1>11, <1>13, <1>17, GeminiOne
<1>20. AreTurns(c) /\ GeminiSaid(c) = GeminiSaid(f) \o GeminiSaid(z)
  <2>1. AreTurns(f) /\ AreTurns(z)
    BY <1>18, <1>19
  <2>2. AreTurns(f \o z) /\ GeminiSaid(f \o z) = GeminiSaid(f) \o GeminiSaid(z)
    BY <2>1, GeminiJoin
  <2> QED
    BY <1>16, <2>2
<1>21. (GeminiSaid(f) \o ReadItems("function", "gemini", a)) \o ReadItem("function", "gemini", x) =
       GeminiSaid(f) \o (ReadItems("function", "gemini", a) \o ReadItem("function", "gemini", x))
  <2>1. PICK v, w : v = ReadItems("function", "gemini", a) /\ w = ReadItem("function", "gemini", x)
    OBVIOUS
  <2>2. IsSeq(v) /\ IsSeq(w)
    BY <1>6, <2>1, ItemsRead, ItemIs
  <2>3. PICK s : s = GeminiSaid(f)
    OBVIOUS
  <2>4. (s \o v) \o w = s \o (v \o w)
    BY <1>18, <2>2, <2>3, JoinThree
  <2> QED
    BY <2>1, <2>3, <2>4
<1> QED
  BY <1>11, <1>18, <1>19, <1>20, <1>21

\* One more message of a chat for Gemini.
GeminiTurnSays(contents, m) ==
  /\ AreTurns(GeminiTurn(contents, m))
  /\ GeminiSaid(GeminiTurn(contents, m)) =
       GeminiSaid(contents) \o IF IsSystem(m) THEN <<>> ELSE ReadChatTurn(TRUE, m)

\* Each message is said after what has been said, the system's left out.
LEMMA GeminiTurnRead ==
  ASSUME NEW contents, AreTurns(contents), NEW m, IsChatMessage("gemini", m)
  PROVE  GeminiTurnSays(contents, m)
<1> DEFINE c == GeminiTurn(contents, m)
<1>1. m.role \in {"system", "user", "assistant", "tool"}
  BY DEF IsChatMessage
<1>2. PICK d, in, kinds, named : /\ d = "gemini" /\ in = "openai" /\ named = TRUE
                          /\ kinds = IF <<d, m.role>> \in TextsOnly THEN {"text"} ELSE {"text", "image"}
  OBVIOUS
<1>3. IsContent(m.content, in, kinds) /\ IsChatMessage(d, m)
  BY <1>2 DEF IsChatMessage
<1>4. PICK said, tool, saying : /\ said = ReadContent(m.role, in, m.content) /\ tool = CalledOf(named, m)
                                /\ saying = GeminiSaid(contents)
  OBVIOUS
<1>5. /\ IsSeq(said)
      /\ m.role = "user" => ReadChatTurn(named, m) = said
      /\ m.role = "assistant" => ReadChatTurn(named, m) = said \o Calling(named, CallsOf(m))
      /\ m.role = "tool" => ReadChatTurn(named, m) = <<<<"tool", "result", tool>>>> \o said
  BY <1>2, <1>3, <1>4, ChatTurnIs
<1>6. IsSeq(saying) /\ saying \o <<>> = saying
  <2>1. IsSeq(saying)
    BY <1>4, GeminiJoin
  <2> QED
    BY <2>1, JoinNone
<1>7. CASE m.role = "system"
  <2>1. c = contents
    BY <1>7 DEF GeminiTurn
  <2> QED
    BY <1>4, <1>6, <1>7, <2>1 DEF GeminiTurnSays, IsSystem
<1>8. CASE m.role = "user"
  <2>1. PICK parts : parts = GeminiParts(m.content)
    OBVIOUS
  <2>2. c = Append(contents, Said("user", parts))
    BY <1>8, <2>1 DEF GeminiTurn
  <2>3. kinds = {"text", "image"}
    BY <1>2, <1>8 DEF TextsOnly
  <2>4. AreItems(parts) /\ ReadItems("user", "gemini", parts) = said
    BY <1>2, <1>3, <1>4, <1>8, <2>1, <2>3, GeminiPartsRead
  <2>5. PICK role : role = "user"
    OBVIOUS
  <2>6. AreTurns(c) /\ GeminiSaid(c) =
          saying \o ReadItems(Speaker(role), "gemini", parts)
    BY <1>4, <2>2, <2>4, <2>5, GeminiAdds
  <2>7. AreTurns(c) /\ GeminiSaid(c) = saying \o said
    BY <2>4, <2>5, <2>6 DEF Speaker
  <2> QED
    BY <1>2, <1>4, <1>5, <1>8, <2>7 DEF GeminiTurnSays, IsSystem
<1>9. CASE m.role = "tool"
  <2>1. PICK t, x : t = (IF m.content.form = "string" THEN m.content.text ELSE <<>>) /\ x = GeminiResult(m)
    OBVIOUS
  <2>2. x.kind = "result" /\ x.in = "gemini" /\ x.text = t /\ x.name = tool
    <3>1. PICK g, h : g = [kind |-> "result", in |-> "gemini", text |-> t] /\ h = [of |-> "", name |-> tool]
      OBVIOUS
    <3>2. x = g ++ h
      BY <1>2, <1>4, <2>1, <3>1 DEF GeminiResult, CallItem, Item, CalledOf
    <3>3. x = [k \in DOMAIN g \cup DOMAIN h |-> IF k \in DOMAIN g THEN g[k] ELSE h[k]]
      BY <3>2 DEF ++
    <3> QED
      BY <3>1, <3>3
  <2>3. m.content.form # "array"
    BY <1>9 DEF IsChatMessage, StringOnly
  <2>4. said = ReadText("tool", t) /\ IsSeq(t)
    <3>1. /\ m.content.form \in {"string", "null"}
          /\ m.content.form = "string" => IsSeq(m.content.text) /\ said = ReadText("tool", m.content.text)
          /\ m.content.form = "null" => said = <<>>
      BY <1>3, <1>4, <1>9, <2>3, ContentIs
    <3> QED
      BY <2>1, <3>1, TextNone, NoneIsSeq
  <2>5. PICK y, who : y = ReadItem(who, "gemini", x) /\ who = "function"
    OBVIOUS
  <2>6. y = <<<<"tool", "result", tool>>>> \o said
    BY <2>2, <2>4, <2>5 DEF ReadItem
  <2>7. AreTurns(c) /\ GeminiSaid(c) = saying \o y
    <3>1. CASE contents # <<>> /\ Last(contents).role = "function"
      <4>1. c = [contents EXCEPT ![Len(contents)].parts = Append(@, x)]
        BY <1>9, <2>1, <3>1, Zenon DEF GeminiTurn
      <4>2. IsSeq(x.text)
        BY <2>2, <2>4
      <4> QED
        BY <1>4, <2>5, <3>1, <4>1, <4>2, GeminiAmends
    <3>2. CASE ~(contents # <<>> /\ Last(contents).role = "function")
      <4>1. PICK parts : parts = <<x>>
        OBVIOUS
      <4>2. c = Append(contents, Said("function", parts))
        BY <1>9, <2>1, <3>2, <4>1 DEF GeminiTurn
      <4>3. AreItems(parts) /\ ReadItems(who, "gemini", parts) = y
        <5>1. IsSeq(parts) /\ Len(parts) = 1 /\ parts[1] = x
          BY <4>1, OneIsSeq
        <5>2. DOMAIN parts = {1}
          BY <5>1, SeqHas
        <5> QED
          BY <2>2, <2>4, <2>5, <4>1, <5>1, <5>2, ItemsOne DEF AreItems
      <4>4. c = Append(contents, Said(who, parts))
        BY <2>5, <4>2
      <4>5. AreTurns(c) /\ GeminiSaid(c) =
              saying \o ReadItems(Speaker(who), "gemini", parts)
        BY <1>4, <4>3, <4>4, GeminiAdds
      <4> QED
        BY <2>5, <4>3, <4>5 DEF Speaker
    <3> QED
      BY <3>1, <3>2
  <2> QED
    BY <1>2, <1>4, <1>5, <1>9, <2>6, <2>7 DEF GeminiTurnSays, IsSystem
<1>10. CASE m.role = "assistant"
  <2>1. PICK calls, t : calls = CallsOf(m) /\ t = TextOf(m.content)
    OBVIOUS
  <2>2. IsSeq(calls)
    BY <2>1 DEF IsChatMessage
  <2>3. kinds = {"text"}
    BY <1>2, <1>10 DEF TextsOnly
  <2>4. said = ReadText("assistant", t) /\ IsSeq(t)
    <3>1. IsContent(m.content, in, {"text"})
      BY <1>3, <2>3
    <3> QED
      BY <1>4, <1>10, <2>1, <3>1, TextOfRead, TextOfIs
  <2>5. PICK told : told = [i \in DOMAIN calls |-> CallItem("call", "gemini", <<>>, "", calls[i].name)]
    OBVIOUS
  <2>6. AreItems(told) /\ ReadItems("assistant", "gemini", told) = Calling(named, calls)
    <3>1. PICK from : from = "gemini"
      OBVIOUS
    <3>2. told = [i \in DOMAIN calls |-> CallItem("call", from, <<>>, IF named THEN "" ELSE calls[i].id,
                                                  calls[i].name)]
      BY <1>2, <2>5, <3>1
    <3>3. from = "gemini" /\ named = TRUE
      BY <1>2, <3>1
    <3>4. AreItems(told) /\ ReadItems("assistant", from, told) = Calling(named, calls)
      BY <2>2, <3>2, <3>3, CallsRead
    <3> QED
      BY <3>1, <3>4
  <2>7. PICK text : text = GeminiText(t)
    OBVIOUS
  <2>8. AreItems(text) /\ ReadItems("assistant", "gemini", text) = said
    BY <2>4, <2>7, GeminiTextRead
  <2>9. PICK parts : parts = text \o told
    OBVIOUS
  <2>10. AreItems(parts) /\ ReadItems("assistant", "gemini", parts) = ReadChatTurn(named, m)
    <3>1. PICK who, to : who = "assistant" /\ to = "gemini"
      OBVIOUS
    <3>2. AreItems(text) /\ AreItems(told)
      BY <2>6, <2>8
    <3>3. /\ AreItems(text \o told)
          /\ ReadItems(who, to, text \o told) = ReadItems(who, to, text) \o ReadItems(who, to, told)
      BY <3>2, ItemsJoin
    <3> QED
      BY <1>5, <1>10, <2>1, <2>6, <2>8, <2>9, <3>1, <3>3
  <2>11. c = IF parts = <<>> THEN contents ELSE Append(contents, Said("model", parts))
    <3>1. told = MapSeq(CallsOf(m), LAMBDA call_ : CallItem("call", "gemini", <<>>, "", call_.name))
      BY <2>1, <2>5, Zenon DEF MapSeq
    <3>2. parts = GeminiText(TextOf(m.content))
                    \o MapSeq(CallsOf(m), LAMBDA call_ : CallItem("call", "gemini", <<>>, "", call_.name))
      BY <2>1, <2>7, <2>9, <3>1, Zenon
    <3> QED
      BY <1>10, <3>2, Zenon DEF GeminiTurn
  <2>12. CASE parts # <<>>
    <3>1. PICK role : role = "model"
      OBVIOUS
    <3>2. c = Append(contents, Said(role, parts))
      BY <2>11, <2>12, <3>1
    <3>3. AreTurns(c) /\ GeminiSaid(c) =
            saying \o ReadItems(Speaker(role), "gemini", parts)
      BY <1>4, <2>10, <3>2, GeminiAdds
    <3>4. AreTurns(c) /\ GeminiSaid(c) = saying \o ReadChatTurn(named, m)
      BY <2>10, <3>1, <3>3 DEF Speaker
    <3> QED
      BY <1>2, <1>4, <1>10, <3>4 DEF GeminiTurnSays, IsSystem
  <2>13. CASE parts = <<>>
    <3>1. ReadChatTurn(named, m) = <<>>
      BY <2>10, <2>13, ItemsNone
    <3>2. c = contents
      BY <2>11, <2>13
    <3> QED
      BY <1>2, <1>4, <1>6, <1>10, <3>1, <3>2 DEF GeminiTurnSays, IsSystem
  <2> QED
    BY <2>12, <2>13
<1> QED
  BY <1>1, <1>7, <1>8, <1>9, <1>10

\* The contents, message after message.
LEMMA GeminiSums ==
  ASSUME NEW messages, Len(messages) \in Nat
  PROVE  \E u : /\ u[0] = <<>> /\ GeminiContents(messages) = u[Len(messages)]
                /\ \A i \in 1 .. Len(messages) : u[i] = GeminiTurn(u[i - 1], messages[i])
<1>1. PICK N : N = Len(messages)
  OBVIOUS
<1>2. N \in Nat
  BY <1>1
<1> DEFINE Is(n, f) == f = [i \in 0 .. n |-> IF i = 0 THEN <<>> ELSE GeminiTurn(f[i - 1], messages[i])]
           T == {n \in 0 .. N : \E f : Is(n, f)}
<1>3. 0 \in T
  <2>1. PICK e : e = <<>>
    OBVIOUS
  <2>2. PICK f : f = [i \in 0 .. 0 |-> e]
    OBVIOUS
  <2>3. \A i \in 0 .. 0 : i = 0
    OBVIOUS
  <2>4. f = [i \in 0 .. 0 |-> IF i = 0 THEN e ELSE GeminiTurn(f[i - 1], messages[i])]
    BY <2>2, <2>3
  <2>5. Is(0, f)
    BY <2>1, <2>4
  <2>6. 0 \in 0 .. N
    BY <1>2
  <2> HIDE DEF Is
  <2> QED
    BY <2>5, <2>6
<1>4. ASSUME NEW n \in 1 .. N, n - 1 \in T PROVE n \in T
  <2>1. PICK f : Is(n - 1, f)
    BY <1>4
  <2>2. PICK g : g = [i \in 0 .. n |-> IF i = n THEN GeminiTurn(f[n - 1], messages[n]) ELSE f[i]]
    OBVIOUS
  <2>3. PICK e, k : e = <<>> /\ k = n - 1
    OBVIOUS
  <2>4. k \in Nat /\ n = k + 1 /\ f = [i \in 0 .. k |-> IF i = 0 THEN e ELSE GeminiTurn(f[i - 1], messages[i])]
    BY <2>1, <2>3
  <2>5. \A i \in 0 .. k : i \in 0 .. n /\ i # n /\ g[i] = f[i]
    BY <2>2, <2>4
  <2>6. \A i \in 0 .. n : g[i] = IF i = 0 THEN e ELSE GeminiTurn(g[i - 1], messages[i])
    <3> SUFFICES ASSUME NEW i \in 0 .. n PROVE g[i] = IF i = 0 THEN e ELSE GeminiTurn(g[i - 1], messages[i])
      OBVIOUS
    <3>1. CASE i = n
      <4>1. g[i] = GeminiTurn(f[k], messages[i]) /\ i # 0 /\ i - 1 = k /\ k \in 0 .. k
        BY <2>2, <2>3, <2>4, <3>1
      <4>2. g[k] = f[k]
        BY <2>5, <4>1
      <4> QED
        BY <4>1, <4>2
    <3>2. CASE i # n /\ i # 0
      <4>1. i \in 0 .. k /\ i - 1 \in 0 .. k
        BY <2>4, <3>2
      <4>2. g[i] = f[i] /\ g[i - 1] = f[i - 1]
        BY <2>5, <4>1
      <4>3. f[i] = GeminiTurn(f[i - 1], messages[i])
        BY <2>4, <3>2, <4>1
      <4> QED
        BY <3>2, <4>2, <4>3
    <3>3. CASE i = 0 /\ i # n
      <4>1. 0 \in 0 .. k
        BY <2>4
      <4>2. f[0] = e
        BY <2>4, <4>1
      <4> QED
        BY <2>5, <3>3, <4>1, <4>2
    <3> QED
      BY <3>1, <3>2, <3>3
  <2>7. g = [i \in 0 .. n |-> g[i]]
    BY <2>2
  <2>8. g = [i \in 0 .. n |-> IF i = 0 THEN e ELSE GeminiTurn(g[i - 1], messages[i])]
    BY <2>6, <2>7
  <2>9. Is(n, g)
    BY <2>3, <2>8
  <2>10. n \in 0 .. N
    BY <1>2
  <2> HIDE DEF Is
  <2> QED
    BY <2>9, <2>10
<1>5. N \in T
  <2> HIDE DEF T
  <2>1. 0 .. N \subseteq T
    BY <1>2, <1>3, <1>4, UpTo
  <2> QED
    BY <1>2, <2>1
<1> DEFINE u == CHOOSE f : Is(N, f)
<1>6. GeminiContents(messages) = u[N]
  BY <1>1, Zenon DEF GeminiContents
<1> HIDE DEF Is
<1>7. Is(N, u)
  BY <1>5
<1> HIDE DEF u
<1>8. PICK v, e : v = u /\ e = <<>>
  OBVIOUS
<1>9. v = [i \in 0 .. N |-> IF i = 0 THEN e ELSE GeminiTurn(v[i - 1], messages[i])]
  BY <1>7, <1>8 DEF Is
<1>10. v[0] = e
  <2>1. 0 \in 0 .. N
    BY <1>2
  <2> QED
    BY <1>9, <2>1
<1>11. \A i \in 1 .. N : v[i] = GeminiTurn(v[i - 1], messages[i])
  <2> SUFFICES ASSUME NEW i \in 1 .. N PROVE v[i] = GeminiTurn(v[i - 1], messages[i])
    OBVIOUS
  <2>1. i \in 0 .. N /\ i # 0
    BY <1>2
  <2> QED
    BY <1>9, <2>1
<1> QED
  BY <1>1, <1>6, <1>8, <1>10, <1>11

\* Gemini's contents say what the messages have said, the system's left out.
LEMMA GeminiContentsRead ==
  ASSUME NEW messages, AreChat("gemini", messages), NEW o, o = OfOthers(TRUE, messages)
  PROVE  AreTurns(GeminiContents(messages)) /\ GeminiSaid(GeminiContents(messages)) = FlattenSeq(o)
<1>1. PICK d, named, N : d = "gemini" /\ named = TRUE /\ N = Len(messages)
  OBVIOUS
<1>2. IsSeqs(o)
  BY <1>1, ChatIsTwo
<1>3. N \in Nat /\ DOMAIN messages = 1 .. N /\ \A i \in 1 .. N : IsChatMessage("gemini", messages[i])
  <2>1. DOMAIN messages = 1 .. Len(messages) /\ Len(messages) \in Nat
    BY SeqHas DEF AreChat
  <2> QED
    BY <1>1, <2>1 DEF AreChat
<1>4. o = [i \in DOMAIN messages |-> IF IsSystem(messages[i]) THEN <<>> ELSE ReadChatTurn(named, messages[i])]
  BY <1>1 DEF OfOthers
<1>5. Len(o) = N
  <2>1. o = [i \in DOMAIN o |-> o[i]] /\ DOMAIN o = DOMAIN messages
    BY <1>4
  <2> QED
    BY <1>1, <2>1, EachIs DEF AreChat
<1>6. PICK w : Sums(o, w)
  BY <1>2, SumsExist
<1>7. w[0] = <<>> /\ FlattenSeq(o) = w[N] /\ \A i \in 1 .. N : w[i] = w[i - 1] \o o[i]
  BY <1>5, <1>6 DEF Sums
<1>8. PICK u : /\ u[0] = <<>> /\ GeminiContents(messages) = u[N]
               /\ \A i \in 1 .. N : u[i] = GeminiTurn(u[i - 1], messages[i])
  BY <1>1, <1>3, GeminiSums
<1> DEFINE T == {i \in 0 .. N : AreTurns(u[i]) /\ GeminiSaid(u[i]) = w[i]}
<1>9. ASSUME NEW i \in 1 .. N, i - 1 \in T PROVE i \in T
  <2>1. PICK p, m : p = u[i - 1] /\ m = messages[i]
    OBVIOUS
  <2>2. AreTurns(p) /\ GeminiSaid(p) = w[i - 1] /\ IsChatMessage("gemini", m)
    BY <1>3, <1>9, <2>1
  <2>3. GeminiTurnSays(p, m)
    BY <2>2, GeminiTurnRead
  <2>4. AreTurns(GeminiTurn(p, m)) /\ GeminiSaid(GeminiTurn(p, m)) = w[i - 1] \o o[i]
    <3>1. o[i] = IF IsSystem(m) THEN <<>> ELSE ReadChatTurn(TRUE, m)
      BY <1>1, <1>3, <1>4, <2>1
    <3> QED
      BY <2>2, <2>3, <3>1 DEF GeminiTurnSays
  <2>5. u[i] = GeminiTurn(p, m) /\ w[i] = w[i - 1] \o o[i] /\ i \in 0 .. N
    <3>1. u[i] = GeminiTurn(p, m)
      BY <1>8, <2>1
    <3>2. w[i] = w[i - 1] \o o[i]
      BY <1>7
    <3>3. i \in 0 .. N
      BY <1>3
    <3> QED
      BY <3>1, <3>2, <3>3
  <2>6. AreTurns(u[i]) /\ GeminiSaid(u[i]) = w[i]
    BY <2>4, <2>5
  <2> QED
    BY <2>5, <2>6
<1>10. 0 \in T
  <2>1. 0 \in 0 .. N
    BY <1>3
  <2> QED
    BY <1>7, <1>8, <2>1, GeminiNone
<1>11. N \in T
  <2> HIDE DEF T
  <2>1. 0 .. N \subseteq T
    BY <1>3, <1>9, <1>10, UpTo
  <2> QED
    BY <1>3, <2>1
<1>12. AreTurns(u[N]) /\ GeminiSaid(u[N]) = w[N]
  BY <1>11
<1> QED
  BY <1>7, <1>8, <1>12

\* The keys of what Gemini is asked that say the conversation.
LEMMA GeminiBodyIs ==
  ASSUME NEW b, Has(b, "messages"), NEW messages, messages = b.messages, NEW system,
         system = FlattenSeq([i \in DOMAIN messages |->
                    IF IsSystem(messages[i]) THEN GeminiText(TextOf(messages[i].content)) ELSE <<>>])
  PROVE  /\ Has(ToGemini(b), "contents") /\ ToGemini(b).contents = GeminiContents(messages)
         /\ Get(ToGemini(b), "systemInstruction", <<>>) = system
<1> DEFINE f == [contents |-> GeminiContents(messages)]
           s == When(system # <<>>, [systemInstruction |-> system])
           t == When(OpenTools(b), [tools |-> "gemini"])
           u == When(Has(b, "tool_choice"), [tool_choice |-> Choice(b)])
           body == ToGemini(b)
<1>1. body = ((f ++ s) ++ t) ++ u
  <2>1. system = OfSystem(messages, LAMBDA c : GeminiText(TextOf(c)))
    BY Zenon DEF FlatMap, MapSeq, OfSystem, When
  <2> QED
    BY <2>1, Zenon DEF ToGemini
<1>2. PICK e : e = <<>>
  OBVIOUS
<1>3. DOMAIN e = {}
  BY <1>2
<1>4. /\ Has(f, "contents") /\ f.contents = GeminiContents(messages) /\ ~Has(f, "systemInstruction")
      /\ Has(s, "systemInstruction") <=> system # e
      /\ system # e => s.systemInstruction = system
      /\ ~Has(t, "systemInstruction") /\ ~Has(u, "systemInstruction")
  BY <1>2, <1>3 DEF When, Has
<1> HIDE DEF f, s, t, u, body
<1>5. PICK g : g = f ++ s
  OBVIOUS
<1>6. PICK h : h = g ++ t
  OBVIOUS
<1>7. body = h ++ u
  BY <1>1, <1>5, <1>6
<1>8. Has(g, "contents") /\ g.contents = GeminiContents(messages) /\ (Has(g, "systemInstruction") <=> system # e)
      /\ (system # e => g.systemInstruction = system)
  BY <1>4, <1>5, OverIs
<1>9. Has(h, "contents") /\ h.contents = GeminiContents(messages) /\ (Has(h, "systemInstruction") <=> system # e)
      /\ (system # e => h.systemInstruction = system)
  BY <1>4, <1>6, <1>8, OverIs
<1>10. Has(body, "contents") /\ body.contents = GeminiContents(messages)
       /\ (Has(body, "systemInstruction") <=> system # e) /\ (system # e => body.systemInstruction = system)
  BY <1>4, <1>7, <1>9, OverIs
<1> QED
  BY <1>2, <1>10 DEF Get, body

\* What Gemini is asked is read in two parts.
LEMMA GeminiIsTwo ==
  ASSUME NEW body
  PROVE  ReadGemini(body) =
           ReadItems("system", "gemini", Get(body, "systemInstruction", <<>>)) \o GeminiSaid(body.contents)
BY Zenon DEF ReadGemini, GeminiSaid, Says, Speaker, FlatMap, MapSeq

\* A chat that is translated for Gemini says what it has said, calls by their names
\* (openai_to_gemini::translate_request).
LEMMA ToGeminiRead ==
  ASSUME NEW b, Has(b, "messages"), NEW messages, messages = b.messages, AreChat("gemini", messages)
  PROVE  ReadGemini(ToGemini(b)) = ReadChat(messages, TRUE)
<1>1. PICK body, d, named : body = ToGemini(b) /\ d = "gemini" /\ named = TRUE
  OBVIOUS
<1>2. PICK z : z = [i \in DOMAIN messages |->
                      IF IsSystem(messages[i]) THEN GeminiText(TextOf(messages[i].content)) ELSE <<>>]
  OBVIOUS
<1>3. PICK system : system = FlattenSeq(z)
  OBVIOUS
<1>4. /\ body.contents = GeminiContents(messages)
      /\ Get(body, "systemInstruction", <<>>) = system
  BY <1>1, <1>2, <1>3, GeminiBodyIs
<1>5. PICK s, o : s = OfSystems(named, messages) /\ o = OfOthers(named, messages)
  OBVIOUS
<1>6. IsSeqs(s) /\ IsSeqs(o) /\ ReadChat(messages, named) = FlattenSeq(s) \o FlattenSeq(o)
  BY <1>1, <1>5, ChatIsTwo
<1>7. /\ IsSeq(messages)
      /\ \A i \in DOMAIN messages : IsChatMessage(d, messages[i])
  BY <1>1 DEF AreChat
<1>8. PICK none : none = <<>>
  OBVIOUS
<1>9. AreItems(none) /\ \A who, in : ReadItems(who, in, none) = none
  BY <1>8, NoneIsSeq, ItemsNone DEF AreItems
<1>10. ReadItems("system", "gemini", system) = FlattenSeq(s)
  <2>1. ASSUME NEW i \in DOMAIN messages
        PROVE  AreItems(z[i]) /\ ReadItems("system", "gemini", z[i]) = s[i]
    <3>1. PICK m : m = messages[i]
      OBVIOUS
    <3>2. IsChatMessage(d, m)
      BY <1>7, <3>1
    <3>3. CASE IsSystem(m)
      <4>1. PICK in, c : in = "openai" /\ c = m.content
        OBVIOUS
      <4>2. m.role = "system" /\ IsContent(c, in, {"text"})
        BY <1>1, <3>2, <3>3, <4>1 DEF IsSystem, IsChatMessage, TextsOnly
      <4>3. ReadChatTurn(named, m) = ReadContent("system", in, c)
        BY <3>2, <3>3, <4>1, SystemTurnIs
      <4>4. ReadContent("system", in, c) = ReadText("system", TextOf(c)) /\ IsSeq(TextOf(c))
        BY <4>2, TextOfRead, TextOfIs
      <4>5. z[i] = GeminiText(TextOf(c)) /\ s[i] = ReadChatTurn(named, m)
        BY <1>2, <1>5, <3>1, <3>3, <4>1 DEF OfSystems
      <4> QED
        BY <4>3, <4>4, <4>5, GeminiTextRead
    <3>4. CASE ~IsSystem(m)
      <4>1. z[i] = none /\ s[i] = none
        BY <1>2, <1>5, <1>8, <3>1, <3>4 DEF OfSystems
      <4> QED
        BY <1>9, <4>1
    <3> QED
      BY <3>3, <3>4
  <2>2. IsSeq(z) /\ DOMAIN z = DOMAIN messages
    BY <1>2, <1>7, EachIs
  <2>3. ReadItems("system", "gemini", FlattenSeq(z)) =
          FlattenSeq([i \in DOMAIN z |-> ReadItems("system", "gemini", z[i])])
    BY <2>1, <2>2, ItemsFlatten
  <2>4. [i \in DOMAIN z |-> ReadItems("system", "gemini", z[i])] = s
    <3>1. s = [i \in DOMAIN messages |-> s[i]]
      BY <1>5 DEF OfSystems
    <3> QED
      BY <2>1, <2>2, <3>1
  <2> QED
    BY <1>3, <2>3, <2>4
<1>11. GeminiSaid(body.contents) = FlattenSeq(o)
  BY <1>1, <1>4, <1>5, GeminiContentsRead
<1>12. ReadGemini(body) = FlattenSeq(s) \o FlattenSeq(o)
  BY <1>4, <1>10, <1>11, GeminiIsTwo
<1> QED
  BY <1>1, <1>6, <1>12

-------------------------------------------------------------------------------
(***************************************************************************)
(* What is made for Responses, and what is sent                            *)
(***************************************************************************)
\* What is told of a conversation in Responses.
ToldOf(s) == FlattenSeq([i \in DOMAIN s |-> IF Told(s[i]) THEN <<s[i]>> ELSE <<>>])

AllNone(s) == IsSeq(s) /\ \A i \in DOMAIN s : s[i] = <<>>

\* A row of nothing is nothing.
LEMMA FlattenNothing == ASSUME NEW s, AllNone(s) PROVE FlattenSeq(s) = <<>>
<1>1. PICK N, e : N = Len(s) /\ e = <<>>
  OBVIOUS
<1>2. N \in Nat /\ DOMAIN s = 1 .. N /\ \A i \in 1 .. N : s[i] = e
  BY <1>1, SeqHas DEF AllNone
<1>3. IsSeqs(s)
  BY NoneIsSeq DEF IsSeqs, AllNone
<1>4. PICK w : Sums(s, w)
  BY <1>3, SumsExist
<1>5. w[0] = e /\ FlattenSeq(s) = w[N] /\ \A i \in 1 .. N : w[i] = w[i - 1] \o s[i]
  BY <1>1, <1>4 DEF Sums
<1> DEFINE T == {i \in 0 .. N : w[i] = e}
<1>6. ASSUME NEW i \in 1 .. N, i - 1 \in T PROVE i \in T
  <2>1. w[i] = e \o e
    <3>1. w[i - 1] = e
      BY <1>6
    <3> QED
      BY <1>2, <1>5, <3>1
  <2>2. e \o e = e
    BY <1>1, NoneIsSeq, JoinNone
  <2>3. i \in 0 .. N
    BY <1>2
  <2> QED
    BY <2>1, <2>2, <2>3
<1>7. 0 \in T
  BY <1>2, <1>5
<1>8. N \in T
  <2> HIDE DEF T
  <2>1. 0 .. N \subseteq T
    BY <1>2, <1>6, <1>7, UpTo
  <2> QED
    BY <1>2, <2>1
<1> QED
  BY <1>1, <1>5, <1>8

\* What is told of two that are joined, or of some in a row, is told of each.
LEMMA ToldIs ==
  ASSUME NEW X, NEW s \in Seq(X), NEW r, r = [t \in X |-> IF Told(t) THEN <<t>> ELSE <<>>]
  PROVE  ToldOf(s) = Through(r, s) /\ \A t \in X : IsSeq(r[t])
<1>1. \A i \in DOMAIN s : s[i] \in X
  OBVIOUS
<1>2. [i \in DOMAIN s |-> IF Told(s[i]) THEN <<s[i]>> ELSE <<>>] = [i \in DOMAIN s |-> r[s[i]]]
  BY <1>1
<1>3. \A t \in X : IsSeq(r[t])
  BY NoneIsSeq, OneIsSeq
<1> QED
  BY <1>2, <1>3 DEF ToldOf, Through

LEMMA ToldJoin ==
  ASSUME NEW p, NEW q, IsSeq(p), IsSeq(q)
  PROVE  ToldOf(p \o q) = ToldOf(p) \o ToldOf(q) /\ IsSeq(ToldOf(p))
<1>1. PICK X : X = Range(p) \cup Range(q)
  OBVIOUS
<1>2. p \in Seq(X) /\ q \in Seq(X)
  BY <1>1, SeqIn
<1>3. PICK r : r = [t \in X |-> IF Told(t) THEN <<t>> ELSE <<>>]
  OBVIOUS
<1>4. PICK l : l = p \o q
  OBVIOUS
<1>5. l \in Seq(X)
  BY <1>2, <1>4
<1>6. /\ ToldOf(p) = Through(r, p) /\ ToldOf(q) = Through(r, q) /\ ToldOf(l) = Through(r, l)
      /\ \A t \in X : IsSeq(r[t])
  BY <1>2, <1>3, <1>5, ToldIs
<1>7. Through(r, p \o q) = Through(r, p) \o Through(r, q)
  BY <1>2, <1>6, ThroughJoin
<1>8. IsSeq(Through(r, p))
  BY <1>2, <1>6, ThroughSeq
<1> QED
  BY <1>4, <1>6, <1>7, <1>8

LEMMA ToldFlatten ==
  ASSUME NEW s, IsSeqs(s)
  PROVE  ToldOf(FlattenSeq(s)) = FlattenSeq([i \in DOMAIN s |-> ToldOf(s[i])])
<1>1. PICK X : X = UNION {Range(s[i]) : i \in DOMAIN s}
  OBVIOUS
<1>2. \A i \in DOMAIN s : s[i] \in Seq(X)
  <2> SUFFICES ASSUME NEW i \in DOMAIN s PROVE s[i] \in Seq(X)
    OBVIOUS
  <2>1. Range(s[i]) \subseteq X /\ IsSeq(s[i])
    BY <1>1 DEF IsSeqs
  <2> QED
    BY <2>1, SeqIn
<1>3. s \in Seq(Seq(X))
  <2>1. Range(s) \subseteq Seq(X)
    BY <1>2 DEF Range
  <2> QED
    BY <2>1, SeqIn DEF IsSeqs
<1>4. PICK r : r = [t \in X |-> IF Told(t) THEN <<t>> ELSE <<>>]
  OBVIOUS
<1>5. \A t \in X : IsSeq(r[t])
  <2>1. <<>> \in Seq(X)
    OBVIOUS
  <2> QED
    BY <1>4, <2>1, ToldIs
<1>6. PICK l : l = FlattenSeq(s)
  OBVIOUS
<1>7. l \in Seq(X) /\ Through(r, l) = FlattenSeq([i \in DOMAIN s |-> Through(r, s[i])])
  BY <1>3, <1>5, <1>6, ThroughAll, ZenonT(60)
<1>8. ToldOf(l) = Through(r, l)
  BY <1>4, <1>7, ToldIs
<1>9. [i \in DOMAIN s |-> ToldOf(s[i])] = [i \in DOMAIN s |-> Through(r, s[i])]
  <2>1. \A i \in DOMAIN s : ToldOf(s[i]) = Through(r, s[i])
    BY <1>2, <1>4, ToldIs
  <2> QED
    BY <2>1
<1> QED
  BY <1>6, <1>7, <1>8, <1>9

AllTold(s)  == IsSeq(s) /\ \A i \in DOMAIN s : Told(s[i])
NoneTold(s) == IsSeq(s) /\ \A i \in DOMAIN s : ~Told(s[i])

\* All is told, or nothing.
LEMMA ToldWhole == ASSUME NEW s, AllTold(s) PROVE ToldOf(s) = s
<1>1. [i \in DOMAIN s |-> IF Told(s[i]) THEN <<s[i]>> ELSE <<>>] = [i \in DOMAIN s |-> <<s[i]>>]
  BY DEF AllTold
<1>2. FlattenSeq([i \in DOMAIN s |-> <<s[i]>>]) = s
  BY FlattenAlone DEF AllTold
<1> QED
  BY <1>1, <1>2 DEF ToldOf

LEMMA ToldNothing == ASSUME NEW s, NoneTold(s) PROVE ToldOf(s) = <<>>
<1>1. PICK f : f = [i \in DOMAIN s |-> IF Told(s[i]) THEN <<s[i]>> ELSE <<>>]
  OBVIOUS
<1>2. IsSeq(f)
  BY <1>1, EachIs DEF NoneTold
<1>3. AllNone(f)
  BY <1>1, <1>2 DEF NoneTold, AllNone
<1> QED
  BY <1>1, <1>3, FlattenNothing DEF ToldOf

LEMMA ToldEmpty == ToldOf(<<>>) = <<>>
<1>1. PICK e : e = <<>>
  OBVIOUS
<1>2. NoneTold(e)
  BY <1>1, NoneIsSeq DEF NoneTold
<1> QED
  BY <1>1, <1>2, ToldNothing

\* To Responses the tool does not speak if the client has called messages.
Speaking(who) == endpoint = "messages" => who # "tool"

\* A text is told; an image, a call and a result are not.
LEMMA ToldText == ASSUME NEW who, Speaking(who), NEW t, IsSeq(t) PROVE ToldOf(ReadText(who, t)) = ReadText(who, t)
<1>1. PICK f : f = ReadText(who, t)
  OBVIOUS
<1>2. IsSeq(f) /\ f = [i \in DOMAIN t |-> <<who, "text", t[i]>>]
  BY <1>1, TextIs
<1>3. AllTold(f)
  BY <1>2 DEF AllTold, Told, Speaking
<1> QED
  BY <1>1, <1>3, ToldWhole

LEMMA ToldOne ==
  ASSUME NEW who, NEW what, NEW n, what # "text"
  PROVE  ToldOf(<<<<who, what, n>>>>) = <<>>
<1>1. PICK t : t = <<who, what, n>>
  OBVIOUS
<1>2. ~Told(t)
  BY <1>1 DEF Told
<1>3. PICK s : s = <<t>>
  OBVIOUS
<1>4. IsSeq(s) /\ DOMAIN s = {1} /\ s[1] = t
  <2>1. IsSeq(s) /\ Len(s) = 1 /\ s[1] = t
    BY <1>3, OneIsSeq
  <2> QED
    BY <2>1, SeqHas
<1>5. NoneTold(s)
  BY <1>2, <1>4 DEF NoneTold
<1> QED
  BY <1>1, <1>3, <1>5, ToldNothing

LEMMA ToldCalling == ASSUME NEW named, NEW calls, IsSeq(calls) PROVE ToldOf(Calling(named, calls)) = <<>>
<1>1. PICK f : f = Calling(named, calls)
  OBVIOUS
<1>2. IsSeq(f) /\ f = [i \in DOMAIN calls |-> <<"assistant", "call", Called(named, calls[i])>>]
  <2>1. IsSeq(Calling(named, calls))
    BY CallingIs
  <2> QED
    BY <1>1, <2>1 DEF Calling
<1>3. NoneTold(f)
  BY <1>2 DEF NoneTold, Told
<1> QED
  BY <1>1, <1>3, ToldNothing

\* What Responses is told of an item of another dialect.
Rewritten(x) == IF x.kind = "text" THEN [x EXCEPT !.in = "responses"] ELSE x

\* An item as it is written for Responses says what is told of it.
LEMMA ToldItem ==
  ASSUME NEW who, Speaking(who), NEW in, in # "responses", NEW kinds, kinds \subseteq {"text", "image", "call", "result"},
         "result" \in kinds => endpoint = "messages", NEW x, Fits(x, in, kinds), NEW y, y = Rewritten(x)
  PROVE  /\ IsSeq(y.text) /\ ReadItem(who, "responses", y) = ToldOf(ReadItem(who, in, x))
         /\ ToldOf(ReadItem(who, in, x)) = ReadText(who, TextIn(x))
<1>1. {"kind", "in", "text"} \subseteq DOMAIN x /\ x.in = in /\ x.kind \in kinds /\ IsSeq(x.text)
  BY DEF Fits
<1>2. CASE x.kind = "text"
  <2>1. y = [x EXCEPT !.in = "responses"]
    BY <1>2 DEF Rewritten
  <2>2. y.text = x.text /\ ReadItem(who, "responses", y) = ReadItem(who, in, x)
    BY <1>1, <1>2, <2>1, MovedIs
  <2>3. ReadItem(who, in, x) = ReadText(who, x.text)
    BY <1>1, <1>2 DEF ReadItem
  <2> QED
    BY <1>1, <1>2, <2>2, <2>3, ToldText DEF TextIn
<1>3. CASE x.kind # "text"
  <2>1. y = x /\ x.in # "responses"
    BY <1>1, <1>3 DEF Rewritten
  <2>2. PICK e : e = <<>>
    OBVIOUS
  <2>3. ReadItem(who, "responses", y) = e
    BY <2>1, <2>2 DEF ReadItem
  <2>4. ToldOf(ReadItem(who, in, x)) = e
    <3>1. PICK n, t : n = (IF in = "gemini" THEN x.name ELSE x.of) /\ t = x.text
      OBVIOUS
    <3>2. CASE x.kind = "image"
      <4>1. ReadItem(who, in, x) = <<<<who, "image", t>>>>
        BY <1>1, <3>1, <3>2 DEF ReadItem
      <4> QED
        BY <2>2, <4>1, ToldOne
    <3>3. CASE x.kind = "call"
      <4>1. ReadItem(who, in, x) = <<<<"assistant", "call", n>>>>
        BY <1>1, <3>1, <3>3 DEF ReadItem
      <4> QED
        BY <2>2, <4>1, ToldOne
    <3>4. CASE x.kind = "result"
      <4>1. ReadItem(who, in, x) = <<<<"tool", "result", n>>>> \o ReadText("tool", t)
        BY <1>1, <3>1, <3>4 DEF ReadItem
      <4>2. endpoint = "messages"
        BY <1>1, <3>4
      <4>3. PICK f, g : f = <<<<"tool", "result", n>>>> /\ g = ReadText("tool", t)
        OBVIOUS
      <4>4. IsSeq(f) /\ ToldOf(f) = e
        BY <2>2, <4>3, OneIsSeq, ToldOne
      <4>5. IsSeq(g) /\ g = [i \in DOMAIN t |-> <<"tool", "text", t[i]>>]
        BY <1>1, <3>1, <4>3, TextIs
      <4>6. NoneTold(g)
        BY <4>2, <4>5 DEF NoneTold, Told
      <4>7. ToldOf(g) = e
        BY <2>2, <4>6, ToldNothing
      <4>8. ToldOf(f \o g) = ToldOf(f) \o ToldOf(g)
        BY <4>4, <4>5, ToldJoin
      <4>9. e \o e = e
        BY <2>2, NoneIsSeq, JoinNone
      <4> QED
        BY <4>1, <4>3, <4>4, <4>7, <4>8, <4>9
    <3> QED
      BY <1>1, <1>3, <3>2, <3>3, <3>4
  <2>5. ReadText(who, TextIn(x)) = e
    BY <1>3, <2>2, TextNone DEF TextIn
  <2> QED
    BY <1>1, <2>1, <2>3, <2>4, <2>5
<1> QED
  BY <1>2, <1>3

\* The kinds of items, of which results are told by a client of messages only.
ToldKinds(kinds) == kinds \subseteq {"text", "image", "call", "result"} /\ ("result" \in kinds => endpoint = "messages")

\* Responses is told the texts of content of another dialect.
LEMMA ToldContent ==
  ASSUME NEW who, Speaking(who), NEW in, in # "responses", NEW kinds, ToldKinds(kinds), NEW c, IsContent(c, in, kinds)
  PROVE  /\ AreItems(InputItems(c))
         /\ ReadItems(who, "responses", InputItems(c)) = ToldOf(ReadContent(who, in, c))
         /\ ToldOf(ReadContent(who, in, c)) = ReadText(who, TextOf(c)) /\ IsSeq(TextOf(c))
<1>1. CASE c.form = "string"
  <2>1. PICK t : t = c.text
    OBVIOUS
  <2>2. InputItems(c) = <<Item("text", "responses", t)>> /\ TextOf(c) = t
    BY <1>1, <2>1 DEF InputItems, TextOf
  <2>3. IsSeq(t) /\ ReadContent(who, in, c) = ReadText(who, t)
    BY <1>1, <2>1, ContentIs
  <2> QED
    BY <2>2, <2>3, ItemTextIs, ToldText
<1>2. CASE c.form = "null"
  <2>1. PICK e : e = <<>>
    OBVIOUS
  <2>2. InputItems(c) = e /\ TextOf(c) = e /\ ReadContent(who, in, c) = e
    BY <1>2, <2>1, ContentIs DEF InputItems, TextOf
  <2>3. AreItems(e) /\ IsSeq(e)
    BY <2>1, NoneIsSeq DEF AreItems
  <2> QED
    BY <2>1, <2>2, <2>3, ItemsNone, TextNone, ToldEmpty
<1>3. CASE c.form = "array"
  <2>1. PICK items : items = c.items
    OBVIOUS
  <2>2. /\ AreItems(items) /\ ReadContent(who, in, c) = ReadItems(who, in, items)
        /\ \A i \in DOMAIN items : Fits(items[i], in, kinds)
    BY <1>3, <2>1, ContentIs
  <2>3. PICK moved, texts : /\ moved = [i \in DOMAIN items |-> Rewritten(items[i])]
                            /\ texts = [i \in DOMAIN items |-> TextIn(items[i])]
    OBVIOUS
  <2>4. InputItems(c) = moved
    BY <1>3, <2>1, <2>3, Zenon DEF InputItems, MapSeq, Rewritten
  <2>5. TextOf(c) = FlattenSeq(texts) /\ IsSeqs(texts)
    BY <1>3, <2>1, <2>2, <2>3, TextsAre DEF TextOf
  <2>6. ASSUME NEW i \in DOMAIN items
        PROVE  /\ IsSeq(moved[i].text)
               /\ ReadItem(who, "responses", moved[i]) = ToldOf(ReadItem(who, in, items[i]))
               /\ ToldOf(ReadItem(who, in, items[i])) = ReadText(who, texts[i])
    <3>1. PICK x, y : x = items[i] /\ y = Rewritten(x)
      OBVIOUS
    <3>2. Fits(x, in, kinds) /\ kinds \subseteq {"text", "image", "call", "result"}
          /\ ("result" \in kinds => endpoint = "messages")
      BY <2>2, <3>1 DEF ToldKinds
    <3>3. /\ IsSeq(y.text) /\ ReadItem(who, "responses", y) = ToldOf(ReadItem(who, in, x))
          /\ ToldOf(ReadItem(who, in, x)) = ReadText(who, TextIn(x))
      BY <3>1, <3>2, ToldItem, ZenonT(60)
    <3> QED
      BY <2>3, <3>1, <3>3
  <2>7. AreItems(moved)
    <3>1. DOMAIN moved = DOMAIN items /\ moved = [i \in DOMAIN moved |-> moved[i]]
      BY <2>3
    <3>2. IsSeq(moved)
      BY <2>2, <3>1, EachIs DEF AreItems
    <3> QED
      BY <2>6, <3>1, <3>2 DEF AreItems
  <2>8. PICK f : f = [i \in DOMAIN items |-> ReadItem(who, in, items[i])]
    OBVIOUS
  <2>9. IsSeqs(f) /\ ReadItems(who, in, items) = FlattenSeq(f)
    BY <2>2, <2>8, ItemsRead
  <2>10. ToldOf(FlattenSeq(f)) = FlattenSeq([i \in DOMAIN f |-> ToldOf(f[i])])
    BY <2>9, ToldFlatten
  <2>11. ReadItems(who, "responses", moved) = FlattenSeq([i \in DOMAIN moved |-> ReadItem(who, "responses", moved[i])])
    BY <2>7, ItemsRead
  <2>12. ReadText(who, FlattenSeq(texts)) = FlattenSeq([i \in DOMAIN texts |-> ReadText(who, texts[i])])
    BY <2>5, TextFlatten
  <2>13. [i \in DOMAIN f |-> ToldOf(f[i])] = [i \in DOMAIN moved |-> ReadItem(who, "responses", moved[i])]
    BY <2>3, <2>6, <2>8
  <2>14. [i \in DOMAIN f |-> ToldOf(f[i])] = [i \in DOMAIN texts |-> ReadText(who, texts[i])]
    BY <2>3, <2>6, <2>8
  <2>15. IsSeq(TextOf(c))
    BY TextOfIs
  <2> QED
    BY <2>2, <2>4, <2>5, <2>7, <2>9, <2>10, <2>11, <2>12, <2>13, <2>14, <2>15
<1> QED
  BY <1>1, <1>2, <1>3, ContentIs

\* Content that is Responses' already stays what it is.
LEMMA SameContent ==
  ASSUME NEW who, NEW c, IsContent(c, "responses", {"text", "image"})
  PROVE  /\ AreItems(InputItems(c))
         /\ ReadItems(who, "responses", InputItems(c)) = ReadContent(who, "responses", c)
<1>1. PICK in, kinds : in = "responses" /\ kinds = {"text", "image"}
  OBVIOUS
<1>2. IsContent(c, in, kinds)
  BY <1>1
<1>3. CASE c.form = "string"
  <2>1. PICK t : t = c.text
    OBVIOUS
  <2>2. InputItems(c) = <<Item("text", "responses", t)>>
    BY <1>3, <2>1 DEF InputItems
  <2>3. IsSeq(t) /\ ReadContent(who, in, c) = ReadText(who, t)
    BY <1>2, <1>3, <2>1, ContentIs
  <2> QED
    BY <1>1, <2>2, <2>3, ItemTextIs
<1>4. CASE c.form = "null"
  <2>1. PICK e : e = <<>>
    OBVIOUS
  <2>2. InputItems(c) = e /\ ReadContent(who, in, c) = e
    BY <1>2, <1>4, <2>1, ContentIs DEF InputItems
  <2>3. AreItems(e)
    BY <2>1, NoneIsSeq DEF AreItems
  <2> QED
    BY <1>1, <2>1, <2>2, <2>3, ItemsNone
<1>5. CASE c.form = "array"
  <2>1. PICK items : items = c.items
    OBVIOUS
  <2>2. /\ AreItems(items) /\ ReadContent(who, in, c) = ReadItems(who, in, items)
        /\ \A i \in DOMAIN items : Fits(items[i], in, kinds)
    BY <1>2, <1>5, <2>1, ContentIs
  <2>3. PICK moved : moved = [i \in DOMAIN items |-> Rewritten(items[i])]
    OBVIOUS
  <2>4. InputItems(c) = moved
    BY <1>5, <2>1, <2>3, Zenon DEF InputItems, MapSeq, Rewritten
  <2>5. ASSUME NEW i \in DOMAIN items
        PROVE  IsSeq(moved[i].text) /\ ReadItem(who, in, moved[i]) = ReadItem(who, in, items[i])
    <3>1. PICK x, y : x = items[i] /\ y = Rewritten(x)
      OBVIOUS
    <3>2. {"kind", "in", "text"} \subseteq DOMAIN x /\ x.kind \in {"text", "image"} /\ x.in = in /\ IsSeq(x.text)
      BY <1>1, <2>2, <3>1 DEF Fits
    <3>3. y.text = x.text /\ ReadItem(who, in, y) = ReadItem(who, in, x)
      <4>1. CASE x.kind = "text"
        <5>1. y = [x EXCEPT !.in = in]
          BY <1>1, <3>1, <4>1 DEF Rewritten
        <5> QED
          BY <3>2, <5>1, MovedIs
      <4>2. CASE x.kind # "text"
        BY <3>1, <4>2 DEF Rewritten
      <4> QED
        BY <4>1, <4>2
    <3> QED
      BY <2>3, <3>1, <3>2, <3>3
  <2>6. DOMAIN moved = DOMAIN items /\ moved = [i \in DOMAIN moved |-> moved[i]]
    BY <2>3
  <2>7. AreItems(moved) /\ ReadItems(who, in, moved) = ReadItems(who, in, items)
    BY <2>2, <2>5, <2>6, EachReads
  <2> QED
    BY <1>1, <2>2, <2>4, <2>7
<1> QED
  BY <1>2, <1>3, <1>4, <1>5, ContentIs

\* What an input says, after the instructions.
InputSaid(items) ==
  FlattenSeq([i \in DOMAIN items |-> ReadContent(Get(items[i], "role", "user"), "responses", items[i].content)])

\* What Responses is asked is read in two parts: the instructions and the input.
LEMMA InputIsTwo ==
  ASSUME NEW body, NEW items, body.input = Arr(items)
  PROVE  ReadInput(body) = ReadText("system", Get(body, "instructions", <<>>)) \o InputSaid(items)
<1>1. body.input.form = "array" /\ body.input.items = items
  BY DEF Arr
<1>2. InputSaid(items) = FlatMap(items, LAMBDA m : ReadContent(Get(m, "role", "user"), "responses", m.content))
  BY Zenon DEF InputSaid, FlatMap, MapSeq
<1>3. PICK said : said = FlatMap(items, LAMBDA m : ReadContent(Get(m, "role", "user"), "responses", m.content))
  OBVIOUS
<1>4. ReadInput(body) = ReadText("system", Get(body, "instructions", <<>>)) \o
        CASE body.input.form = "string" -> ReadContent("user", "responses", body.input)
          [] body.input.form = "array"  -> said
  BY <1>1, <1>3, Zenon DEF ReadInput
<1>5. (CASE body.input.form = "string" -> ReadContent("user", "responses", body.input)
         [] body.input.form = "array"  -> said) = said
  BY <1>1
<1> QED
  BY <1>2, <1>3, <1>4, <1>5

\* What the messages of an input are to say, those of the system left out.
AreSaid(messages, o) ==
  /\ IsSeq(messages) /\ DOMAIN o = DOMAIN messages /\ o = [i \in DOMAIN o |-> o[i]]
  /\ \A i \in DOMAIN messages :
       IF IsSystem(messages[i]) THEN o[i] = <<>>
       ELSE /\ AreItems(InputItems(messages[i].content))
            /\ o[i] = ReadItems(messages[i].role, "responses", InputItems(messages[i].content))

\* A message of an input, from the one it is made of.
InputMessage(m) == [typed |-> TRUE, role |-> m.role, content |-> Arr(InputItems(m.content))]

\* A message of an input says what its content says.
LEMMA InputMessageRead ==
  ASSUME NEW m, AreItems(InputItems(m.content)), NEW t, t = InputMessage(m)
  PROVE  /\ ReadContent(Get(t, "role", "user"), "responses", t.content) =
              ReadItems(m.role, "responses", InputItems(m.content))
         /\ IsSeq(ReadItems(m.role, "responses", InputItems(m.content)))
         /\ Has(t, "typed")
<1>1. PICK items : items = InputItems(m.content)
  OBVIOUS
<1>2. Has(t, "role") /\ t.role = m.role /\ Has(t, "typed") /\ t.content = Arr(items)
  BY <1>1 DEF InputMessage, Has
<1>3. t.content.form = "array" /\ t.content.items = items
  BY <1>2 DEF Arr
<1>4. ReadContent(m.role, "responses", t.content) = ReadItems(m.role, "responses", items)
  BY <1>3 DEF ReadContent
<1>5. Get(t, "role", "user") = m.role
  BY <1>2 DEF Get
<1>6. IsSeq(ReadItems(m.role, "responses", items))
  BY <1>1, ItemsRead
<1> QED
  BY <1>1, <1>2, <1>4, <1>5, <1>6

\* An input that is made of messages says what they are to say.
LEMMA InputMessagesRead ==
  ASSUME NEW messages, NEW o, AreSaid(messages, o), NEW input, input = InputMessages(messages)
  PROVE  /\ IsSeq(input) /\ (\A i \in DOMAIN input : Has(input[i], "typed"))
         /\ IsSeqs(o) /\ InputSaid(input) = FlattenSeq(o)
         /\ (\E i \in DOMAIN messages : ~IsSystem(messages[i])) => input # <<>>
<1>1. PICK q, none : /\ q = [i \in DOMAIN messages |-> IF IsSystem(messages[i]) THEN <<>>
                                                       ELSE <<InputMessage(messages[i])>>]
                     /\ none = <<>>
  OBVIOUS
<1>2. input = FlattenSeq(q)
  <2>1. q = [i \in DOMAIN messages |-> IF ~IsSystem(messages[i]) THEN <<InputMessage(messages[i])>> ELSE <<>>]
    BY <1>1, Zenon
  <2> QED
    BY <2>1, Zenon DEF InputMessages, FlatMap, MapSeq, When, InputMessage
<1>3. IsSeq(messages) /\ DOMAIN o = DOMAIN messages /\ o = [i \in DOMAIN messages |-> o[i]]
  BY DEF AreSaid
<1>4. ASSUME NEW i \in DOMAIN messages
      PROVE  \/ q[i] = none /\ o[i] = none
             \/ /\ ~IsSystem(messages[i]) /\ q[i] = <<InputMessage(messages[i])>>
                /\ AreItems(InputItems(messages[i].content))
                /\ o[i] = ReadItems(messages[i].role, "responses", InputItems(messages[i].content))
  BY <1>1 DEF AreSaid
<1>5. PICK D : D = UNION {Range(q[i]) : i \in DOMAIN messages}
  OBVIOUS
<1>6. IsSeq(q) /\ DOMAIN q = DOMAIN messages
  BY <1>1, <1>3, EachIs
<1>7. \A i \in DOMAIN messages : IsSeq(q[i])
  BY <1>1, NoneIsSeq, OneIsSeq
<1>8. q \in Seq(Seq(D))
  <2>1. ASSUME NEW i \in DOMAIN messages PROVE q[i] \in Seq(D)
    <3>1. Range(q[i]) \subseteq D
      BY <1>5
    <3> QED
      BY <1>7, <3>1, SeqIn
  <2>2. Range(q) \subseteq Seq(D)
    BY <1>6, <2>1 DEF Range
  <2> QED
    BY <1>6, <2>2, SeqIn
<1>9. PICK r : r = [t \in D |-> ReadContent(Get(t, "role", "user"), "responses", t.content)]
  OBVIOUS
<1>10. ASSUME NEW t \in D
       PROVE  \E i \in DOMAIN messages : t = InputMessage(messages[i]) /\ AreItems(InputItems(messages[i].content))
  <2>1. PICK i \in DOMAIN messages : t \in Range(q[i])
    BY <1>5
  <2>2. q[i] # none
    BY <1>1, <2>1 DEF Range
  <2>3. PICK x : x = InputMessage(messages[i])
    OBVIOUS
  <2>4. q[i] = <<x>> /\ AreItems(InputItems(messages[i].content))
    BY <1>4, <2>2, <2>3
  <2>5. DOMAIN q[i] = {1} /\ q[i][1] = x
    BY <2>4
  <2>6. t = x
    BY <2>1, <2>5 DEF Range
  <2> QED
    BY <2>3, <2>4, <2>6
<1>11. \A t \in D : IsSeq(r[t]) /\ Has(t, "typed")
  <2> SUFFICES ASSUME NEW t \in D PROVE IsSeq(r[t]) /\ Has(t, "typed")
    OBVIOUS
  <2>1. PICK i \in DOMAIN messages : t = InputMessage(messages[i]) /\ AreItems(InputItems(messages[i].content))
    BY <1>10
  <2>2. PICK m : m = messages[i]
    OBVIOUS
  <2>3. t = InputMessage(m) /\ AreItems(InputItems(m.content))
    BY <2>1, <2>2
  <2> QED
    BY <1>9, <2>3, InputMessageRead
<1>12. ASSUME NEW i \in DOMAIN messages PROVE Through(r, q[i]) = o[i]
  <2>1. CASE q[i] = none /\ o[i] = none
    BY <1>1, <2>1, ThroughNone
  <2>2. CASE /\ ~IsSystem(messages[i]) /\ q[i] = <<InputMessage(messages[i])>>
             /\ AreItems(InputItems(messages[i].content))
             /\ o[i] = ReadItems(messages[i].role, "responses", InputItems(messages[i].content))
    <3>1. PICK m, t, w : m = messages[i] /\ t = InputMessage(m) /\ w = q[i]
      OBVIOUS
    <3>2. /\ w = <<t>> /\ AreItems(InputItems(m.content))
          /\ o[i] = ReadItems(m.role, "responses", InputItems(m.content))
      BY <2>2, <3>1
    <3>3. t \in D
      <4>1. i \in DOMAIN q
        BY <1>6
      <4>2. q[i] \in Seq(D)
        BY <1>8, <4>1
      <4>3. w \in Seq(D)
        BY <3>1, <4>2
      <4>4. 1 \in 1 .. Len(w) /\ w[1] = t
        BY <3>2
      <4>5. w[1] \in D
        BY <4>3, <4>4
      <4> QED
        BY <4>4, <4>5
    <3>4. Through(r, <<t>>) = r[t]
      BY ThroughOne
    <3>5. r[t] = ReadItems(m.role, "responses", InputItems(m.content))
      BY <1>9, <3>1, <3>2, <3>3, InputMessageRead
    <3> QED
      BY <3>1, <3>2, <3>4, <3>5
  <2> QED
    BY <1>4, <2>1, <2>2
<1>13. input \in Seq(D) /\ Through(r, input) = FlattenSeq(o)
  <2>1. /\ FlattenSeq(q) \in Seq(D)
        /\ Through(r, FlattenSeq(q)) = FlattenSeq([i \in DOMAIN q |-> Through(r, q[i])])
    BY <1>8, <1>11, ThroughAll, ZenonT(60)
  <2>2. [i \in DOMAIN q |-> Through(r, q[i])] = o
    BY <1>3, <1>6, <1>12
  <2> QED
    BY <1>2, <2>1, <2>2
<1>14. InputSaid(input) = Through(r, input)
  <2>1. \A i \in DOMAIN input : input[i] \in D
    BY <1>13
  <2>2. [i \in DOMAIN input |-> ReadContent(Get(input[i], "role", "user"), "responses", input[i].content)]
        = [i \in DOMAIN input |-> r[input[i]]]
    BY <1>9, <2>1
  <2> QED
    BY <2>2 DEF InputSaid, Through
<1>15. IsSeqs(o)
  <2>1. IsSeq(o)
    BY <1>3, EachIs
  <2>2. \A i \in DOMAIN o : IsSeq(o[i])
    <3> SUFFICES ASSUME NEW i \in DOMAIN messages PROVE IsSeq(o[i])
      BY <1>3
    <3>1. CASE IsSystem(messages[i])
      <4>1. o[i] = <<>>
        BY <3>1 DEF AreSaid
      <4> QED
        BY <4>1, NoneIsSeq
    <3>2. CASE ~IsSystem(messages[i])
      <4>1. PICK items, role : items = InputItems(messages[i].content) /\ role = messages[i].role
        OBVIOUS
      <4>2. AreItems(items) /\ o[i] = ReadItems(role, "responses", items)
        BY <3>2, <4>1 DEF AreSaid
      <4>3. IsSeq(ReadItems(role, "responses", items))
        BY <4>2, ItemsRead
      <4> QED
        BY <4>2, <4>3
    <3> QED
      BY <3>1, <3>2
  <2> QED
    BY <2>1, <2>2 DEF IsSeqs
<1>16. IsSeq(input) /\ \A i \in DOMAIN input : Has(input[i], "typed")
  <2>1. \A i \in DOMAIN input : input[i] \in D
    BY <1>13
  <2> QED
    BY <1>11, <1>13, <2>1, SeqIs
<1>17. ASSUME NEW i \in DOMAIN messages, ~IsSystem(messages[i]) PROVE input # <<>>
  <2>1. PICK N : N = Len(q)
    OBVIOUS
  <2>2. N \in Nat /\ DOMAIN q = 1 .. N
    BY <1>6, <2>1, SeqHas
  <2>3. IsSeqs(q)
    BY <1>6, <1>7 DEF IsSeqs
  <2>4. PICK w : Sums(q, w)
    BY <2>3, SumsExist
  <2>5. /\ FlattenSeq(q) = w[N] /\ (\A j \in 0 .. N : IsSeq(w[j]))
        /\ \A j \in 1 .. N : w[j] = w[j - 1] \o q[j]
    BY <2>1, <2>4 DEF Sums
  <2>6. i \in 1 .. N
    BY <1>6, <2>2
  <2> DEFINE T == {j \in 0 .. N : j < i \/ Len(w[j]) > 0}
  <2>7. ASSUME NEW j \in 1 .. N, j - 1 \in T PROVE j \in T
    <3>1. j \in 0 .. N /\ j - 1 \in 0 .. N
      BY <2>2
    <3>2. PICK a, b : a = w[j - 1] /\ b = q[j]
      OBVIOUS
    <3>3. IsSeq(a) /\ IsSeq(b) /\ Len(a) \in Nat /\ Len(b) \in Nat
      <4>1. IsSeq(a) /\ IsSeq(b)
        BY <1>6, <1>7, <2>2, <2>5, <3>1, <3>2
      <4> QED
        BY <4>1, SeqHas
    <3>4. w[j] = a \o b
      BY <2>5, <3>2
    <3>5. Len(a \o b) = Len(a) + Len(b)
      BY <3>3, JoinIsSeq
    <3>6. CASE j < i
      BY <3>1, <3>6
    <3>7. CASE j = i
      <4>1. Len(b) = 1
        <5>1. b = <<InputMessage(messages[i])>>
          BY <1>1, <1>17, <3>2, <3>7
        <5> QED
          BY <5>1, OneIsSeq
      <4>2. Len(w[j]) > 0
        BY <3>3, <3>4, <3>5, <4>1
      <4> QED
        BY <3>1, <4>2
    <3>8. CASE j > i
      <4>1. Len(a) > 0
        <5>1. ~(j - 1 < i)
          BY <2>2, <2>6, <3>8
        <5> QED
          BY <2>7, <3>2, <5>1
      <4>2. Len(w[j]) > 0
        BY <3>3, <3>4, <3>5, <4>1
      <4> QED
        BY <3>1, <4>2
    <3>9. j < i \/ j = i \/ j > i
      BY <2>2, <2>6
    <3> QED
      BY <3>6, <3>7, <3>8, <3>9
  <2>8. 0 \in T
    BY <2>2, <2>6
  <2>9. N \in T
    <3> HIDE DEF T
    <3>1. 0 .. N \subseteq T
      BY <2>2, <2>7, <2>8, UpTo
    <3> QED
      BY <2>2, <3>1
  <2>10. Len(w[N]) > 0
    BY <2>2, <2>6, <2>9
  <2> QED
    BY <1>2, <2>5, <2>10, NoneIsSeq
<1> QED
  BY <1>13, <1>14, <1>15, <1>16, <1>17

\* What is told of a message of a chat is what its texts say.
LEMMA ToldTurn ==
  ASSUME endpoint # "messages", NEW m, IsChatMessage("responses", m)
  PROVE  LET said == ReadItems(m.role, "responses", InputItems(m.content)) IN
         /\ AreItems(InputItems(m.content)) /\ IsSeq(said) /\ IsSeq(TextOf(m.content))
         /\ ToldOf(ReadChatTurn(FALSE, m)) = said
         /\ IsSystem(m) => said = ReadText("system", TextOf(m.content))
<1>1. PICK d, c, role, named, in, kinds :
        /\ d = "responses" /\ c = m.content /\ role = m.role /\ named = FALSE /\ in = "openai"
        /\ kinds = {"text", "image"}
  OBVIOUS
<1>2. IsChatMessage(d, m) /\ IsContent(c, in, kinds) /\ role \in {"system", "user", "assistant", "tool"}
  BY <1>1 DEF IsChatMessage, TextsOnly
<1>3. Speaking(role) /\ ToldKinds(kinds) /\ in # "responses"
  BY <1>1 DEF Speaking, ToldKinds
<1>4. PICK whole, said : whole = ReadContent(role, in, c) /\ said = ReadItems(role, "responses", InputItems(c))
  OBVIOUS
<1>5. AreItems(InputItems(c)) /\ said = ToldOf(whole) /\ ToldOf(whole) = ReadText(role, TextOf(c)) /\ IsSeq(TextOf(c))
  BY <1>2, <1>3, <1>4, ToldContent
<1>6. PICK turn, calls : turn = ReadChatTurn(named, m) /\ calls = CallsOf(m)
  OBVIOUS
<1>7. /\ IsSeq(whole)
      /\ role \in {"system", "user"} => turn = whole
      /\ role = "assistant" => turn = whole \o Calling(named, calls)
      /\ role = "tool" => turn = <<<<"tool", "result", CalledOf(named, m)>>>> \o whole
  BY <1>1, <1>2, <1>4, <1>6, ChatTurnIs
<1>8. IsSeq(calls)
  BY <1>2, <1>6 DEF IsChatMessage
<1>9. IsSeq(said)
  BY <1>4, <1>5, ItemsRead
<1>10. ToldOf(turn) = said
  <2>1. CASE role \in {"system", "user"}
    BY <1>5, <1>7, <2>1
  <2>2. CASE role = "assistant"
    <3>1. PICK calling : calling = Calling(named, calls)
      OBVIOUS
    <3>2. IsSeq(calling) /\ ToldOf(calling) = <<>>
      BY <1>8, <3>1, CallingIs, ToldCalling
    <3>3. ToldOf(whole \o calling) = ToldOf(whole) \o ToldOf(calling)
      BY <1>7, <3>2, ToldJoin
    <3>4. said \o <<>> = said
      BY <1>9, JoinNone
    <3> QED
      BY <1>5, <1>7, <2>2, <3>1, <3>2, <3>3, <3>4
  <2>3. CASE role = "tool"
    <3>1. PICK result, n : result = <<<<"tool", "result", n>>>> /\ n = CalledOf(named, m)
      OBVIOUS
    <3>2. IsSeq(result) /\ ToldOf(result) = <<>>
      BY <3>1, OneIsSeq, ToldOne
    <3>3. ToldOf(result \o whole) = ToldOf(result) \o ToldOf(whole)
      BY <1>7, <3>2, ToldJoin
    <3>4. <<>> \o said = said
      BY <1>9, JoinNone
    <3> QED
      BY <1>5, <1>7, <2>3, <3>1, <3>2, <3>3, <3>4
  <2> QED
    BY <1>2, <2>1, <2>2, <2>3
<1>11. IsSystem(m) => role = "system"
  BY <1>1 DEF IsSystem
<1> QED
  BY <1>1, <1>4, <1>5, <1>6, <1>9, <1>10, <1>11

\* What is told of a chat: the system's texts and what the messages of an input say.
LEMMA ToldChat ==
  ASSUME endpoint # "messages", NEW messages, AreChat("responses", messages)
  PROVE  /\ ToldOf(ReadChat(messages, FALSE)) =
              ReadText("system", Instructions(messages)) \o InputSaid(InputMessages(messages))
         /\ IsSeq(Instructions(messages)) /\ IsSeq(InputMessages(messages))
         /\ \A i \in DOMAIN InputMessages(messages) : Has(InputMessages(messages)[i], "typed")
<1>1. PICK d, named : d = "responses" /\ named = FALSE
  OBVIOUS
<1>2. PICK s, o : s = OfSystems(named, messages) /\ o = OfOthers(named, messages)
  OBVIOUS
<1>3. IsSeqs(s) /\ IsSeqs(o) /\ ReadChat(messages, named) = FlattenSeq(s) \o FlattenSeq(o)
  BY <1>1, <1>2, ChatIsTwo
<1>4. PICK t, u, w : /\ t = [i \in DOMAIN s |-> ToldOf(s[i])] /\ u = [i \in DOMAIN o |-> ToldOf(o[i])]
                     /\ w = [i \in DOMAIN messages |->
                               IF IsSystem(messages[i]) THEN TextOf(messages[i].content) ELSE <<>>]
  OBVIOUS
<1>5. ToldOf(ReadChat(messages, named)) = FlattenSeq(t) \o FlattenSeq(u)
  <2>1. IsSeq(FlattenSeq(s)) /\ IsSeq(FlattenSeq(o))
    BY <1>3, FlattenIsSeq
  <2>2. PICK fs, fo : fs = FlattenSeq(s) /\ fo = FlattenSeq(o)
    OBVIOUS
  <2>3. ToldOf(fs \o fo) = ToldOf(fs) \o ToldOf(fo)
    BY <2>1, <2>2, ToldJoin
  <2>4. ToldOf(fs) = FlattenSeq(t) /\ ToldOf(fo) = FlattenSeq(u)
    BY <1>3, <1>4, <2>2, ToldFlatten
  <2> QED
    BY <1>3, <2>2, <2>3, <2>4
<1>6. DOMAIN s = DOMAIN messages /\ DOMAIN o = DOMAIN messages /\ IsSeq(messages)
  BY <1>2 DEF OfSystems, OfOthers, AreChat
<1>7. PICK none : none = <<>>
  OBVIOUS
<1>8. ToldOf(none) = none /\ IsSeq(none) /\ ReadText("system", none) = none
  BY <1>7, ToldEmpty, NoneIsSeq, TextNone
<1>9. ASSUME NEW i \in DOMAIN messages
      PROVE  /\ IsSystem(messages[i]) =>
                  /\ w[i] = TextOf(messages[i].content) /\ IsSeq(w[i])
                  /\ t[i] = ReadText("system", w[i]) /\ u[i] = none
             /\ ~IsSystem(messages[i]) =>
                  /\ w[i] = none /\ t[i] = none /\ AreItems(InputItems(messages[i].content))
                  /\ u[i] = ReadItems(messages[i].role, "responses", InputItems(messages[i].content))
  <2>1. PICK m : m = messages[i]
    OBVIOUS
  <2>2. IsChatMessage("responses", m)
    BY <1>1, <1>9, <2>1 DEF AreChat
  <2>3. PICK said : said = ReadItems(m.role, "responses", InputItems(m.content))
    OBVIOUS
  <2>4. /\ AreItems(InputItems(m.content)) /\ IsSeq(TextOf(m.content)) /\ ToldOf(ReadChatTurn(FALSE, m)) = said
        /\ IsSystem(m) => said = ReadText("system", TextOf(m.content))
    BY <2>2, <2>3, ToldTurn
  <2>5. /\ s[i] = IF IsSystem(m) THEN ReadChatTurn(FALSE, m) ELSE none
        /\ o[i] = IF IsSystem(m) THEN none ELSE ReadChatTurn(FALSE, m)
        /\ w[i] = IF IsSystem(m) THEN TextOf(m.content) ELSE none
    BY <1>1, <1>2, <1>4, <1>7, <2>1 DEF OfSystems, OfOthers
  <2>6. t[i] = ToldOf(s[i]) /\ u[i] = ToldOf(o[i])
    BY <1>4, <1>6
  <2>7. CASE IsSystem(m)
    BY <1>8, <2>1, <2>4, <2>5, <2>6, <2>7
  <2>8. CASE ~IsSystem(m)
    BY <1>8, <2>1, <2>3, <2>4, <2>5, <2>6, <2>8
  <2> QED
    BY <2>1, <2>7, <2>8
<1>10. Instructions(messages) = FlattenSeq(w)
  BY <1>4, Zenon DEF Instructions, OfSystem, FlatMap, MapSeq, When
<1>11. IsSeqs(w)
  <2>1. IsSeq(w)
    BY <1>4, <1>6, EachIs
  <2>2. \A i \in DOMAIN w : IsSeq(w[i])
    BY <1>4, <1>8, <1>9
  <2> QED
    BY <2>1, <2>2 DEF IsSeqs
<1>12. ReadText("system", FlattenSeq(w)) = FlattenSeq(t) /\ IsSeq(FlattenSeq(w))
  <2>1. PICK v : v = [i \in DOMAIN w |-> ReadText("system", w[i])]
    OBVIOUS
  <2>2. ReadText("system", FlattenSeq(w)) = FlattenSeq(v) /\ IsSeq(FlattenSeq(w))
    BY <1>11, <2>1, TextFlatten
  <2>3. \A i \in DOMAIN messages : ReadText("system", w[i]) = t[i]
    BY <1>8, <1>9
  <2>4. t = [i \in DOMAIN messages |-> t[i]] /\ DOMAIN w = DOMAIN messages
    BY <1>4, <1>6
  <2>5. v = t
    BY <2>1, <2>3, <2>4
  <2> QED
    BY <2>2, <2>5
<1>13. AreSaid(messages, u)
  <2>1. DOMAIN u = DOMAIN messages /\ u = [i \in DOMAIN u |-> u[i]]
    BY <1>4, <1>6
  <2> QED
    BY <1>6, <1>7, <1>9, <2>1 DEF AreSaid
<1>14. PICK input : input = InputMessages(messages)
  OBVIOUS
<1>15. IsSeq(input) /\ (\A i \in DOMAIN input : Has(input[i], "typed")) /\ InputSaid(input) = FlattenSeq(u)
  BY <1>13, <1>14, InputMessagesRead
<1> QED
  BY <1>1, <1>5, <1>10, <1>12, <1>14, <1>15

\* The keys of what Responses is asked that say the conversation.
LEMMA ResponsesBodyIs ==
  ASSUME NEW b, ~Has(b, "input"), ~Has(b, "instructions"), NEW messages, messages = Get(b, "messages", <<>>)
  PROVE  /\ Has(ToResponses(b), "input") /\ ToResponses(b).input = Arr(InputMessages(messages))
         /\ Get(ToResponses(b), "instructions", <<>>) = Instructions(messages)
         /\ Has(ToResponses(b), "instructions") => ToResponses(b).instructions = Instructions(messages)
<1> DEFINE x == Instructions(messages)
           f == [stream |-> Get(b, "stream", FALSE), input |-> Get(b, "input", Arr(InputMessages(messages)))]
           s == Only(b, Copied \cup {"instructions"})
           t == When(x # <<>>, [instructions |-> x])
           body == ToResponses(b)
<1>1. body = (f ++ s) ++ t
  BY Zenon DEF ToResponses
<1>2. PICK e : e = <<>>
  OBVIOUS
<1>3. DOMAIN e = {}
  BY <1>2
<1>4. /\ Has(f, "input") /\ f.input = Arr(InputMessages(messages)) /\ ~Has(f, "instructions")
      /\ ~Has(s, "instructions")
  BY DEF Has, Get, Only
<1>5. /\ Has(t, "instructions") <=> x # <<>>
      /\ x # <<>> => t.instructions = x
  <2> HIDE DEF x
  <2> QED
    BY <1>2, <1>3 DEF When, Has
<1> HIDE DEF f, s, t, body, x
<1>6. PICK g : g = f ++ s
  OBVIOUS
<1>7. Has(g, "input") /\ g.input = Arr(InputMessages(messages)) /\ ~Has(g, "instructions")
  BY <1>4, <1>6, OverIs
<1>8. body = g ++ t
  BY <1>1, <1>6
<1>9. /\ Has(body, "input") /\ body.input = Arr(InputMessages(messages))
      /\ Has(body, "instructions") <=> x # <<>>
      /\ x # <<>> => body.instructions = x
  BY <1>5, <1>7, <1>8, OverIs
<1> QED
  BY <1>9 DEF Get, body, x

\* Without a message of the system's there are no instructions.
LEMMA NoInstructions ==
  ASSUME NEW messages, IsSeq(messages), \A i \in DOMAIN messages : ~IsSystem(messages[i])
  PROVE  Instructions(messages) = <<>>
<1>1. PICK w : w = [i \in DOMAIN messages |-> IF IsSystem(messages[i]) THEN TextOf(messages[i].content) ELSE <<>>]
  OBVIOUS
<1>2. Instructions(messages) = FlattenSeq(w)
  BY <1>1, Zenon DEF Instructions, OfSystem, FlatMap, MapSeq, When
<1>3. IsSeq(w) /\ \A i \in DOMAIN w : w[i] = <<>>
  BY <1>1, EachIs
<1> QED
  BY <1>2, <1>3, FlattenNothing DEF AllNone

AreClaude(messages) == IsSeq(messages) /\ \A i \in DOMAIN messages : IsClaudeMessage(messages[i])

\* A conversation with Claude, and what is told of it.
LEMMA ToldClaude ==
  ASSUME endpoint = "messages", NEW b, NEW messages, messages = Get(b, "messages", <<>>), AreClaude(messages),
         NEW system, system = Get(b, "system", Null), IsContent(system, "claude", {"text"})
  PROVE  /\ ToldOf(ReadClaude(b)) =
              ReadText("system", TextOf(system)) \o InputSaid(InputMessages(messages))
         /\ IsWords(system) /\ IsSeq(ClaudeSaid(b)) /\ IsSeq(ReadClaude(b))
         /\ Instructions(messages) = <<>> /\ IsSeq(TextOf(system)) /\ IsSeq(InputMessages(messages))
         /\ \A i \in DOMAIN InputMessages(messages) : Has(InputMessages(messages)[i], "typed")
<1>1. PICK in, who, kinds, all, none :
        /\ in = "claude" /\ who = "system" /\ kinds = {"text"} /\ all = {"text", "image", "call", "result"}
        /\ none = <<>>
  OBVIOUS
<1>2. IsContent(system, in, kinds) /\ in # "responses" /\ ToldKinds(kinds) /\ ToldKinds(all) /\ Speaking(who)
  BY <1>1 DEF ToldKinds, Speaking
<1>3. PICK said, words : said = ClaudeSaid(b) /\ words = ReadContent(who, in, system)
  OBVIOUS
<1>4. ReadClaude(b) = words \o said
  BY <1>1, <1>3, ClaudeIsTwo
<1>5. ToldOf(words) = ReadText(who, TextOf(system)) /\ IsSeq(TextOf(system))
  BY <1>2, <1>3, ToldContent
<1>6. /\ IsSeq(words) /\ system.form \in {"string", "array", "null"}
      /\ system.form = "string" => IsSeq(system.text)
      /\ system.form = "array" => AreItems(system.items)
  BY <1>2, <1>3, ContentIs
<1>7. IsWords(system)
  BY <1>6 DEF IsWords
<1>8. PICK q : q = [i \in DOMAIN messages |-> ReadContent(messages[i].role, "claude", messages[i].content)]
  OBVIOUS
<1>9. said = FlattenSeq(q)
  BY <1>3, <1>8 DEF ClaudeSaid
<1>10. IsSeq(messages) /\ \A i \in DOMAIN messages : IsClaudeMessage(messages[i])
  BY DEF AreClaude
<1>11. ASSUME NEW i \in DOMAIN messages
       PROVE  /\ ~IsSystem(messages[i]) /\ IsSeq(q[i])
              /\ AreItems(InputItems(messages[i].content))
              /\ ToldOf(q[i]) = ReadItems(messages[i].role, "responses", InputItems(messages[i].content))
  <2>1. PICK m, c, role : m = messages[i] /\ c = m.content /\ role = m.role
    OBVIOUS
  <2>2. role \in {"user", "assistant"} /\ IsContent(c, in, all)
    BY <1>1, <1>10, <2>1 DEF IsClaudeMessage
  <2>3. Speaking(role)
    BY <2>2 DEF Speaking
  <2>4. q[i] = ReadContent(role, in, c)
    BY <1>1, <1>8, <2>1
  <2>5. IsSeq(ReadContent(role, in, c))
    BY <2>2, ContentIs
  <2>6. AreItems(InputItems(c)) /\ ReadItems(role, "responses", InputItems(c)) = ToldOf(ReadContent(role, in, c))
    BY <1>2, <2>2, <2>3, ToldContent
  <2>7. ~IsSystem(m)
    BY <2>1, <2>2 DEF IsSystem
  <2> QED
    BY <2>1, <2>4, <2>5, <2>6, <2>7
<1>12. IsSeqs(q)
  <2>1. IsSeq(q)
    BY <1>8, <1>10, EachIs
  <2>2. \A i \in DOMAIN q : IsSeq(q[i])
    BY <1>8, <1>11
  <2> QED
    BY <2>1, <2>2 DEF IsSeqs
<1>13. PICK u : u = [i \in DOMAIN q |-> ToldOf(q[i])]
  OBVIOUS
<1>14. ToldOf(said) = FlattenSeq(u) /\ IsSeq(said)
  <2>1. ToldOf(FlattenSeq(q)) = FlattenSeq(u)
    BY <1>12, <1>13, ToldFlatten
  <2>2. IsSeq(FlattenSeq(q))
    BY <1>12, FlattenIsSeq
  <2> QED
    BY <1>9, <2>1, <2>2
<1>15. PICK input : input = InputMessages(messages)
  OBVIOUS
<1>16. AreSaid(messages, u)
  <2>1. DOMAIN u = DOMAIN messages /\ u = [i \in DOMAIN u |-> u[i]]
    BY <1>8, <1>13
  <2>2. \A i \in DOMAIN messages : u[i] = ToldOf(q[i])
    BY <1>13, <2>1
  <2> QED
    BY <1>10, <1>11, <2>1, <2>2 DEF AreSaid
<1>17. IsSeq(input) /\ (\A i \in DOMAIN input : Has(input[i], "typed")) /\ InputSaid(input) = FlattenSeq(u)
  BY <1>15, <1>16, InputMessagesRead
<1>18. ToldOf(words \o said) = ToldOf(words) \o ToldOf(said)
  BY <1>6, <1>14, ToldJoin
<1>19. IsSeq(words \o said)
  BY <1>6, <1>14, JoinIsSeq
<1>20. Instructions(messages) = <<>>
  BY <1>10, <1>11, NoInstructions
<1> QED
  BY <1>1, <1>3, <1>4, <1>5, <1>7, <1>14, <1>15, <1>17, <1>18, <1>19, <1>20

\* The keys of what Responses is asked for a client of Claude that say the conversation.
LEMMA ClaudeInputIs ==
  ASSUME NEW b, NEW messages, messages = Get(b, "messages", <<>>), NEW system, system = Get(b, "system", Null)
  PROVE  LET body == ClaudeToResponses(b) IN
         /\ Has(body, "input") /\ body.input = Arr(InputMessages(messages))
         /\ Get(body, "instructions", <<>>) = TextOf(system)
         /\ Has(body, "instructions") => body.instructions = TextOf(system)
<1> DEFINE x == TextOf(system)
           f == [stream |-> Get(b, "stream", FALSE), input |-> Arr(InputMessages(messages))]
           s == When(Has(b, "system"), [instructions |-> x])
           t == Only(b, Copied)
           body == ClaudeToResponses(b)
<1>1. body = (f ++ s) ++ t
  BY Zenon DEF ClaudeToResponses
<1>2. PICK e : e = <<>>
  OBVIOUS
<1>3. DOMAIN e = {}
  BY <1>2
<1>4. ~Has(b, "system") => x = <<>>
  BY DEF Get, Null, TextOf
<1>5. /\ Has(f, "input") /\ f.input = Arr(InputMessages(messages)) /\ ~Has(f, "instructions")
      /\ ~Has(t, "instructions") /\ ~Has(t, "input")
  BY DEF Has, Only, Copied
<1>6. /\ Has(s, "instructions") <=> Has(b, "system")
      /\ Has(b, "system") => s.instructions = x
  <2> HIDE DEF x
  <2> QED
    BY <1>2, <1>3 DEF When, Has
<1> HIDE DEF f, s, t, body, x
<1>7. PICK g : g = f ++ s
  OBVIOUS
<1>8. /\ Has(g, "input") /\ g.input = Arr(InputMessages(messages))
      /\ Has(g, "instructions") <=> Has(b, "system")
      /\ Has(b, "system") => g.instructions = x
  BY <1>5, <1>6, <1>7, OverIs
<1>9. body = g ++ t
  BY <1>1, <1>7
<1>10. /\ Has(body, "input") /\ body.input = Arr(InputMessages(messages))
       /\ Has(body, "instructions") <=> Has(b, "system")
       /\ Has(b, "system") => body.instructions = x
  BY <1>5, <1>8, <1>9, OverIs
<1>11. Get(body, "instructions", <<>>) = x
  BY <1>4, <1>10 DEF Get
<1> QED
  BY <1>10, <1>11 DEF body, x

\* The keys under which a conversation stands.
ConversationKeys == {"messages", "contents", "systemInstruction", "input", "instructions", "system"}

\* Bodies that have these keys alike say the same.
LEMMA ReadKeeps ==
  ASSUME NEW d, NEW b, NEW c, Keeps(b, c, ConversationKeys),
         d = "gemini" => Has(c, "contents"), d = "responses" => Has(c, "input")
  PROVE  Read(d, b) = Read(d, c)
<1>1. \A k \in ConversationKeys : \A else : Get(b, k, else) = Get(c, k, else)
  BY KeepsAreAlike
<1>2. ReadClaude(b) = ReadClaude(c)
  BY <1>1 DEF ReadClaude, ConversationKeys
<1>3. d = "gemini" => ReadGemini(b) = ReadGemini(c)
  <2>1. d = "gemini" => b.contents = c.contents
    BY DEF Keeps, ConversationKeys
  <2> QED
    BY <1>1, <2>1 DEF ReadGemini, ConversationKeys
<1>4. d = "responses" => ReadInput(b) = ReadInput(c)
  <2>1. d = "responses" => b.input = c.input
    BY DEF Keeps, ConversationKeys
  <2> QED
    BY <1>1, <2>1 DEF ReadInput, ConversationKeys
<1>5. Get(b, "messages", <<>>) = Get(c, "messages", <<>>)
  BY <1>1 DEF ConversationKeys
<1> QED
  BY <1>2, <1>3, <1>4, <1>5, Zenon DEF Read

\* What Codex is asked.
LEMMA CodexBodyIs ==
  ASSUME NEW body, NEW a, a = AdaptForCodex(body, normal),
         NEW messages, messages = Get(body, "messages", Get(normal, "messages", <<>>))
  PROVE  /\ Has(a, "input")
         /\ ResponseItems(Get(body, "input", Null)) => a.input = body.input
         /\ ~ResponseItems(Get(body, "input", Null)) => a.input = CodexInput(body, messages)
         /\ Get(a, "instructions", <<>>) =
              Get(body, "instructions", Instructions(Get(normal, "messages", <<>>)))
         /\ Keeps(a, body, {"contents", "systemInstruction", "system"})
<1>1. PICK i, x : /\ i = IF ResponseItems(Get(body, "input", Null)) THEN body.input ELSE CodexInput(body, messages)
                  /\ x = Instructions(Get(normal, "messages", <<>>))
  OBVIOUS
<1> DEFINE f == [stream |-> TRUE, store |-> FALSE, input |-> i]
           w == Without(body, {"messages", "max_tokens"})
           n == [instructions |-> x]
           K == {"contents", "systemInstruction", "system"}
<1>2. a = (f ++ w) ++ n
  BY <1>1, Zenon DEF AdaptForCodex
<1>3. /\ \A k \in K : ~Has(f, k) /\ ~Has(n, k)
      /\ Keeps(w, body, K \cup {"instructions"})
      /\ Has(f, "input") /\ f.input = i /\ ~Has(f, "instructions")
      /\ Has(n, "instructions") /\ n.instructions = x
  BY DEF Has, Keeps, Without
<1> HIDE DEF f, w, n
<1>4. PICK g : g = f ++ w
  OBVIOUS
<1>5. Keeps(g, body, K \cup {"instructions"}) /\ Has(g, "input") /\ g.input = i
  BY <1>3, <1>4, OverIs DEF Keeps
<1>6. a = g ++ n
  BY <1>2, <1>4
<1>7. Keeps(a, body, K) /\ Has(a, "input") /\ a.input = i
  BY <1>3, <1>5, <1>6, OverIs DEF Keeps
<1>8. Get(a, "instructions", <<>>) = Get(body, "instructions", x)
  <2>1. Has(body, "instructions") <=> Has(g, "instructions")
    BY <1>5 DEF Keeps
  <2>2. Has(g, "instructions") => a.instructions = body.instructions
    BY <1>5, <1>6, OverIs DEF Keeps
  <2>3. ~Has(g, "instructions") => a.instructions = x
    BY <1>3, <1>6, OverIs
  <2>4. Has(a, "instructions")
    BY <1>3, <1>6, OverIs
  <2> QED
    BY <2>1, <2>2, <2>3, <2>4 DEF Get
<1> QED
  BY <1>1, <1>7, <1>8

\* Items that are already what Codex takes stay as they are.
LEMMA CodexKeepsItems ==
  ASSUME NEW body, NEW items, Has(body, "input"), body.input = Arr(items),
         \A i \in DOMAIN items : Has(items[i], "typed"),
         Has(body, "instructions") \/ Instructions(Get(normal, "messages", <<>>)) = Get(body, "instructions", <<>>),
         NEW a, a = AdaptForCodex(body, normal)
  PROVE  ReadInput(a) = ReadInput(body)
<1>1. ResponseItems(Get(body, "input", Null))
  BY DEF ResponseItems, Get, Arr
<1>2. /\ a.input = body.input
      /\ Get(a, "instructions", <<>>) = Get(body, "instructions", Instructions(Get(normal, "messages", <<>>)))
  BY <1>1, CodexBodyIs
<1>3. Get(a, "instructions", <<>>) = Get(body, "instructions", <<>>)
  BY <1>2 DEF Get
<1>4. ReadInput(a) = ReadText("system", Get(a, "instructions", <<>>)) \o InputSaid(items)
  BY <1>2, InputIsTwo
<1>5. ReadInput(body) = ReadText("system", Get(body, "instructions", <<>>)) \o InputSaid(items)
  BY InputIsTwo
<1> QED
  BY <1>3, <1>4, <1>5

\* An input that a client has written says a sequence.
LEMMA InputIsSeq ==
  ASSUME NEW b, IsInput(b.input), IsSeq(Get(b, "instructions", <<>>))
  PROVE  IsSeq(ReadInput(b))
<1>1. PICK x, who : x = Get(b, "instructions", <<>>) /\ who = "system"
  OBVIOUS
<1>2. IsSeq(ReadText(who, x))
  BY <1>1, TextIs
<1>3. CASE b.input.form = "string"
  <2>1. ReadInput(b) = ReadText(who, x) \o ReadContent("user", "responses", b.input)
    BY <1>1, <1>3 DEF ReadInput
  <2>2. IsSeq(b.input.text) /\ ReadContent("user", "responses", b.input) = ReadText("user", b.input.text)
    BY <1>3 DEF IsInput, ReadContent
  <2>3. IsSeq(ReadContent("user", "responses", b.input))
    BY <2>2, TextIs
  <2> QED
    BY <1>2, <2>1, <2>3, JoinIsSeq
<1>4. CASE b.input.form = "array"
  <2>1. PICK items : items = b.input.items
    OBVIOUS
  <2>2. PICK q : q = [i \in DOMAIN items |-> ReadContent(Get(items[i], "role", "user"), "responses", items[i].content)]
    OBVIOUS
  <2>3. FlattenSeq(q) = FlatMap(items, LAMBDA m : ReadContent(Get(m, "role", "user"), "responses", m.content))
    BY <2>2, Zenon DEF FlatMap, MapSeq
  <2>4. PICK said : said = FlatMap(items, LAMBDA m : ReadContent(Get(m, "role", "user"), "responses", m.content))
    OBVIOUS
  <2>5. ReadInput(b) = ReadText(who, x) \o
          CASE b.input.form = "string" -> ReadContent("user", "responses", b.input)
            [] b.input.form = "array"  -> said
    BY <1>1, <2>1, <2>4, Zenon DEF ReadInput
  <2>6. (CASE b.input.form = "string" -> ReadContent("user", "responses", b.input)
           [] b.input.form = "array"  -> said) = said
    BY <1>4
  <2>7. IsSeq(items) /\ \A i \in DOMAIN items : IsContent(items[i].content, "responses", {"text", "image"})
    BY <1>4, <2>1 DEF IsInput, Range
  <2>8. ASSUME NEW i \in DOMAIN items PROVE IsSeq(q[i])
    <3>1. PICK role, c, in, kinds : /\ role = Get(items[i], "role", "user") /\ c = items[i].content
                                    /\ in = "responses" /\ kinds = {"text", "image"}
      OBVIOUS
    <3>2. IsContent(c, in, kinds)
      BY <2>7, <3>1
    <3>3. IsSeq(ReadContent(role, in, c))
      BY <3>2, ContentIs
    <3> QED
      BY <2>2, <3>1, <3>3
  <2>9. IsSeq(q) /\ DOMAIN q = DOMAIN items
    BY <2>2, <2>7, EachIs
  <2>10. IsSeqs(q)
    BY <2>8, <2>9 DEF IsSeqs
  <2>11. IsSeq(said)
    BY <2>3, <2>4, <2>10, FlattenIsSeq
  <2>12. ReadInput(b) = ReadText(who, x) \o said
    BY <2>5, <2>6, Zenon
  <2>13. IsSeq(ReadText(who, x) \o said)
    BY <1>2, <2>11, JoinIsSeq
  <2> QED
    BY <2>12, <2>13
<1> QED
  BY <1>3, <1>4 DEF IsInput

\* What an input for Codex stands for as messages: nothing of the system's is among them.
LEMMA OwnMessages ==
  ASSUME IsCodex(provider), NEW input, IsInput(input), NEW messages, messages = MessagesOf(input)
  PROVE  /\ IsSeq(messages) /\ \A i \in DOMAIN messages : ~IsSystem(messages[i])
         /\ input.form = "string" => messages = <<UserSays(input)>>
         /\ input.form = "array" => messages = input.items
         /\ Instructions(messages) = <<>>
<1>1. input.form = "string" =>
        messages = <<UserSays(input)>> /\ IsSeq(messages) /\ \A i \in DOMAIN messages : ~IsSystem(messages[i])
  <2> SUFFICES ASSUME input.form = "string"
               PROVE  messages = <<UserSays(input)>> /\ IsSeq(messages) /\ \A i \in DOMAIN messages : ~IsSystem(messages[i])
    OBVIOUS
  <2>1. PICK m : m = UserSays(input)
    OBVIOUS
  <2>2. messages = <<m>>
    BY <2>1 DEF MessagesOf
  <2>3. ~IsSystem(m)
    BY <2>1 DEF UserSays, IsSystem
  <2>4. IsSeq(<<m>>) /\ <<m>>[1] = m /\ DOMAIN <<m>> = {1}
    BY OneIsSeq
  <2> QED
    BY <2>1, <2>2, <2>3, <2>4
<1>2. input.form = "array" =>
        messages = input.items /\ IsSeq(messages) /\ \A i \in DOMAIN messages : ~IsSystem(messages[i])
  <2> SUFFICES ASSUME input.form = "array"
               PROVE  messages = input.items /\ IsSeq(messages) /\ \A i \in DOMAIN messages : ~IsSystem(messages[i])
    OBVIOUS
  <2>1. PICK items : items = input.items
    OBVIOUS
  <2>2. IsSeq(items) /\ \A i \in DOMAIN items : Has(items[i], "role") /\ ~IsSystem(items[i])
    BY <2>1 DEF IsInput, Range, Has
  <2>3. messages = [i \in DOMAIN items |-> IF Has(items[i], "role") THEN items[i] ELSE UserSays(Other)]
    BY <2>1 DEF MessagesOf, MapSeq
  <2>4. messages = [i \in DOMAIN items |-> items[i]]
    BY <2>2, <2>3
  <2>5. items = [i \in DOMAIN items |-> items[i]]
    BY <2>2 DEF IsSeq
  <2> QED
    BY <2>1, <2>2, <2>4, <2>5
<1>3. IsSeq(messages) /\ \A i \in DOMAIN messages : ~IsSystem(messages[i])
  BY <1>1, <1>2 DEF IsInput
<1> QED
  BY <1>1, <1>2, <1>3, NoInstructions

\* As messages, an input says what it has said.
LEMMA OwnInput ==
  ASSUME IsCodex(provider), NEW body, IsInput(body.input), ~ResponseItems(body.input),
         NEW messages, messages = MessagesOf(body.input), NEW made, made = InputMessages(messages)
  PROVE  /\ made # <<>>
         /\ ReadInput(body) = ReadText("system", Get(body, "instructions", <<>>)) \o InputSaid(made)
<1>1. PICK input, none, in, kinds : /\ input = body.input /\ none = Get(body, "instructions", <<>>)
                                    /\ in = "responses" /\ kinds = {"text", "image"}
  OBVIOUS
<1>2. /\ IsSeq(messages) /\ (\A i \in DOMAIN messages : ~IsSystem(messages[i]))
      /\ input.form = "string" => messages = <<UserSays(input)>>
      /\ input.form = "array" => messages = input.items
      /\ IsInput(input) /\ input.form \in {"string", "array"}
  BY <1>1, OwnMessages DEF IsInput
<1>3. ASSUME NEW o, AreSaid(messages, o)
      PROVE  /\ InputSaid(made) = FlattenSeq(o)
             /\ messages # <<>> => made # <<>>
  <2>1. InputSaid(made) = FlattenSeq(o) /\ ((\E i \in DOMAIN messages : ~IsSystem(messages[i])) => made # <<>>)
    BY <1>3, InputMessagesRead
  <2>2. messages # <<>> => \E i \in DOMAIN messages : ~IsSystem(messages[i])
    <3>1. PICK R : R = Range(messages)
      OBVIOUS
    <3>2. messages \in Seq(R)
      BY <1>2, <3>1 DEF IsSeq
    <3>3. messages # <<>> => 1 \in DOMAIN messages
      BY <3>2
    <3> QED
      BY <1>2, <3>3
  <2> QED
    BY <2>1, <2>2
<1>4. CASE input.form = "string"
  <2>1. PICK m, said, o : m = UserSays(input) /\ said = ReadItems("user", in, InputItems(input)) /\ o = <<said>>
    OBVIOUS
  <2>2. m.role = "user" /\ m.content = input /\ messages = <<m>> /\ ~IsSystem(m)
    BY <1>2, <1>4, <2>1 DEF UserSays, IsSystem
  <2>3. PICK t : t = input.text
    OBVIOUS
  <2>4. IsSeq(t) /\ InputItems(input) = <<Item("text", in, t)>>
    BY <1>1, <1>2, <1>4, <2>3 DEF IsInput, InputItems
  <2>5. AreItems(InputItems(input)) /\ said = ReadText("user", t)
    BY <2>1, <2>4, ItemTextIs
  <2>6. IsSeq(messages) /\ DOMAIN messages = {1} /\ messages[1] = m
    BY <2>2, OneIsSeq
  <2>7. DOMAIN o = {1} /\ o[1] = said /\ o = [i \in DOMAIN o |-> o[i]]
    BY <2>1
  <2>8. AreSaid(messages, o)
    BY <1>1, <2>1, <2>2, <2>5, <2>6, <2>7 DEF AreSaid
  <2>9. FlattenSeq(o) = said
    <3>1. IsSeq(o) /\ Len(o) = 1
      BY <2>1, OneIsSeq
    <3> QED
      BY <2>7, <3>1, FlattenOf
  <2>10. ReadInput(body) = ReadText("system", none) \o ReadText("user", t)
    <3>1. ReadContent("user", "responses", input) = ReadText("user", t)
      BY <1>4, <2>3 DEF ReadContent
    <3>2. ReadInput(body) = ReadText("system", none) \o ReadContent("user", "responses", input)
      BY <1>1, <1>4 DEF ReadInput
    <3> QED
      BY <3>1, <3>2
  <2>11. messages # <<>>
    BY <2>2
  <2>12. InputSaid(made) = said /\ made # <<>>
    BY <1>3, <2>8, <2>9, <2>11
  <2> QED
    BY <1>1, <2>5, <2>10, <2>12
<1>5. CASE input.form = "array"
  <2>1. PICK o : o = [i \in DOMAIN messages |-> ReadContent(messages[i].role, in, messages[i].content)]
    OBVIOUS
  <2>2. \A i \in DOMAIN messages : Has(messages[i], "role") /\ IsContent(messages[i].content, in, kinds)
    BY <1>1, <1>2, <1>5 DEF IsInput, Range, Has
  <2>3. ASSUME NEW i \in DOMAIN messages
        PROVE  /\ AreItems(InputItems(messages[i].content))
               /\ o[i] = ReadItems(messages[i].role, "responses", InputItems(messages[i].content))
    <3>1. PICK c, role : c = messages[i].content /\ role = messages[i].role
      OBVIOUS
    <3>2. IsContent(c, "responses", {"text", "image"}) /\ o[i] = ReadContent(role, "responses", c)
      BY <1>1, <2>1, <2>2, <3>1
    <3>3. AreItems(InputItems(c)) /\ ReadItems(role, "responses", InputItems(c)) = ReadContent(role, "responses", c)
      BY <3>2, SameContent
    <3> QED
      BY <3>1, <3>2, <3>3
  <2>4. DOMAIN o = DOMAIN messages /\ o = [i \in DOMAIN o |-> o[i]]
    BY <2>1
  <2>5. AreSaid(messages, o)
    BY <1>2, <2>3, <2>4 DEF AreSaid
  <2>6. \A i \in DOMAIN messages : Get(messages[i], "role", "user") = messages[i].role
    BY <2>2 DEF Get
  <2>7. o = [i \in DOMAIN messages |-> ReadContent(Get(messages[i], "role", "user"), "responses", messages[i].content)]
    BY <1>1, <2>1, <2>6
  <2>8. InputSaid(messages) = FlattenSeq(o)
    BY <2>7 DEF InputSaid
  <2>9. ReadInput(body) = ReadText("system", none) \o InputSaid(messages)
    <3>1. body.input.form = "array" /\ body.input.items = messages
      BY <1>1, <1>2, <1>5
    <3>2. PICK said : said = FlatMap(messages, LAMBDA m : ReadContent(Get(m, "role", "user"), "responses", m.content))
      OBVIOUS
    <3>3. said = InputSaid(messages)
      BY <3>2, Zenon DEF InputSaid, FlatMap, MapSeq
    <3>4. ReadInput(body) = ReadText("system", none) \o
            CASE body.input.form = "string" -> ReadContent("user", "responses", body.input)
              [] body.input.form = "array"  -> said
      BY <1>1, <3>1, <3>2, Zenon DEF ReadInput
    <3>5. (CASE body.input.form = "string" -> ReadContent("user", "responses", body.input)
             [] body.input.form = "array"  -> said) = said
      BY <3>1
    <3> QED
      BY <3>3, <3>4, <3>5
  <2>10. messages # <<>>
    <3>1. CASE messages = <<>>
      <4>1. PICK e : e = <<>>
        OBVIOUS
      <4>2. DOMAIN e = {}
        BY <4>1
      <4>3. DOMAIN input.items = {}
        BY <1>2, <1>5, <3>1, <4>1, <4>2
      <4>4. ResponseItems(input)
        BY <1>5, <4>3 DEF ResponseItems
      <4> QED
        BY <1>1, <4>4
    <3> QED
      BY <3>1
  <2> QED
    BY <1>1, <1>3, <2>5, <2>8, <2>9, <2>10
<1> QED
  BY <1>2, <1>4, <1>5

\* A client's own input says to Codex what it has said.
LEMMA CodexReadsInput ==
  ASSUME IsCodex(provider), NEW body, body = normal, Has(body, "input"), IsInput(body.input),
         Has(body, "messages"), body.messages = MessagesOf(body.input), NEW a, a = AdaptForCodex(body, normal)
  PROVE  ReadInput(a) = ReadInput(body)
<1>1. PICK input, messages : input = body.input /\ messages = body.messages
  OBVIOUS
<1>2. /\ Get(body, "messages", Get(normal, "messages", <<>>)) = messages
      /\ Get(normal, "messages", <<>>) = messages /\ Get(body, "input", Null) = input
  BY <1>1 DEF Get
<1>3. Instructions(messages) = <<>>
  BY <1>1, OwnMessages
<1>4. Get(a, "instructions", <<>>) = Get(body, "instructions", <<>>)
  BY <1>2, <1>3, CodexBodyIs
<1>5. CASE ResponseItems(input)
  <2>1. a.input = input
    BY <1>1, <1>2, <1>5, CodexBodyIs
  <2> QED
    BY <1>1, <1>4, <2>1 DEF ReadInput
<1>6. CASE ~ResponseItems(input)
  <2>1. PICK made : made = InputMessages(messages)
    OBVIOUS
  <2>2. /\ made # <<>>
        /\ ReadInput(body) = ReadText("system", Get(body, "instructions", <<>>)) \o InputSaid(made)
    BY <1>1, <1>6, <2>1, OwnInput
  <2>3. a.input = CodexInput(body, messages)
    BY <1>2, <1>6, CodexBodyIs
  <2>4. a.input = Arr(made)
    BY <2>1, <2>2, <2>3 DEF CodexInput
  <2>5. ReadInput(a) = ReadText("system", Get(a, "instructions", <<>>)) \o InputSaid(made)
    BY <2>4, InputIsTwo
  <2> QED
    BY <1>4, <2>2, <2>5
<1> QED
  BY <1>5, <1>6

\* The blocks that an attribution goes before.
BlocksOf(system) ==
  CASE system.form = "array"  -> system.items
    [] system.form = "string" -> <<Item("text", "claude", system.text)>>
    [] OTHER                  -> <<>>
Attributing == <<Item("text", "claude", <<Billing>>)>>

\* Of a body that is prepared, what says the conversation is sent as it is, but for an attribution.
LEMMA SentSays ==
  ASSUME NEW adapted, adapted = Prepared(endpoint, provider, BodyFor(provider), normal),
         NEW inject, inject = (NeedsInjection(FromProvider(provider), PassedNow) /\ ~Attributed(Get(adapted, "system", Null)))
  PROVE  LET b == SentTo(provider) IN
         /\ Keeps(b, adapted, ConversationKeys \ {"system"})
         /\ ~inject => Keeps(b, adapted, ConversationKeys)
         /\ inject => Has(b, "system") /\ b.system = Arr(Attributing \o BlocksOf(Get(adapted, "system", Null)))
<1> DEFINE final == FinalFor(provider)
           named == WithModel(final)
           b     == SentTo(provider)
           x     == Arr(Attributing \o BlocksOf(Get(adapted, "system", Null)))
           Passed(c) == /\ Keeps(c, adapted, ConversationKeys \ {"system"})
                        /\ ~inject => Keeps(c, adapted, ConversationKeys)
                        /\ inject => Has(c, "system") /\ c.system = x
<1>1. ASSUME NEW f, NEW c, Passed(c), \A k \in ConversationKeys : ~Has(f, k)
      PROVE  Passed(f ++ c)
  <2>1. Keeps(f ++ c, c, ConversationKeys)
    BY <1>1, OverKeeps
  <2> HIDE DEF x
  <2> QED
    BY <1>1, <2>1 DEF Keeps, ConversationKeys
<1>2. Passed(final)
  <2>1. CASE ~NeedsInjection(FromProvider(provider), PassedNow)
    <3>1. final = adapted /\ ~inject
      BY <2>1 DEF FinalFor
    <3> QED
      BY <3>1 DEF Keeps
  <2>2. CASE NeedsInjection(FromProvider(provider), PassedNow)
    <3>1. final = InjectBody(adapted) /\ (inject <=> ~Attributed(Get(adapted, "system", Null)))
      BY <2>2 DEF FinalFor
    <3>2. PICK c : c = IF Attributed(Get(adapted, "system", Null)) THEN adapted ELSE [system |-> x] ++ adapted
      OBVIOUS
    <3>3. final = InjectMetadata(c)
      BY <3>1, <3>2, Zenon DEF InjectBody, BlocksOf, Attributing
    <3>4. Passed(c)
      <4>1. CASE Attributed(Get(adapted, "system", Null))
        BY <3>1, <3>2, <4>1 DEF Keeps
      <4>2. CASE ~Attributed(Get(adapted, "system", Null))
        <5> HIDE DEF x
        <5>1. PICK f : f = [system |-> x]
          OBVIOUS
        <5>2. c = f ++ adapted /\ inject
          BY <3>1, <3>2, <4>2, <5>1
        <5>3. /\ Has(f, "system") /\ f.system = x
              /\ \A k \in ConversationKeys \ {"system"} : ~Has(f, k)
          BY <5>1 DEF Has
        <5>4. Has(c, "system") /\ c.system = x
          BY <5>2, <5>3, OverIs
        <5>5. Keeps(c, adapted, ConversationKeys \ {"system"})
          BY <5>2, <5>3, OverKeeps
        <5> QED
          BY <5>2, <5>4, <5>5
      <4> QED
        BY <4>1, <4>2
    <3>5. PICK m : m = Get(c, "metadata", <<>>) ++ [user_id |-> "router"]
      OBVIOUS
    <3>6. PICK f : f = [metadata |-> m]
      OBVIOUS
    <3>7. final = f ++ c
      BY <3>3, <3>5, <3>6, Zenon DEF InjectMetadata
    <3>8. \A k \in ConversationKeys : ~Has(f, k)
      BY <3>6 DEF Has, ConversationKeys
    <3> HIDE DEF final, Passed
    <3> QED
      BY <1>1, <3>4, <3>7, <3>8
  <2> QED
    BY <2>1, <2>2
<1>3. Passed(named)
  <2> HIDE DEF final, Passed
  <2>1. PICK f : f = [model |-> SplitModel(normal.model).name]
    OBVIOUS
  <2>2. named = final \/ named = f ++ final
    BY <2>1, Zenon DEF WithModel
  <2>3. \A k \in ConversationKeys : ~Has(f, k)
    BY <2>1 DEF Has, ConversationKeys
  <2> QED
    BY <1>1, <1>2, <2>2, <2>3
<1>4. Passed(b)
  <2>1. b = named \/ b = [stream |-> TRUE] ++ named
    BY Zenon DEF SentTo, ForceStream
  <2> HIDE DEF named, b, Passed
  <2>2. PICK f : f = [stream |-> TRUE]
    OBVIOUS
  <2>3. \A k \in ConversationKeys : ~Has(f, k)
    BY <2>2 DEF Has, ConversationKeys
  <2> QED
    BY <1>1, <1>3, <2>1, <2>2, <2>3
<1> QED
  BY <1>4

\* A system that an attribution goes before says the attribution and then what it has said.
LEMMA AttributingRead ==
  ASSUME NEW system, IsWords(system), NEW c, c = Arr(Attributing \o BlocksOf(system))
  PROVE  LET words == ReadContent("system", "claude", system) IN
         /\ ReadContent("system", "claude", c) = <<<<"system", "text", Billing>>>> \o words
         /\ IsSeq(words)
<1>1. PICK who, in, t : who = "system" /\ in = "claude" /\ t = <<Billing>>
  OBVIOUS
<1>2. PICK p, q : p = Attributing /\ q = BlocksOf(system)
  OBVIOUS
<1>3. ReadContent(who, in, c) = ReadItems(who, in, p \o q)
  BY <1>2 DEF ReadContent, Arr
<1>4. AreItems(p) /\ ReadItems(who, in, p) = ReadText(who, t)
  <2>1. IsSeq(t) /\ p = <<Item("text", in, t)>>
    BY <1>1, <1>2, OneIsSeq DEF Attributing
  <2> QED
    BY <2>1, ItemTextIs
<1>5. ReadText(who, t) = <<<<"system", "text", Billing>>>>
  <2>1. IsSeq(t) /\ DOMAIN t = {1} /\ t[1] = Billing
    BY <1>1, OneIsSeq
  <2>2. ReadText(who, t) = [i \in DOMAIN t |-> <<who, "text", t[i]>>]
    BY <2>1, TextIs
  <2> QED
    BY <1>1, <2>1, <2>2
<1>6. AreItems(q) /\ ReadItems(who, in, q) = ReadContent(who, in, system)
  <2>1. CASE system.form = "array"
    BY <1>2, <2>1 DEF IsWords, BlocksOf, ReadContent
  <2>2. CASE system.form = "string"
    <3>1. PICK s : s = system.text
      OBVIOUS
    <3>2. IsSeq(s) /\ q = <<Item("text", in, s)>> /\ ReadContent(who, in, system) = ReadText(who, s)
      BY <1>1, <1>2, <2>2, <3>1 DEF IsWords, BlocksOf, ReadContent
    <3>3. AreItems(q) /\ ReadItems(who, in, q) = ReadText(who, s)
      BY <3>2, ItemTextIs
    <3> QED
      BY <3>2, <3>3
  <2>3. CASE system.form = "null"
    <3>1. q = <<>> /\ ReadContent(who, in, system) = <<>>
      BY <1>2, <2>3 DEF BlocksOf, ReadContent
    <3>2. AreItems(<<>>)
      BY NoneIsSeq DEF AreItems
    <3> QED
      BY <3>1, <3>2, ItemsNone
  <2> QED
    BY <2>1, <2>2, <2>3 DEF IsWords
<1>7. ReadItems(who, in, p \o q) = ReadItems(who, in, p) \o ReadItems(who, in, q)
  BY <1>4, <1>6, ItemsJoin
<1>8. IsSeq(ReadItems(who, in, q))
  BY <1>6, ItemsRead
<1> QED
  BY <1>1, <1>3, <1>4, <1>5, <1>6, <1>7, <1>8

\* Claude is sent the attribution, if there is to be one, and then what the body for it says.
LEMMA ClaudeIsSent ==
  ASSUME NEW body, body = BodyFor(provider), Prepared(endpoint, provider, body, normal) = body,
         IsWords(Get(body, "system", Null)), IsSeq(ClaudeSaid(body))
  PROVE  ReadClaude(SentTo(provider)) = Attribution \o ReadClaude(body)
<1>1. PICK b, system, inject :
        /\ b = SentTo(provider) /\ system = Get(body, "system", Null)
        /\ inject = (NeedsInjection(FromProvider(provider), PassedNow) /\ ~Attributed(system))
  OBVIOUS
<1>2. /\ Keeps(b, body, ConversationKeys \ {"system"})
      /\ ~inject => Keeps(b, body, ConversationKeys)
      /\ inject => Has(b, "system") /\ b.system = Arr(Attributing \o BlocksOf(system))
  BY <1>1, SentSays
<1>3. Attribution = IF inject THEN <<<<"system", "text", Billing>>>> ELSE <<>>
  BY <1>1, Zenon DEF Attribution, BodyFor, PassedNow
<1>4. PICK said, words : said = ClaudeSaid(body) /\ words = ReadContent("system", "claude", system)
  OBVIOUS
<1>5. ReadClaude(body) = words \o said /\ IsSeq(said)
  BY <1>1, <1>4, ClaudeIsTwo
<1>6. IsSeq(words)
  BY <1>1, <1>4, AttributingRead
<1>7. CASE inject
  <2>1. PICK c, att : c = b.system /\ att = <<<<"system", "text", Billing>>>>
    OBVIOUS
  <2>2. ReadContent("system", "claude", c) = att \o words
    BY <1>1, <1>2, <1>4, <1>7, <2>1, AttributingRead
  <2>3. ClaudeSaid(b) = said
    <3>1. PICK K : K = ConversationKeys \ {"system"}
      OBVIOUS
    <3>2. \A k \in K : \A else : Get(b, k, else) = Get(body, k, else)
      BY <1>2, <3>1, KeepsAreAlike
    <3>3. "messages" \in K
      BY <3>1 DEF ConversationKeys
    <3>4. Get(b, "messages", <<>>) = Get(body, "messages", <<>>)
      BY <3>2, <3>3
    <3> QED
      BY <1>4, <3>4 DEF ClaudeSaid
  <2>4. Get(b, "system", Null) = c
    BY <1>2, <1>7, <2>1 DEF Get
  <2>5. ReadClaude(b) = (att \o words) \o said
    BY <2>2, <2>3, <2>4, ClaudeIsTwo
  <2>6. IsSeq(att)
    BY <2>1, OneIsSeq
  <2>7. (att \o words) \o said = att \o (words \o said)
    BY <1>5, <1>6, <2>6, JoinThree
  <2> QED
    BY <1>1, <1>3, <1>5, <1>7, <2>1, <2>5, <2>7
<1>8. CASE ~inject
  <2>1. Get(b, "system", Null) = Get(body, "system", Null) /\ Get(b, "messages", <<>>) = Get(body, "messages", <<>>)
    <3>1. PICK K : K = ConversationKeys
      OBVIOUS
    <3>2. \A k \in K : \A else : Get(b, k, else) = Get(body, k, else)
      BY <1>2, <1>8, <3>1, KeepsAreAlike
    <3>3. "system" \in K /\ "messages" \in K
      BY <3>1 DEF ConversationKeys
    <3> QED
      BY <3>2, <3>3
  <2>2. ReadClaude(b) = ReadClaude(body)
    BY <2>1 DEF ReadClaude
  <2>3. IsSeq(words \o said)
    BY <1>5, <1>6, JoinIsSeq
  <2>4. <<>> \o (words \o said) = words \o said
    BY <2>3, JoinNone
  <2> QED
    BY <1>1, <1>3, <1>5, <1>8, <2>2, <2>4
<1> QED
  BY <1>7, <1>8

AskedIn == DetectSource(endpoint, normal)
Adapted == Prepared(endpoint, provider, BodyFor(provider), normal)

\* From which dialect into which, and what a body is made of.
LEMMA WaysAre ==
  ASSUME endpoint \in Family, Translates
  PROVE  LET target  == FromProvider(provider)
             dialect == Speaks(endpoint, provider)
         IN  /\ dialect = "claude" =>
                  /\ target = "claude" /\ AskedIn \in {"claude", "openai"} /\ UpstreamOf(provider) = "messages"
             /\ dialect = "gemini" => target = "gemini" /\ AskedIn = "openai"
             /\ dialect = "ollama" => target = "ollama" /\ AskedIn \in {"openai", "ollama"}
             /\ dialect = "openai" => target = "openai" /\ AskedIn = "openai" /\ endpoint # "responses"
             /\ dialect = "responses" =>
                  \/ AskedIn = "responses" /\ target \in {"openai", "responses"}
                  \/ AskedIn \in {"openai", "claude"} /\ target = "responses"
             /\ dialect # "claude" => target # "claude"
             /\ dialect \in {"claude", "gemini", "ollama", "openai", "responses"}
             /\ AskedIn = "claude" <=> endpoint = "messages"
             /\ AskedIn = "responses" => endpoint = "responses"
             /\ UpstreamOf(provider) = "responses" => endpoint = "responses" \/ target = "responses"
<1>1. FromProvider(provider) \in {"claude", "gemini", "ollama", "openai", "responses"}
  BY DEF FromProvider
<1>2. FromProvider(Resolved(provider)) \in {"claude", "gemini", "ollama", "openai", "responses"}
  BY DEF FromProvider
<1>3. PICK target, own, dialect : /\ target = FromProvider(provider) /\ own = FromProvider(Resolved(provider))
                                  /\ dialect = Speaks(endpoint, provider)
  OBVIOUS
<1>4. dialect = IF own = "openai" /\ endpoint = "responses" THEN "responses" ELSE own
  BY <1>3 DEF Speaks
<1>5. \/ AskedIn = dialect /\ target = own
      \/ target = dialect /\ (AskedIn = "openai" \/ (AskedIn = "claude" /\ target = "responses"))
  BY <1>3 DEF Translates, AskedIn
<1>6. /\ AskedIn \in {"claude", "openai", "responses", "ollama"}
      /\ AskedIn = "claude" <=> endpoint = "messages"
      /\ AskedIn = "responses" => endpoint = "responses"
      /\ AskedIn = "ollama" <=> endpoint = "ollama"
  BY DEF AskedIn, DetectSource
<1>7. UpstreamOf(provider) = IF endpoint # "ollama" /\ target = "claude" THEN "messages"
                             ELSE IF target = "responses" THEN "responses" ELSE endpoint
  BY <1>3 DEF UpstreamOf, UpstreamEndpoint, ToMessagesEndpoint
<1> QED
  BY <1>1, <1>2, <1>3, <1>4, <1>5, <1>6, <1>7

\* Where there is no attribution, what is sent says what the body has said.
LEMMA OthersAreSent ==
  ASSUME FromProvider(provider) # "claude", NEW d,
         d = "gemini" => Has(Adapted, "contents"), d = "responses" => Has(Adapted, "input")
  PROVE  Read(d, SentTo(provider)) = Read(d, Adapted) /\ Attribution = <<>>
<1>1. ~NeedsInjection(FromProvider(provider), PassedNow)
  BY DEF NeedsInjection
<1>2. PICK b, adapted, inject :
        /\ b = SentTo(provider) /\ adapted = Prepared(endpoint, provider, BodyFor(provider), normal)
        /\ inject = (NeedsInjection(FromProvider(provider), PassedNow) /\ ~Attributed(Get(adapted, "system", Null)))
  OBVIOUS
<1>3. adapted = Adapted
  BY <1>2 DEF Adapted
<1>4. Keeps(b, adapted, ConversationKeys)
  BY <1>1, <1>2, SentSays
<1>5. Read(d, b) = Read(d, adapted)
  BY <1>3, <1>4, ReadKeeps
<1>6. Attribution = <<>>
  BY <1>1, Zenon DEF Attribution, PassedNow
<1> QED
  BY <1>2, <1>3, <1>5, <1>6

\* What is to be told.
Wanted == IF Speaks(endpoint, provider) = "responses" /\ AskedIn # "responses" THEN ToldOf(Conversation) ELSE Conversation

\* What is sent says what is to be told if it says this after the attribution.
LEMMA ToldWanted ==
  ASSUME Read(Speaks(endpoint, provider), sent) = Attribution \o Wanted
  PROVE  ToldAsAsked
<1>1. ToldOf(Conversation) = FlatMap(Conversation, LAMBDA t : When(Told(t), <<t>>))
  BY Zenon DEF ToldOf, FlatMap, MapSeq, When
<1>2. PICK told : told = FlatMap(Conversation, LAMBDA t : When(Told(t), <<t>>))
  OBVIOUS
<1>3. PICK dialect : dialect = Speaks(endpoint, provider)
  OBVIOUS
<1>4. Wanted = IF dialect = "responses" /\ AskedIn # dialect THEN told ELSE Conversation
  BY <1>1, <1>2, <1>3 DEF Wanted
<1>5. Read(dialect, sent) = Attribution \o IF dialect = "responses" /\ ~(AskedIn = dialect) THEN told ELSE Conversation
  BY <1>3, <1>4
<1> QED
  BY <1>2, <1>3, <1>5, Zenon DEF ToldAsAsked, AskedIn

\* The messages of a chat, which are what Tellable says of them.
LEMMA ChatIsTellable ==
  ASSUME Tellable, AskedIn \notin {"claude", "responses"}, NEW messages, messages = Get(normal, "messages", <<>>),
         NEW d, d = Speaks(endpoint, provider)
  PROVE  /\ AreChat(d, messages)
         /\ d = "responses" => ~Has(normal, "input") /\ ~Has(normal, "instructions")
         /\ endpoint = "responses" /\ IsCodex(provider) => d # "ollama"
<1>1. /\ IsSeq(messages) /\ \A m \in Range(messages) : IsChatMessage(d, m)
      /\ d = "responses" => {"input", "instructions"} \cap DOMAIN normal = {}
      /\ endpoint = "responses" /\ IsCodex(provider) => d # "ollama"
  BY Zenon DEF Tellable, AskedIn
<1> QED
  BY <1>1 DEF AreChat, Range, Has

\* Claude is told the conversation, whether the client has written it for Claude or as a chat.
LEMMA TellsClaude ==
  ASSUME endpoint \in Family, Translates, Tellable, ~Bad(BodyFor(provider)), Speaks(endpoint, provider) = "claude"
  PROVE  ReadClaude(SentTo(provider)) = Attribution \o Conversation
<1>1. PICK messages, body, d :
        messages = Get(normal, "messages", <<>>) /\ body = BodyFor(provider) /\ d = Speaks(endpoint, provider)
  OBVIOUS
<1>2. /\ FromProvider(provider) = "claude" /\ AskedIn \in {"claude", "openai"} /\ UpstreamOf(provider) = "messages"
      /\ AskedIn = "claude" <=> endpoint = "messages"
  BY WaysAre
<1>3. Prepared(endpoint, provider, body, normal) = body
  BY <1>2 DEF Prepared, UpstreamOf
<1>4. CASE AskedIn = "claude"
  <2>1. body = normal
    BY <1>1, <1>2, <1>4 DEF BodyFor, TranslateRequest, AskedIn
  <2>2. PICK system : system = Get(normal, "system", Null)
    OBVIOUS
  <2>3. AreClaude(messages) /\ IsContent(system, "claude", {"text"})
    <3>1. /\ IsSeq(messages) /\ \A m \in Range(messages) : IsClaudeMessage(m)
          /\ IsContent(Get(normal, "system", Null), "claude", {"text"})
      BY <1>1, <1>4, Zenon DEF Tellable, AskedIn
    <3> QED
      BY <2>2, <3>1 DEF AreClaude, Range
  <2>4. IsWords(system) /\ IsSeq(ClaudeSaid(normal))
    BY <1>1, <1>2, <1>4, <2>2, <2>3, ToldClaude
  <2>5. ReadClaude(SentTo(provider)) = Attribution \o ReadClaude(body)
    BY <1>1, <1>3, <2>1, <2>2, <2>4, ClaudeIsSent
  <2>6. Conversation = ReadClaude(normal)
    <3>1. endpoint = "messages" /\ DetectSource(endpoint, normal) # "responses"
      BY <1>2, <1>4 DEF AskedIn
    <3> QED
      BY <3>1, Zenon DEF Conversation
  <2> QED
    BY <2>1, <2>5, <2>6
<1>5. CASE AskedIn = "openai"
  <2>1. body = ToClaude(normal)
    BY <1>1, <1>2, <1>5 DEF BodyFor, TranslateRequest, AskedIn, FromOpenAI
  <2>2. messages # <<>>
    <3>1. messages = <<>> => ToClaude(normal) = Error
      BY <1>1, Zenon DEF ToClaude
    <3> QED
      BY <1>1, <2>1, <3>1 DEF Bad
  <2>3. AreChat("claude", messages)
    BY <1>1, <1>5, ChatIsTellable
  <2>4. /\ ReadClaude(ToClaude(normal)) = ReadChat(messages, FALSE)
        /\ IsWords(Get(ToClaude(normal), "system", Null)) /\ IsSeq(ClaudeSaid(ToClaude(normal)))
    BY <1>1, <2>2, <2>3, ToClaudeRead
  <2>5. ReadClaude(SentTo(provider)) = Attribution \o ReadClaude(body)
    BY <1>1, <1>3, <2>1, <2>4, ClaudeIsSent
  <2>6. Conversation = ReadChat(messages, FALSE)
    <3>1. PICK named : named = (FromProvider(provider) = "gemini")
      OBVIOUS
    <3>2. Conversation = ReadChat(messages, named)
      BY <1>1, <1>2, <1>5, <3>1, Zenon DEF Conversation, AskedIn
    <3>3. named = FALSE
      BY <1>2, <3>1
    <3> QED
      BY <3>2, <3>3
  <2> QED
    BY <2>1, <2>4, <2>5, <2>6
<1> QED
  BY <1>2, <1>4, <1>5

\* Gemini is told the chat.
LEMMA TellsGemini ==
  ASSUME endpoint \in Family, Translates, Tellable, ~Bad(BodyFor(provider)), Speaks(endpoint, provider) = "gemini"
  PROVE  ReadGemini(SentTo(provider)) = Attribution \o Conversation
<1>1. PICK messages, body, adapted, d :
        /\ messages = Get(normal, "messages", <<>>) /\ body = BodyFor(provider) /\ d = Speaks(endpoint, provider)
        /\ adapted = Adapted
  OBVIOUS
<1>2. FromProvider(provider) = "gemini" /\ AskedIn = "openai" /\ endpoint # "messages"
  BY WaysAre
<1>3. body = ToGemini(normal)
  BY <1>1, <1>2 DEF BodyFor, TranslateRequest, AskedIn, FromOpenAI
<1>4. Has(normal, "messages") /\ messages = normal.messages
  <2>1. ~Has(normal, "messages") => ToGemini(normal) = Error
    BY Zenon DEF ToGemini
  <2> QED
    BY <1>1, <1>3, <2>1 DEF Bad, Get
<1>5. AreChat("gemini", messages)
  BY <1>1, <1>2, ChatIsTellable
<1>6. ReadGemini(body) = ReadChat(messages, TRUE)
  BY <1>3, <1>4, <1>5, ToGeminiRead
<1>7. Has(body, "contents")
  <2>1. PICK system : system = FlattenSeq([i \in DOMAIN messages |->
                        IF IsSystem(messages[i]) THEN GeminiText(TextOf(messages[i].content)) ELSE <<>>])
    OBVIOUS
  <2> QED
    BY <1>3, <1>4, <2>1, GeminiBodyIs
<1>8. Keeps(adapted, body, {"contents", "systemInstruction"})
  <2>1. adapted = body \/ adapted = AdaptForCodex(body, normal)
    BY <1>1, Zenon DEF Adapted, Prepared
  <2>2. CASE adapted = body
    BY <2>2 DEF Keeps
  <2>3. CASE adapted = AdaptForCodex(body, normal)
    <3>1. Keeps(adapted, body, {"contents", "systemInstruction", "system"})
      BY <2>3, CodexBodyIs
    <3> QED
      BY <3>1 DEF Keeps
  <2> QED
    BY <2>1, <2>2, <2>3
<1>9. Has(adapted, "contents") /\ adapted.contents = body.contents
      /\ Get(adapted, "systemInstruction", <<>>) = Get(body, "systemInstruction", <<>>)
  BY <1>7, <1>8 DEF Keeps, Get
<1>10. ReadGemini(adapted) = ReadGemini(body)
  BY <1>9 DEF ReadGemini
<1>11. Read("gemini", SentTo(provider)) = Read("gemini", adapted) /\ Attribution = <<>>
  BY <1>1, <1>2, <1>9, OthersAreSent
<1>12. ReadGemini(SentTo(provider)) = ReadGemini(adapted)
  BY <1>11 DEF Read
<1>13. Conversation = ReadChat(messages, TRUE)
  <2>1. PICK named : named = (FromProvider(provider) = "gemini")
    OBVIOUS
  <2>2. Conversation = ReadChat(messages, named)
    BY <1>1, <1>2, <2>1, Zenon DEF Conversation, AskedIn
  <2>3. named = TRUE
    BY <1>2, <2>1
  <2> QED
    BY <2>2, <2>3
<1>14. IsSeq(Conversation)
  <2>1. PICK named, g : named = TRUE /\ g = "gemini"
    OBVIOUS
  <2>2. IsSeq(ReadChat(messages, named))
    BY <1>5, <2>1, ChatIsTwo
  <2> QED
    BY <1>13, <2>1, <2>2
<1>15. <<>> \o Conversation = Conversation
  BY <1>14, JoinNone
<1> QED
  BY <1>6, <1>10, <1>11, <1>12, <1>13, <1>15

\* A chat goes to OpenAI and to Ollama as it is.
LEMMA TellsChat ==
  ASSUME endpoint \in Family, Translates, Tellable, Speaks(endpoint, provider) \in {"openai", "ollama"}
  PROVE  Read(Speaks(endpoint, provider), SentTo(provider)) = Attribution \o Conversation
<1>1. PICK messages, body, d :
        messages = Get(normal, "messages", <<>>) /\ body = BodyFor(provider) /\ d = Speaks(endpoint, provider)
  OBVIOUS
<1>2. /\ FromProvider(provider) = d /\ d \in {"openai", "ollama"}
      /\ AskedIn \in {"openai", "ollama"} /\ endpoint # "messages"
      /\ d = "openai" => AskedIn = "openai" /\ endpoint # "responses"
      /\ UpstreamOf(provider) = "responses" => endpoint = "responses"
  BY <1>1, WaysAre
<1>3. /\ AreChat(d, messages)
      /\ endpoint = "responses" /\ IsCodex(provider) => d # "ollama"
  BY <1>1, <1>2, ChatIsTellable
<1>4. Adapted = body
  BY <1>1, <1>2, <1>3 DEF Adapted, Prepared, UpstreamOf
<1>5. Get(body, "messages", <<>>) = messages
  <2>1. body = normal \/ body = ToOllama(normal)
    BY <1>1, <1>2 DEF BodyFor, TranslateRequest, AskedIn, FromOpenAI
  <2>2. Get(ToOllama(normal), "messages", <<>>) = messages
    <3>1. PICK f, g : f = [stream |-> Get(normal, "stream", FALSE)] /\ g = Only(normal, {"messages", "tools"})
      OBVIOUS
    <3>2. ToOllama(normal) = f ++ g
      BY <3>1, Zenon DEF ToOllama
    <3>3. /\ ~Has(f, "messages") /\ (Has(g, "messages") <=> Has(normal, "messages"))
          /\ Has(g, "messages") => g.messages = normal.messages
      BY <3>1 DEF Has, Only
    <3>4. Get(f ++ g, "messages", <<>>) = messages
      BY <1>1, <3>3, OverIs DEF Get
    <3> QED
      BY <3>2, <3>4
  <2> QED
    BY <1>1, <2>1, <2>2
<1>6. Read(d, SentTo(provider)) = Read(d, body) /\ Attribution = <<>>
  BY <1>2, <1>4, OthersAreSent
<1>7. Read(d, body) = ReadChat(messages, FALSE)
  BY <1>2, <1>5 DEF Read
<1>8. Conversation = ReadChat(messages, FALSE)
  <2>1. PICK named : named = (FromProvider(provider) = "gemini")
    OBVIOUS
  <2>2. Conversation = ReadChat(messages, named)
    BY <1>1, <1>2, <2>1, Zenon DEF Conversation, AskedIn
  <2>3. named = FALSE
    BY <1>2, <2>1
  <2> QED
    BY <2>2, <2>3
<1>9. IsSeq(Conversation)
  <2>1. PICK named : named = FALSE
    OBVIOUS
  <2>2. IsSeq(ReadChat(messages, named))
    BY <1>3, <2>1, ChatIsTwo
  <2> QED
    BY <1>8, <2>1, <2>2
<1>10. <<>> \o Conversation = Conversation
  BY <1>9, JoinNone
<1> QED
  BY <1>1, <1>6, <1>7, <1>8, <1>10

\* Responses is told what the body for it says, also if it is Codex.
LEMMA ResponsesIsSent ==
  ASSUME FromProvider(provider) # "claude", NEW body, body = BodyFor(provider), Has(body, "input"),
         IsCodex(provider) => ReadInput(AdaptForCodex(body, normal)) = ReadInput(body)
  PROVE  ReadInput(SentTo(provider)) = ReadInput(body) /\ Attribution = <<>>
<1>1. PICK adapted : adapted = Adapted
  OBVIOUS
<1>2. adapted = body \/ (IsCodex(provider) /\ adapted = AdaptForCodex(body, normal))
  BY <1>1, Zenon DEF Adapted, Prepared
<1>3. Has(adapted, "input") /\ ReadInput(adapted) = ReadInput(body)
  BY <1>2, CodexBodyIs
<1>4. Read("responses", SentTo(provider)) = Read("responses", adapted) /\ Attribution = <<>>
  BY <1>1, <1>3, OthersAreSent
<1> QED
  BY <1>3, <1>4 DEF Read

\* Responses is told the texts of a chat.
LEMMA TellsResponses ==
  ASSUME endpoint \in Family, Translates, Tellable, Speaks(endpoint, provider) = "responses", AskedIn = "openai"
  PROVE  ReadInput(SentTo(provider)) = ToldOf(Conversation) /\ Attribution = <<>> /\ IsSeq(Conversation)
<1>1. PICK messages, body, d, input, x :
        /\ messages = Get(normal, "messages", <<>>) /\ body = BodyFor(provider) /\ d = Speaks(endpoint, provider)
        /\ input = InputMessages(messages) /\ x = Instructions(messages)
  OBVIOUS
<1>2. FromProvider(provider) = "responses" /\ endpoint # "messages"
  BY WaysAre
<1>3. body = ToResponses(normal)
  BY <1>1, <1>2 DEF BodyFor, TranslateRequest, AskedIn, FromOpenAI
<1>4. AreChat("responses", messages) /\ ~Has(normal, "input") /\ ~Has(normal, "instructions")
  BY <1>1, ChatIsTellable
<1>5. /\ Has(body, "input") /\ body.input = Arr(input) /\ Get(body, "instructions", <<>>) = x
  BY <1>1, <1>3, <1>4, ResponsesBodyIs
<1>6. /\ ToldOf(ReadChat(messages, FALSE)) = ReadText("system", x) \o InputSaid(input)
      /\ \A i \in DOMAIN input : Has(input[i], "typed")
  BY <1>1, <1>2, <1>4, ToldChat
<1>7. ReadInput(body) = ReadText("system", x) \o InputSaid(input)
  BY <1>5, InputIsTwo
<1>8. ReadInput(AdaptForCodex(body, normal)) = ReadInput(body)
  BY <1>1, <1>5, <1>6, CodexKeepsItems
<1>9. ReadInput(SentTo(provider)) = ReadInput(body) /\ Attribution = <<>>
  BY <1>1, <1>2, <1>5, <1>8, ResponsesIsSent
<1>10. Conversation = ReadChat(messages, FALSE)
  <2>1. PICK named : named = (FromProvider(provider) = "gemini")
    OBVIOUS
  <2>2. Conversation = ReadChat(messages, named)
    BY <1>1, <1>2, <2>1, Zenon DEF Conversation, AskedIn
  <2>3. named = FALSE
    BY <1>2, <2>1
  <2> QED
    BY <2>2, <2>3
<1>11. IsSeq(Conversation)
  <2>1. PICK named, g : named = FALSE /\ g = "responses"
    OBVIOUS
  <2>2. IsSeq(ReadChat(messages, named))
    BY <1>4, <2>1, ChatIsTwo
  <2> QED
    BY <1>10, <2>1, <2>2
<1> QED
  BY <1>6, <1>7, <1>9, <1>10, <1>11

\* Responses is told the texts of a conversation with Claude.
LEMMA TellsResponsesOfClaude ==
  ASSUME endpoint \in Family, Translates, Tellable, Speaks(endpoint, provider) = "responses", AskedIn = "claude"
  PROVE  ReadInput(SentTo(provider)) = ToldOf(Conversation) /\ Attribution = <<>> /\ IsSeq(Conversation)
<1>1. PICK messages, system, body, input, x :
        /\ messages = Get(normal, "messages", <<>>) /\ system = Get(normal, "system", Null) /\ body = BodyFor(provider)
        /\ input = InputMessages(messages) /\ x = TextOf(system)
  OBVIOUS
<1>2. FromProvider(provider) = "responses" /\ endpoint = "messages"
  BY WaysAre
<1>3. body = ClaudeToResponses(normal)
  BY <1>1, <1>2 DEF BodyFor, TranslateRequest, AskedIn
<1>4. AreClaude(messages) /\ IsContent(system, "claude", {"text"})
  <2>1. /\ IsSeq(messages) /\ \A m \in Range(messages) : IsClaudeMessage(m)
        /\ IsContent(system, "claude", {"text"})
    BY <1>1, Zenon DEF Tellable, AskedIn
  <2> QED
    BY <2>1 DEF AreClaude, Range
<1>5. /\ ToldOf(ReadClaude(normal)) = ReadText("system", x) \o InputSaid(input)
      /\ Instructions(messages) = <<>> /\ IsSeq(ReadClaude(normal))
      /\ \A i \in DOMAIN input : Has(input[i], "typed")
  BY <1>1, <1>2, <1>4, ToldClaude
<1>6. Has(body, "input") /\ body.input = Arr(input) /\ Get(body, "instructions", <<>>) = x
  BY <1>1, <1>3, ClaudeInputIs
<1>7. ReadInput(body) = ReadText("system", x) \o InputSaid(input)
  BY <1>6, InputIsTwo
<1>8. ReadInput(AdaptForCodex(body, normal)) = ReadInput(body)
  <2>1. ~Has(body, "instructions") => Get(body, "instructions", <<>>) = <<>>
    BY DEF Get
  <2>2. Has(body, "instructions") \/ Instructions(Get(normal, "messages", <<>>)) = Get(body, "instructions", <<>>)
    BY <1>1, <1>5, <2>1
  <2> QED
    BY <1>5, <1>6, <2>2, CodexKeepsItems
<1>9. ReadInput(SentTo(provider)) = ReadInput(body) /\ Attribution = <<>>
  BY <1>1, <1>2, <1>6, <1>8, ResponsesIsSent
<1>10. Conversation = ReadClaude(normal)
  <2>1. DetectSource(endpoint, normal) # "responses"
    BY DEF AskedIn
  <2> QED
    BY <1>2, <2>1, Zenon DEF Conversation
<1> QED
  BY <1>5, <1>7, <1>9, <1>10

\* An input is Responses' already.
LEMMA TellsOwn ==
  ASSUME Exchanged, IsSent, endpoint \in Family, Translates, Tellable, Speaks(endpoint, provider) = "responses",
         AskedIn = "responses"
  PROVE  ReadInput(SentTo(provider)) = Conversation /\ Attribution = <<>> /\ IsSeq(Conversation)
<1>1. PICK body : body = BodyFor(provider)
  OBVIOUS
<1>2. /\ FromProvider(provider) \in {"openai", "responses"} /\ endpoint = "responses"
  BY WaysAre
<1>3. body = normal
  BY <1>1, <1>2 DEF BodyFor, TranslateRequest, AskedIn
<1>4. /\ Has(asked, "input") /\ IsInput(asked.input) /\ IsSeq(Get(asked, "instructions", <<>>))
      /\ IsCodex(provider) => ~Has(asked, "messages")
  BY Zenon DEF Tellable, AskedIn
<1>5. PICK f : f = [messages |-> MessagesOf(asked.input)]
  OBVIOUS
<1>6. normal = asked ++ f
  <2>1. normal = NormalizeRequest(endpoint, asked) /\ normal # Error
    BY DEF Exchanged, AsSent, Bad
  <2>2. normal = Shaped(endpoint, asked)
    BY <2>1, Zenon DEF NormalizeRequest, Bad
  <2>3. PICK w : w = MessagesOf(Get(asked, "input", Null))
    OBVIOUS
  <2>4. normal = asked ++ When(Has(asked, "input"), [messages |-> w])
    BY <1>2, <2>2, <2>3 DEF Shaped, Required
  <2>5. w = MessagesOf(asked.input)
    BY <1>4, <2>3 DEF Get
  <2> QED
    BY <1>4, <1>5, <2>4, <2>5 DEF When
<1>7. Has(f, "messages") /\ f.messages = MessagesOf(asked.input) /\ ~Has(f, "input") /\ ~Has(f, "instructions")
  BY <1>5 DEF Has
<1>8. /\ Has(normal, "input") /\ normal.input = asked.input
      /\ Has(normal, "instructions") <=> Has(asked, "instructions")
      /\ Has(asked, "instructions") => normal.instructions = asked.instructions
      /\ ~Has(asked, "messages") => Has(normal, "messages") /\ normal.messages = MessagesOf(asked.input)
  BY <1>4, <1>6, <1>7, OverIs
<1>9. Get(normal, "instructions", <<>>) = Get(asked, "instructions", <<>>)
  BY <1>8 DEF Get
<1>10. ReadInput(normal) = ReadInput(asked)
  BY <1>8, <1>9 DEF ReadInput
<1>11. ASSUME IsCodex(provider) PROVE ReadInput(AdaptForCodex(body, normal)) = ReadInput(body)
  BY <1>3, <1>4, <1>8, <1>11, CodexReadsInput
<1>12. ReadInput(SentTo(provider)) = ReadInput(body) /\ Attribution = <<>>
  <2>1. FromProvider(provider) # "claude"
    BY <1>2
  <2> QED
    BY <1>1, <1>3, <1>8, <1>11, <2>1, ResponsesIsSent
<1>13. Conversation = ReadInput(asked)
  <2>1. endpoint # "messages" /\ DetectSource(endpoint, normal) = "responses"
    BY <1>2 DEF AskedIn
  <2> QED
    BY <2>1, Zenon DEF Conversation
<1>14. IsSeq(ReadInput(asked))
  BY <1>4, InputIsSeq
<1> QED
  BY <1>3, <1>10, <1>12, <1>13, <1>14

\* Whatever the dialects, the provider is told the conversation.
LEMMA ConversationIsTold ==
  ASSUME Exchanged, IsSent, endpoint \in Family, Translates, Tellable
  PROVE  ToldAsAsked
<1>1. sent = SentTo(provider) /\ ~Bad(BodyFor(provider))
  BY DEF Exchanged, AsSent
<1>2. PICK d : d = Speaks(endpoint, provider)
  OBVIOUS
<1>3. /\ d \in {"claude", "gemini", "ollama", "openai", "responses"}
      /\ d = "responses" => AskedIn \in {"responses", "openai", "claude"}
  BY <1>2, WaysAre
<1>4. Read(d, sent) = Attribution \o Wanted
  <2>1. CASE d = "claude"
    BY <1>1, <1>2, <2>1, TellsClaude DEF Read, Wanted
  <2>2. CASE d = "gemini"
    BY <1>1, <1>2, <2>2, TellsGemini DEF Read, Wanted
  <2>3. CASE d \in {"openai", "ollama"}
    BY <1>1, <1>2, <2>3, TellsChat DEF Wanted
  <2>4. CASE d = "responses" /\ AskedIn = "responses"
    <3>1. Read(d, sent) = Conversation /\ Attribution = <<>> /\ Wanted = Conversation
      BY <1>1, <1>2, <2>4, TellsOwn DEF Read, Wanted
    <3>2. <<>> \o Conversation = Conversation
      BY <1>2, <2>4, TellsOwn, JoinNone
    <3> QED
      BY <3>1, <3>2
  <2>5. CASE d = "responses" /\ AskedIn \in {"openai", "claude"}
    <3>1. Read(d, sent) = ToldOf(Conversation) /\ Attribution = <<>> /\ Wanted = ToldOf(Conversation)
      BY <1>1, <1>2, <2>5, TellsResponses, TellsResponsesOfClaude DEF Read, Wanted
    <3>2. IsSeq(ToldOf(Conversation))
      <4>1. IsSeq(Conversation)
        BY <1>2, <2>5, TellsResponses, TellsResponsesOfClaude
      <4> QED
        BY <4>1, ToldJoin
    <3>3. <<>> \o ToldOf(Conversation) = ToldOf(Conversation)
      BY <3>2, JoinNone
    <3> QED
      BY <3>1, <3>3
  <2> QED
    BY <1>3, <2>1, <2>2, <2>3, <2>4, <2>5
<1> QED
  BY <1>2, <1>4, ToldWanted

LEMMA ExchangeIsDirected == Exchanged /\ IsSent => Directed
BY ModelIsSent, NoneStrays, AllAddressed, AllSwitched, AllSearched, AllOnce DEF Directed

-------------------------------------------------------------------------------
\* For any requests and providers: where there is a way between the dialects, a request goes to
\* a page where the dialect of its body is read, under the base of the line or of its account;
\* the model has the name that is the provider's, and whether to stream, whether tools may be used
\* and who the user is are as the client has said; a search engine is asked in its own words for
\* what the client has asked; a model without a provider goes to one that is known for it, if one
\* is in service; and no header goes out twice, the client's being the one that counts
\* (upstream.rs:264-381, 744-926, search.rs:20-195, service.rs:472-509, 1777-1879, 2850-2925,
\* openai_to_claude.rs:8, openai_to_gemini.rs:12, ollama.rs:6, openai_responses.rs:5, fingerprint.rs).
THEOREM DirectedRequests == Spec => [](IsSent => Directed)
<1>1. Exchanged => (IsSent => Directed)
  BY ExchangeIsDirected
<1> QED
  BY <1>1, ExchangeInvariant, PTL

\* For any requests and providers, in whichever of the five dialects a client writes and a provider
\* reads: where there is a way between the two and the client has written nothing that it leaves
\* out, the provider is told the whole conversation, the same texts, images, calls and results by
\* the same speakers in the same order, the system's first and an attribution before it once, if
\* there is to be one; Responses is told the texts.  That it is directed as asked is part of it
\* (openai_to_claude.rs:8, openai_to_gemini.rs:12, ollama.rs:6, openai_responses.rs:5, 55,
\* service.rs:1813-1987, 1988-2110, fingerprint.rs:405).
THEOREM RequestsAreTold == Spec => []SentAsAsked
<1>1. Exchanged => SentAsAsked
  <2>1. Exchanged /\ IsSent /\ endpoint \in Family /\ Translates /\ Tellable => ToldAsAsked
    BY ConversationIsTold
  <2> QED
    BY <2>1, ExchangeIsDirected DEF SentAsAsked
<1> QED
  BY <1>1, ExchangeInvariant, PTL
===============================================================================
