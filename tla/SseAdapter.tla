------------------------------- MODULE SseAdapter -------------------------------
(***************************************************************************)
(* A client of /v1/chat/completions or /v1/messages is answered by an      *)
(* upstream that speaks Responses.  While the upstream's events come in,   *)
(* in chunks that are cut anywhere, responses_sse_to_endpoint_stream turns *)
(* them into the client's.  Events that have come as one body go through   *)
(* responses_sse_transcript_to_endpoint_stream_text or, for a client that  *)
(* does not stream, through reconstruct_responses_from_sse.                *)
(***************************************************************************)
EXTENDS Naturals, Sequences, FiniteSets, SequencesExt

CONSTANT Scripts   \* what the upstream may send

\* The events by what the adapters tell apart: "text" has a delta of the answer, "thought" a
\* delta of something else, "item" a finished item with all of its text, "completed" is any
\* event whose name ends so, "incomplete" the response that was cut off, "failed" the one that
\* failed, "error" an error without a response, "junk" is no JSON.
Kinds == {"created", "text", "thought", "item", "completed", "incomplete", "failed", "error",
          "junk", "[DONE]"}

\* wide: the payload has a character of several bytes.
Frames == [kind : Kinds, wide : BOOLEAN]

\* crlf: the lines end so.  closed: the last frame has its empty line.  full: the response at
\* the end has the whole output in it, which Codex leaves out.
ASSUME ScriptsAssumption ==
  Scripts \subseteq [frames : Seq(Frames), crlf : BOOLEAN, closed : BOOLEAN, full : BOOLEAN]

VARIABLES
  script,   \* what the upstream of this stream sends
  endpoint, \* what the client has called
  arrived,  \* how much of the script has come in
  used,     \* frames taken from pending
  hurt,     \* frames with a character that was cut by the end of a chunk
  started,  \* state.messages_started
  done,     \* state.done
  out,      \* the events sent to the client
  phase

streamVars == <<script, endpoint, arrived, used, hurt, started, done, out, phase>>
-------------------------------------------------------------------------------
\* A frame comes in three parts: two halves of its payload, and the empty line.
Size(s) == 3 * Len(s.frames) - IF s.closed \/ s.frames = <<>> THEN 0 ELSE 1

\* The i-th frame's text, with a replacement character in it unless whole.
Text(i, whole) == [event |-> "text", frame |-> i, whole |-> whole]
Plain(name)    == [event |-> name, frame |-> 0, whole |-> TRUE]

Emitted == [event : {"text", "message_start", "content_block_start", "content_block_stop",
                     "message_delta", "message_stop", "finish", "[DONE]", "error"},
            frame : Nat, whole : BOOLEAN]

NoScript == [frames |-> <<>>, crlf |-> FALSE, closed |-> TRUE, full |-> FALSE]

StreamType ==
  /\ script  \in Scripts \cup {NoScript}
  /\ arrived \in 0 .. Size(script)
  /\ used    \in 0 .. Len(script.frames)
  /\ hurt    \subseteq DOMAIN script.frames
  /\ {started, done} \subseteq BOOLEAN
  /\ out     \in Seq(Emitted)
  /\ phase   \in {"waiting", "reading", "rest", "stop", "ended", "broken"}

StreamInit ==
  /\ script = NoScript
  /\ arrived = 0 /\ used = 0 /\ hurt = {}
  /\ started = FALSE /\ done = FALSE
  /\ out = <<>> /\ phase = "waiting"
-------------------------------------------------------------------------------
(***************************************************************************)
(* One event                                                               *)
(***************************************************************************)
\* responses_messages_stop_event
MessagesStop(begun) ==
  (IF begun THEN <<>> ELSE <<Plain("message_start")>>)
  \o <<Plain("content_block_stop"), Plain("message_delta"), Plain("message_stop")>>

Stop(client, begun) == IF client = "messages" THEN MessagesStop(begun) ELSE <<Plain("[DONE]")>>

Fails(kind)   == kind \in {"failed", "error"}
Ends(kind)    == Fails(kind) \/ kind = "completed"
Ignored(kind) == kind \notin {"text", "completed", "failed", "error"}

ToChat(kind, text) ==
  CASE Fails(kind)        -> <<Plain("error")>>
    [] kind = "text"      -> <<text>>
    [] kind = "completed" -> <<Plain("finish"), Plain("[DONE]")>>
    [] Ignored(kind)      -> <<>>

ToMessages(kind, text, begun) ==
  CASE Fails(kind)        -> <<Plain("error")>>
    [] kind = "text"      -> (IF begun THEN <<>>
                              ELSE <<Plain("message_start"), Plain("content_block_start")>>) \o <<text>>
    [] kind = "completed" -> MessagesStop(begun)
    [] Ignored(kind)      -> <<>>

\* state.messages_started after an event
Begun(client, kind, begun) == begun \/ (client = "messages" /\ kind \in {"text", "completed"})

\* What one event does to the state of the stream.
Feed(client, s, kind, text) ==
  [started |-> Begun(client, kind, s.started),
   done    |-> s.done \/ Ends(kind),
   out     |-> s.out \o IF client = "chat" THEN ToChat(kind, text)
                        ELSE ToMessages(kind, text, s.started)]

\* Mistake: an end is made up even after the upstream's.
Finish_Always(client, s) == [s EXCEPT !.out = @ \o Stop(client, s.started)]

\* An end that the upstream has not sent is made up.
Finish(client, s) == IF s.done THEN s ELSE [s EXCEPT !.out = @ \o Stop(client, s.started)]
-------------------------------------------------------------------------------
(***************************************************************************)
(* Events that have come as one body                                       *)
(***************************************************************************)
FrameText(i, cut) == Text(i, i \notin cut)

Fresh == [started |-> FALSE, done |-> FALSE, out |-> <<>>]

\* The state after each of the events.  A character that was damaged in transit damages its
\* frame, and no more.
Fed(client, s, cut) ==
  LET after[i \in 0 .. Len(s.frames)] ==
        IF i = 0 THEN Fresh ELSE Feed(client, after[i - 1], s.frames[i].kind, FrameText(i, cut))
  IN  after

Transcript(client, s, cut) == Finish(client, Fed(client, s, cut)[Len(s.frames)]).out

FramesOf(s, wanted) == SelectSeq([i \in DOMAIN s.frames |-> i], LAMBDA i : i \in wanted)

\* The events with a response; the fields of the last one stay.
Stated(s) == {i \in DOMAIN s.frames :
                s.frames[i].kind \in {"created", "completed", "incomplete", "failed"}}

StatusOf(kind) == IF kind = "created" THEN "in_progress" ELSE kind

\* A finished item has the text of the deltas before it.
InItems(s) == {i \in DOMAIN s.frames :
                 s.frames[i].kind = "text" /\ \E j \in DOMAIN s.frames : i < j /\ s.frames[j].kind = "item"}

\* The response's own output, if it is not empty, or the items, or every delta there was.
Reconstruct(s) ==
  LET last == CHOOSE i \in Stated(s) : \A j \in Stated(s) : j <= i
      Of(kinds) == {i \in DOMAIN s.frames : s.frames[i].kind \in kinds}
  IN  [output |-> FramesOf(s, IF s.full /\ Stated(s) # {} /\ s.frames[last].kind \in {"completed", "incomplete"}
                              THEN Of({"text"})
                              ELSE IF Of({"item"}) # {} THEN InItems(s) ELSE Of({"text", "thought"})),
       status |-> IF Stated(s) = {} THEN "completed" ELSE StatusOf(s.frames[last].kind)]
-------------------------------------------------------------------------------
(***************************************************************************)
(* Events that are passed on as they come                                  *)
(***************************************************************************)
\* pending.find("\n\n"): no frame of a script with \r\n ends there.
Found == ~script.crlf /\ 3 * (used + 1) <= arrived

Open ==
  /\ phase = "waiting"
  /\ script' \in Scripts
  /\ phase' = "reading"
  /\ UNCHANGED <<endpoint, arrived, used, hurt, started, done, out>>

\* A chunk is read when pending has no whole frame; each is decoded on its own.
Arrive ==
  /\ phase = "reading" /\ ~Found
  /\ arrived' \in arrived + 1 .. Size(script)
  /\ hurt' = hurt \cup {i \in DOMAIN script.frames : script.frames[i].wide /\ arrived' = 3 * i - 2}
  /\ UNCHANGED <<script, endpoint, used, started, done, out, phase>>

\* Mistake: a frame's empty line is looked for in each chunk.
Take_Alone(i) ==
  LET s == Feed(endpoint, [started |-> started, done |-> done, out |-> out],
                script.frames[i].kind, FrameText(i, hurt))
  IN  /\ out'     = IF arrived = 3 * i THEN s.out ELSE out
      /\ started' = s.started
      /\ done'    = s.done

Take(i) ==
  LET s == Feed(endpoint, [started |-> started, done |-> done, out |-> out],
                script.frames[i].kind, FrameText(i, hurt))
  IN  out' = s.out /\ started' = s.started /\ done' = s.done

Translate ==
  /\ phase = "reading" /\ Found
  /\ Take(used + 1)
  /\ used' = used + 1
  /\ UNCHANGED <<script, endpoint, arrived, hurt, phase>>

\* The upstream ends, at its end or before.
UpstreamEnds ==
  /\ phase = "reading" /\ ~Found
  /\ phase' = "rest"
  /\ UNCHANGED <<script, endpoint, arrived, used, hurt, started, done, out>>

\* What is left in pending counts as one event: the first of its payloads that can be parsed.
\* The last frame counts if its payload has come in; half a payload is no JSON.
Rest ==
  /\ phase = "rest"
  /\ LET Parsed == {i \in used + 1 .. Len(script.frames) :
                      3 * i - 1 <= arrived /\ script.frames[i].kind \notin {"junk", "[DONE]"}}
     IN  IF Parsed = {} THEN UNCHANGED <<out, started, done>>
         ELSE \E i \in Parsed : (\A j \in Parsed : i <= j) /\ Take(i)
  /\ phase' = "stop"
  /\ UNCHANGED <<script, endpoint, arrived, used, hurt>>

MakeEnd ==
  /\ phase = "stop"
  /\ out' = Finish(endpoint, [started |-> started, done |-> done, out |-> out]).out
  /\ phase' = "ended"
  /\ UNCHANGED <<script, endpoint, arrived, used, hurt, started, done>>

\* An error of the connection is passed on and ends the stream.
Break ==
  /\ phase = "reading" /\ ~Found
  /\ phase' = "broken"
  /\ UNCHANGED <<script, endpoint, arrived, used, hurt, started, done, out>>

Reading == Arrive \/ Translate \/ UpstreamEnds \/ Rest \/ MakeEnd \/ Break
-------------------------------------------------------------------------------
(***************************************************************************)
(* What the client may rely on                                             *)
(***************************************************************************)
\* A script is orderly if nothing that matters comes after an event that ends the answer.
Orderly(s) ==
  \A i, j \in DOMAIN s.frames : i < j /\ Ends(s.frames[i].kind) => Ignored(s.frames[j].kind)

\* The frames that have come in whole, or but for their empty line.
CameIn(s, size) == [s EXCEPT !.frames = SubSeq(@, 1, (size + 1) \div 3)]

\* However the events are cut into chunks and wherever the upstream stops, the client gets what
\* the same events give when they come as one body (service.rs:2251-2272).  Excepted are the
\* two ways in which the code does depend on the chunks: frames that end in \r\n are never found
\* in pending, and each chunk is decoded on its own.
LiveIsWhole ==
  phase = "ended" /\ ~script.crlf /\ hurt = {} =>
    out = Transcript(endpoint, CameIn(script, arrived), {})

Positions(name) == {i \in DOMAIN out : out[i].event = name}
Over == IF endpoint = "messages" THEN {"message_stop", "error"} ELSE {"[DONE]", "error"}

\* Whatever the upstream sends, and wherever it stops, a client sees one answer that is opened
\* once, before its text, and ended once, after it, or ended with an error, and the text's pieces
\* keep their order.  Only an upstream that goes on after its own end gets around that
\* (service.rs:2387-2455, 2488-2517).
WellFormed ==
  Orderly(script) =>
    /\ \A i, j \in Positions("text") : i < j => out[i].frame < out[j].frame
    /\ \A i, j \in DOMAIN out : out[i].event \in Over => j <= i
    /\ phase = "ended" => out # <<>> /\ Last(out).event \in Over
    /\ endpoint = "messages" =>
         /\ Cardinality(Positions("message_start")) <= 1
         /\ \A i \in DOMAIN out : out[i].event # "error" =>
              \E j \in 1 .. i : out[j].event = "message_start"
         /\ \A i \in Positions("text") : \E j \in 1 .. i : out[j].event = "content_block_start"
===============================================================================
