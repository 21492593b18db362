----------------------------- MODULE HTTPMonitor -----------------------------
(***************************************************************************)
(* The monitor of an HTTP connection between a host and a device. It is    *)
(* shown what passes in both directions and works out from it whose turn   *)
(* it is. Host and device keep to HTTP: what each of them is to send for   *)
(* the current request is in its script.                                   *)
(*                                                                         *)
(* Data arrives in pieces: a line, the beginning or the end of one, or a   *)
(* unit of a message's body. The monitor is called with a piece (input)    *)
(* and goes round its loop until the piece is used up.                     *)
(***************************************************************************)
EXTENDS Naturals, Sequences

CONSTANTS
  MaxBody,     \* the longest body, in units
  MaxRequests  \* the requests on the connection (a bound of the check)

VARIABLES
  state, phase, status,   \* hm->state, hm->phase, hm->status
  encoding,               \* hm->data_encoding
  length, remaining,      \* hm->data_length, hm->data_remaining
  chunk,                  \* hm->data_chunk
  host_buffer,            \* hm->host, pieces of lines from both sides
  input,                  \* the piece that is looked at, None between calls
  host, device,           \* what they have still to send
  begun,                  \* each side: the beginning of its next line is sent
  requests,               \* how many there were
  unusual                 \* a request was refused before its end, a POST had an
                          \* empty body, or a line of one side was cut in two
                          \* by something of the other (history)

bodyVars    == <<encoding, length, remaining, chunk>>
monitorVars == <<state, phase, status, bodyVars, host_buffer, input>>
peerVars    == <<host, device, begun, requests, unusual>>
httpVars    == <<monitorVars, peerVars>>

None == [from |-> "nobody"]

Init ==
  /\ state = "waiting" /\ phase = "client headers" /\ status = "continue"
  /\ encoding = "length" /\ length = 0 /\ remaining = 0 /\ chunk = "header"
  /\ host_buffer = << >> /\ input = None
  /\ host = << >> /\ device = << >>
  /\ begun = [s \in {"host", "device"} |-> FALSE]
  /\ requests = 0 /\ unusual = FALSE

-----------------------------------------------------------------------------
(* HTTP, as host and device speak it.                                      *)

Line(kind, value) == [kind |-> kind, value |-> value]
Blank     == Line("blank", 0)
Unit      == Line("body", 1)
Units(n)  == [i \in 1..n |-> Unit]

Methods == {"GET", "HEAD", "POST"}

Bodies == [encoding : {"length", "chunked"}, size : 0..MaxBody]
NoBody == [encoding |-> "none", size |-> 0]

Headers(b) ==
  CASE b.encoding = "none" -> << >>
    [] b.encoding = "length" -> <<Line("content-length", b.size)>>
    [] b.encoding = "chunked" -> <<Line("chunked", 0)>>

Data(b) ==
  CASE b.encoding = "none" -> << >>
    [] b.encoding = "length" -> Units(b.size)
    [] b.encoding = "chunked" ->
         (IF b.size = 0 THEN << >>
          ELSE <<Line("chunk", b.size)>> \o Units(b.size) \o <<Blank>>)
           \o <<Line("chunk", 0), Blank>>

Request(method, b) ==
  <<Line("request", method), Line("header", 0)>> \o Headers(b) \o <<Blank>>
    \o Data(b)

Continue == <<Line("status", "continue"), Blank>>

Response(method, code, b) ==
  <<Line("status", code)>> \o Headers(b) \o <<Blank>>
    \o (IF method = "HEAD" THEN << >> ELSE Data(b))

Idle == host = << >> /\ device = << >>

NewRequest ==
  /\ Idle /\ input = None /\ status # "error" /\ requests < MaxRequests
  /\ \E method \in Methods, b \in Bodies, r \in Bodies \cup {NoBody},
        code \in {"ok", "fail"}, early \in {<< >>, Continue} :
       /\ host' = Request(method, IF method = "POST" THEN b ELSE NoBody)
       /\ device' = early \o Response(method, code, r)
       /\ unusual' = (unusual \/ (method = "POST" /\ Data(b) = << >>))
  /\ requests' = requests + 1
  /\ UNCHANGED <<monitorVars, begun>>

\* What a side sends next: a whole line or a part of one, or a unit of a body.
Send(side, script, refuses) ==
  /\ input = None /\ status # "error"
  /\ script # << >>
  /\ LET l == script[1] IN
     \E part \in IF begun[side] THEN {"end"}
                 ELSE IF l = Unit THEN {"unit"} ELSE {"whole", "begin"} :
       /\ input' = [from |-> side, line |-> l, part |-> part]
       /\ begun' = [begun EXCEPT ![side] = (part = "begin")]
       /\ unusual' = (unusual \/ refuses \/ \E s \in DOMAIN begun \ {side} : begun[s])
  /\ UNCHANGED <<state, phase, status, bodyVars, host_buffer, requests>>

Rest(script) == IF input'.part = "begin" THEN script ELSE Tail(script)

\* The headers of the request have been sent.
HeadersSent == \A i \in DOMAIN host :
                 /\ host[i].kind \in {"body", "chunk", "blank"}
                 /\ host[i] = Blank => i > 1

HostSends ==
  /\ Send("host", host, FALSE)
  /\ host' = Rest(host)
  /\ UNCHANGED device

\* The device answers when it has the request, tells the host to continue when
\* it has the headers, or refuses the rest of it.
DeviceSends ==
  /\ Send("device", device,
          host # << >> /\ device # << >> /\ device[1] = Line("status", "fail"))
  /\ \/ host = << >>
     \/ HeadersSent /\ device[1] # Line("status", "ok")
  /\ device' = Rest(device)
  /\ UNCHANGED host

-----------------------------------------------------------------------------
(* http_buffer_line and http_buffer_consume.                               *)

From(side) == input.from = side /\ status # "error"

\* What comes before the end of a line, without returns: the end of an empty
\* line adds nothing to it.
Pieces == Append(host_buffer, input)
Text   == {i \in DOMAIN Pieces : Pieces[i].line # Blank}
First  == CHOOSE i \in Text : \A k \in Text : i <= k

\* The line that the piece ends, or one made of parts of several.
TheLine ==
  IF Text = {} THEN Blank
  ELSE IF \/ Text = {First} /\ Pieces[First].part = "whole"
          \/ \E k \in Text : /\ Text = {First, k} /\ Pieces[First].part = "begin"
                             /\ Pieces[k] = [Pieces[First] EXCEPT !.part = "end"]
  THEN Pieces[First].line
  ELSE Line("mixed", Pieces[First].line.kind)

EndsLine == input.part \in {"whole", "end"}

\* The piece is used up, and with it the beginning of its line.
LineRead == EndsLine /\ host_buffer' = << >> /\ input' = None

\* A piece that does not end a line is added to the buffer.
PartKept ==
  /\ ~EndsLine
  /\ host_buffer' = Append(host_buffer, input)
  /\ input' = None
  /\ UNCHANGED <<state, phase, status, bodyVars>>

\* What remains of the body comes first from the buffer and then the piece.
Consume ==
  /\ IF remaining <= Len(host_buffer)
     THEN /\ host_buffer' = SubSeq(host_buffer, remaining + 1, Len(host_buffer))
          /\ remaining' = 0
          /\ UNCHANGED input
     ELSE /\ host_buffer' = << >>
          /\ remaining' = remaining - Len(host_buffer) - 1
          /\ input' = None

Error == status' = "error" /\ UNCHANGED <<state, phase, bodyVars>>

-----------------------------------------------------------------------------
(* Both sides: the headers and the data of a message.                      *)

SetBody(e, n) == /\ encoding' = e /\ length' = n /\ remaining' = n
                 /\ chunk' = IF e = "chunked" THEN "header" ELSE chunk

\* Transfer-Encoding and Content-Length; other headers are skipped.
Header(l) ==
  \/ /\ \/ l.kind = "chunked" /\ SetBody("chunked", 0)
        \/ l.kind = "content-length" /\ SetBody("length", l.value)
        \/ l.kind = "header" /\ UNCHANGED bodyVars
     /\ UNCHANGED <<state, phase, status>>
  \/ l.kind \notin {"chunked", "content-length", "header"} /\ Error

ChunkHeader ==
  /\ encoding = "chunked" /\ chunk = "header"
  /\ \/ PartKept
     \/ /\ LineRead
        /\ \/ TheLine = Blank /\ Error
           \/ /\ TheLine # Blank
              /\ LET n == IF TheLine.kind = "chunk" THEN TheLine.value ELSE 0 IN
                 /\ length' = n /\ remaining' = n
                 /\ chunk' = IF n = 0 THEN "trailer" ELSE "data"
              /\ UNCHANGED <<state, phase, status, encoding>>

ChunkData ==
  /\ encoding = "chunked" /\ chunk = "data"
  /\ Consume
  /\ chunk' = IF remaining' = 0 THEN "trailer" ELSE chunk
  /\ UNCHANGED <<state, phase, status, encoding, length>>

\* At the end of a chunk; end says what the end of the last one does.
\* Mutant: the next chunk's length is not read.
ChunkTrailerStays(end) ==
  /\ encoding = "chunked" /\ chunk = "trailer"
  /\ \/ PartKept
     \/ /\ LineRead
        /\ \/ TheLine # Blank /\ Error
           \/ TheLine = Blank /\ length = 0 /\ end
           \/ /\ TheLine = Blank /\ length > 0
              /\ UNCHANGED <<state, phase, status, bodyVars>>
ChunkTrailer(end) ==
  /\ encoding = "chunked" /\ chunk = "trailer"
  /\ \/ PartKept
     \/ /\ LineRead
        /\ \/ TheLine # Blank /\ Error
           \/ TheLine = Blank /\ length = 0 /\ end
           \/ /\ TheLine = Blank /\ length > 0
              /\ chunk' = "header"
              /\ UNCHANGED <<state, phase, status, encoding, length, remaining>>

FixedData(end) ==
  /\ encoding = "length"
  /\ Consume
  /\ IF remaining' = 0 THEN end
     ELSE UNCHANGED <<state, phase, status, encoding, length, chunk>>

-----------------------------------------------------------------------------
(* _papplHTTPMonitorProcessHostData.                                       *)

RequestLine ==
  /\ state = "waiting"
  /\ \/ PartKept
     \/ /\ LineRead
        /\ \/ TheLine.kind # "request" /\ Error
           \/ /\ TheLine.kind = "request"
              /\ state' = TheLine.value
              /\ status' = "continue"
              /\ SetBody("length", 0)
              /\ UNCHANGED phase

RequestHeader ==
  /\ state # "waiting" /\ phase = "client headers"
  /\ \/ PartKept
     \/ /\ LineRead
        /\ \/ TheLine # Blank /\ Header(TheLine)
           \/ /\ TheLine = Blank
              /\ phase' = IF state = "POST" THEN "client data"
                          ELSE "server headers"
              /\ UNCHANGED <<state, status, bodyVars>>

\* The end of the request's data: the device is to answer.
RequestEnd ==
  /\ phase' = "server headers"
  /\ status' = "continue"
  /\ encoding' = "length" /\ length' = 0
  /\ UNCHANGED <<state, chunk>>

RequestData ==
  /\ state # "waiting" /\ phase = "client data"
  /\ \/ ChunkHeader \/ ChunkData
     \/ ChunkTrailer(RequestEnd /\ remaining' = 0)
     \/ FixedData(RequestEnd)

HostOutOfTurn ==
  /\ state # "waiting" /\ phase \in {"server headers", "server data"}
  /\ Error /\ UNCHANGED <<host_buffer, input>>

ProcessHostData ==
  /\ From("host")
  /\ (RequestLine \/ RequestHeader \/ RequestData \/ HostOutOfTurn)
  /\ UNCHANGED peerVars

-----------------------------------------------------------------------------
(* _papplHTTPMonitorProcessDeviceData.                                     *)

\* The host may send the next request.
ResponseEnd == state' = "waiting" /\ phase' = "client headers"
                 /\ UNCHANGED status

\* The end of the headers: data follows, or the response is complete unless it
\* told the host to continue.
ResponseBlank ==
  IF state # "HEAD" /\ (remaining > 0 \/ encoding = "chunked")
  THEN phase' = "server data" /\ UNCHANGED <<state, status>>
  ELSE IF status # "continue" THEN ResponseEnd
  ELSE UNCHANGED <<state, phase, status>>

ResponseHeader ==
  /\ phase = "server headers"
  /\ \/ PartKept
     \/ /\ LineRead
        /\ \/ TheLine = Blank /\ ResponseBlank /\ UNCHANGED bodyVars
           \/ /\ TheLine.kind = "status" /\ status = "continue"
              /\ status' = TheLine.value
              /\ UNCHANGED <<state, phase, bodyVars>>
           \/ /\ TheLine # Blank
              /\ ~(TheLine.kind = "status" /\ status = "continue")
              /\ Header(TheLine)

ResponseData ==
  /\ phase = "server data"
  /\ \/ ChunkHeader \/ ChunkData
     \/ ChunkTrailer(ResponseEnd /\ UNCHANGED bodyVars)
     \/ FixedData(ResponseEnd /\ UNCHANGED <<encoding, length, chunk>>)

\* While the host sends its data the device may tell it to continue, or refuse.
\* The status of a line that is put together is anyone's guess.
EarlyResponse ==
  /\ phase = "client data"
  /\ \/ PartKept
     \/ /\ LineRead
        /\ \/ TheLine = Blank /\ UNCHANGED <<state, phase, status, bodyVars>>
           \/ \E code \in {"continue", "ok", "fail"} :
                /\ \/ TheLine = Line("status", code)
                   \/ TheLine = Line("mixed", "status")
                /\ status' = IF code = "ok" THEN "error" ELSE code
                /\ phase' = IF code = "fail" THEN "server headers" ELSE phase
                /\ UNCHANGED <<state, bodyVars>>
           \/ /\ TheLine # Blank /\ TheLine.kind # "status"
              /\ TheLine # Line("mixed", "status")
              /\ Error

DeviceOutOfTurn ==
  /\ (state = "waiting" \/ phase = "client headers")
  /\ Error /\ UNCHANGED <<host_buffer, input>>

ProcessDeviceData ==
  /\ From("device")
  /\ \/ /\ state # "waiting"
        /\ (ResponseHeader \/ ResponseData \/ EarlyResponse)
     \/ DeviceOutOfTurn
  /\ UNCHANGED peerVars

-----------------------------------------------------------------------------
Next ==
  \/ NewRequest
  \/ HostSends \/ DeviceSends
  \/ ProcessHostData \/ ProcessDeviceData

Spec == Init /\ [][Next]_httpVars

-----------------------------------------------------------------------------
(* Properties.                                                             *)

\* Every variable has its type.
TypeOK ==
  /\ state \in Methods \cup {"waiting"}
  /\ phase \in {"client headers", "client data", "server headers",
                "server data"}
  /\ status \in {"continue", "ok", "fail", "error"}
  /\ encoding \in {"length", "chunked"}
  /\ length \in 0..MaxBody /\ remaining \in 0..MaxBody
  /\ chunk \in {"header", "data", "trailer"}
  /\ \A i \in DOMAIN host_buffer : host_buffer[i].part \in {"begin", "unit"}
  /\ requests \in 0..MaxRequests /\ unusual \in BOOLEAN

\* The request line has not been sent.
NotBegun == host # << >> /\ host[1].kind = "request"

\* Between calls the monitor knows whose turn it is, however the two messages
\* are cut into pieces and whatever has a body: it sees no error, waits for a
\* request exactly if none is under way, and waits for the device exactly if the
\* request has been sent. (Unless a request is refused before its end, a POST has
\* an empty body, or the lines of the two sides mix in the one buffer.)
InStep ==
  (input = None /\ ~unusual) =>
    /\ status # "error"
    /\ state = "waiting" <=> (Idle \/ NotBegun)
    /\ phase \in {"server headers", "server data"}
         <=> (host = << >> /\ device # << >>)
=============================================================================
